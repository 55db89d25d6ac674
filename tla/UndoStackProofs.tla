--------------------------- MODULE UndoStackProofs ---------------------------
(***************************************************************************)
(* Proofs about UndoStack for every set of entries, every capacity and     *)
(* every initial content of undo.json.                                     *)
(***************************************************************************)
EXTENDS UndoStack, SequenceTheorems, TLAPS

-----------------------------------------------------------------------------
(* What the operators on stacks preserve.                                  *)

\* Truncation keeps the type, respects the capacity, drops entries only, and
\* leaves a stack that already fits alone (undo.rs enable_persistence).
LEMMA NewestProperties ==
  ASSUME NEW s \in Seq(Entry)
  PROVE  /\ Newest(s) \in Seq(Entry)
         /\ Len(Newest(s)) <= Capacity
         /\ Range(Newest(s)) \subseteq Range(s)
         /\ Distinct(s) => Distinct(Newest(s))
         /\ Len(s) <= Capacity => Newest(s) = s
<1>1. Len(s) \in Nat /\ Capacity \in Nat \ {0}
  BY LenProperties, UndoStackAssumption
<1>2. CASE Len(s) <= Capacity
  BY <1>1, <1>2 DEF Newest
<1>3. CASE Len(s) > Capacity
  <2> DEFINE m == Len(s) - Capacity + 1
             t == SubSeq(s, m, Len(s))
  <2>1. Newest(s) = t
    BY <1>3 DEF Newest
  <2>2. m \in Int /\ m >= 2 /\ m <= Len(s) /\ Len(s) - m + 1 = Capacity
    BY <1>1, <1>3
  <2>3. \A i \in m..Len(s) : s[i] \in Entry
    BY <1>1, <2>2, ElementOfSeq
  <2> HIDE DEF m
  <2>4. /\ t \in Seq(Entry)
        /\ Len(t) = Capacity
        /\ \A i \in 1..Capacity : t[i] = s[m + i - 1]
    <3>1. /\ SubSeq(s, m, Len(s)) \in Seq(Entry)
          /\ Len(SubSeq(s, m, Len(s))) = IF m <= Len(s) THEN Len(s) - m + 1 ELSE 0
          /\ \A i \in 1..Len(s) - m + 1 : SubSeq(s, m, Len(s))[i] = s[m + i - 1]
      BY <1>1, <2>2, <2>3, SubSeqProperties
    <3>2. QED BY <3>1, <2>2
  <2> HIDE DEF t
  <2>5. \A i \in 1..Capacity : m + i - 1 \in 1..Len(s)
    BY <1>1, <2>2
  <2>6. Range(t) \subseteq Range(s)
    BY <2>4, <2>5, RangeEquality
  <2>7. Distinct(s) => Distinct(t)
    <3> SUFFICES ASSUME Distinct(s), NEW i \in 1..Capacity, NEW j \in 1..Capacity,
                        t[i] = t[j]
                 PROVE  i = j
      BY <2>4 DEF Distinct
    <3>1. m + i - 1 = m + j - 1
      BY <2>4, <2>5 DEF Distinct
    <3>2. QED BY <3>1, <2>2
  <2>8. QED BY <1>1, <1>3, <2>1, <2>4, <2>6, <2>7
<1>4. QED BY <1>1, <1>2, <1>3

\* A push keeps the type and the capacity, adds only the new entry, and keeps
\* the entries distinct if the entry is new (undo.rs push).
LEMMA PushedProperties ==
  ASSUME NEW s \in Seq(Entry), Len(s) <= Capacity, NEW e \in Entry
  PROVE  /\ Pushed(s, e) \in Seq(Entry)
         /\ Len(Pushed(s, e)) <= Capacity
         /\ Range(Pushed(s, e)) \subseteq Range(s) \union {e}
         /\ Distinct(s) /\ e \notin Range(s) => Distinct(Pushed(s, e))
<1> DEFINE t == IF Len(s) = Capacity THEN Tail(s) ELSE s
<1>1. Len(s) \in Nat /\ Capacity \in Nat \ {0}
  BY LenProperties, UndoStackAssumption
<1>2. /\ t \in Seq(Entry)
      /\ Len(t) \in Nat
      /\ Len(t) < Capacity
      /\ \E d \in {0, 1} : \A i \in 1..Len(t) : i + d \in 1..Len(s) /\ t[i] = s[i + d]
  <2>1. CASE Len(s) = Capacity
    <3>1. s # <<>>
      BY <1>1, <2>1, EmptySeq
    <3>2. Tail(s) \in Seq(Entry) /\ Len(Tail(s)) = Len(s) - 1
          /\ \A i \in 1..Len(Tail(s)) : Tail(s)[i] = s[i + 1]
      BY <3>1, HeadTailProperties
    <3>3. QED BY <1>1, <2>1, <3>2
  <2>2. CASE Len(s) # Capacity
    <3>1. \A i \in 1..Len(t) : i + 0 \in 1..Len(s) /\ t[i] = s[i + 0]
      BY <1>1, <2>2
    <3>2. QED BY <1>1, <2>2, <3>1
  <2>3. QED BY <2>1, <2>2
<1>3. Pushed(s, e) = Append(t, e)
  BY DEF Pushed
<1> HIDE DEF t
<1>4. /\ Append(t, e) \in Seq(Entry)
      /\ Len(Append(t, e)) = Len(t) + 1
      /\ \A i \in 1..Len(t) : Append(t, e)[i] = t[i]
      /\ Append(t, e)[Len(t) + 1] = e
  BY <1>2, AppendProperties
<1>5. PICK d \in {0, 1} : \A i \in 1..Len(t) : i + d \in 1..Len(s) /\ t[i] = s[i + d]
  BY <1>2
<1>a. Range(s) = {s[i] : i \in 1..Len(s)}
  BY RangeEquality
<1>6. Range(Append(t, e)) \subseteq Range(s) \union {e}
  <2>0. Range(Append(t, e)) = {Append(t, e)[i] : i \in 1..Len(Append(t, e))}
    BY <1>4, RangeEquality
  <2> SUFFICES ASSUME NEW i \in 1..(Len(t) + 1)
               PROVE  Append(t, e)[i] \in Range(s) \union {e}
    BY <1>4, <2>0
  <2>1. CASE i = Len(t) + 1
    BY <1>4, <2>1
  <2>2. CASE i \in 1..Len(t)
    BY <1>4, <1>5, <1>a, <2>2
  <2>3. QED BY <1>2, <2>1, <2>2
<1>7. ASSUME Distinct(s), e \notin Range(s)
      PROVE  Distinct(Append(t, e))
  <2> SUFFICES ASSUME NEW i \in 1..(Len(t) + 1), NEW j \in 1..(Len(t) + 1),
                      Append(t, e)[i] = Append(t, e)[j]
               PROVE  i = j
    BY <1>4 DEF Distinct
  <2>1. \A k \in 1..Len(t) : Append(t, e)[k] = s[k + d] /\ k + d \in 1..Len(s)
    BY <1>4, <1>5
  <2>2. \A k \in 1..Len(t) : Append(t, e)[k] # e
    BY <1>7, <1>a, <2>1
  <2>3. CASE i \in 1..Len(t) /\ j \in 1..Len(t)
    <3>1. i + d = j + d
      BY <1>7, <2>1, <2>3 DEF Distinct
    <3>2. QED BY <3>1
  <2>4. CASE i = Len(t) + 1 \/ j = Len(t) + 1
    BY <1>2, <1>4, <2>2, <2>4
  <2>5. QED BY <1>2, <2>3, <2>4
<1>8. QED BY <1>1, <1>2, <1>3, <1>4, <1>6, <1>7

\* A pop takes the last entry away and leaves the others (undo.rs pop).
LEMMA FrontProperties ==
  ASSUME NEW s \in Seq(Entry), s # <<>>
  PROVE  /\ Front(s) \in Seq(Entry)
         /\ Len(Front(s)) = Len(s) - 1
         /\ Range(Front(s)) \subseteq Range(s)
         /\ Last(s) \in Entry /\ Last(s) \in Range(s)
         /\ Distinct(s) => Distinct(Front(s)) /\ Last(s) \notin Range(Front(s))
<1>1. Len(s) \in Nat /\ Len(s) > 0
  BY LenProperties, EmptySeq
<1> DEFINE t == SubSeq(s, 1, Len(s) - 1)
<1>2. \A i \in 1..Len(s) : s[i] \in Entry
  BY ElementOfSeq
<1>3. /\ t \in Seq(Entry)
      /\ Len(t) = Len(s) - 1
      /\ \A i \in 1..(Len(s) - 1) : t[i] = s[i]
  <2>1. \A i \in 1..(Len(s) - 1) : s[i] \in Entry
    BY <1>1, <1>2
  <2> DEFINE n == Len(s) - 1
  <2>2. n \in Int /\ 1 \in Int
    BY <1>1
  <2>2a. \A i \in 1..n : s[i] \in Entry
    BY <2>1
  <2> HIDE DEF n
  <2>3. /\ SubSeq(s, 1, n) \in Seq(Entry)
        /\ Len(SubSeq(s, 1, n)) = IF 1 <= n THEN n - 1 + 1 ELSE 0
        /\ \A i \in 1..n - 1 + 1 : SubSeq(s, 1, n)[i] = s[1 + i - 1]
    BY <2>2, <2>2a, SubSeqProperties
  <2>4. n - 1 + 1 = n /\ n \in Nat /\ \A i \in 1..n : 1 + i - 1 = i
    BY <1>1 DEF n
  <2>5. Len(SubSeq(s, 1, n)) = n
    BY <2>3, <2>4
  <2>6. \A i \in 1..n : SubSeq(s, 1, n)[i] = s[i]
    BY <2>3, <2>4
  <2>7. QED BY <2>3, <2>5, <2>6 DEF n
<1>4. Front(s) = t /\ Last(s) = s[Len(s)]
  BY DEF Front, Last
<1> HIDE DEF t
<1>5. Range(t) = {s[i] : i \in 1..(Len(s) - 1)}
  BY <1>1, <1>3, RangeEquality
<1>6. Range(s) = {s[i] : i \in 1..Len(s)}
  BY RangeEquality
<1>7. Distinct(s) => Distinct(t) /\ s[Len(s)] \notin Range(t)
  BY <1>1, <1>3, <1>5 DEF Distinct
<1>8. QED BY <1>1, <1>2, <1>3, <1>4, <1>5, <1>6, <1>7

-----------------------------------------------------------------------------
(* Type correctness and the bound, with any disk.                          *)

\* The type invariant and the capacity hold together: a push stays within the
\* capacity because the stack it starts from does.
Bounded == TypeOK /\ CapacityOK

\* The three contents a file of the daemon can have are files.
LEMMA FilesTyped ==
  /\ Missing \in File /\ Torn \in File
  /\ \A s \in Seq(Entry) : Doc(s) \in File
  /\ \A f \in File : f.entries \in Seq(Entry)
<1>1. <<>> \in Seq(Entry)
  BY EmptySeq
<1>2. QED BY <1>1 DEF Missing, Torn, Doc, File

\* Types and capacity are inductive together: a push keeps a stack that is
\* not too long from becoming so.
LEMMA BoundedInductive == Bounded /\ [Next]_vars => Bounded'
<1> SUFFICES ASSUME TypeOK, CapacityOK, [Next]_vars
             PROVE  TypeOK' /\ CapacityOK'
  BY DEF Bounded
<1> USE DEF TypeOK, CapacityOK, history
<1>0. Len(<<>>) = 0 /\ <<>> \in Seq(Entry) /\ Capacity \in Nat \ {0}
  BY EmptySeq, UndoStackAssumption
<1>1. CASE Start
  BY <1>1, FilesTyped, NewestProperties DEF Start, Restored
<1>2. ASSUME NEW e \in Entry, Push(e)
      PROVE  TypeOK' /\ CapacityOK'
  <2>1. entries' \in Seq(Entry) /\ Len(entries') <= Capacity
    BY <1>2, PushedProperties DEF Push
  <2>2. op' \in Mutation
    BY <1>2 DEF Push, Mutation, Step
  <2>3. QED BY <1>2, <2>1, <2>2 DEF Push
<1>3. CASE Pop
  <2>1. /\ entries' \in Seq(Entry)
        /\ Len(entries') = Len(entries) - 1
        /\ Last(entries) \in Entry
    BY <1>3, FrontProperties DEF Pop
  <2>2. Len(entries) \in Nat
    BY LenProperties
  <2>3. Len(entries') <= Capacity
    BY <1>0, <2>1, <2>2
  <2>4. op' \in Mutation
    BY <1>3, <2>1 DEF Pop, Mutation, Step
  <2>5. QED BY <1>3, <2>1, <2>3, <2>4 DEF Pop
<1>4. CASE OpenTmp
  BY <1>4, FilesTyped DEF OpenTmp, At, Mutation, Step
<1>5. CASE FillTmp
  <2>1. tmp' \in File
    BY <1>5, FilesTyped DEF FillTmp
  <2>2. op' \in Mutation
    BY <1>5 DEF FillTmp, At, Mutation, Step
  <2>3. QED BY <1>5, <2>1, <2>2 DEF FillTmp
<1>6. CASE Rename
  <2>1. /\ file' \in File /\ file'.entries \in Seq(Entry)
        /\ given' \subseteq Entry
    BY <1>6, FilesTyped DEF Rename, Return, At, Mutation
  <2>2. promise' \in [hist : Seq(Entry), undone : SUBSET Entry]
    BY <1>6, <2>1, NewestProperties DEF Rename, Restored
  <2>3. QED BY <1>6, <2>1, <2>2, FilesTyped DEF Rename, Return, history
<1>7. CASE PersistFails
  BY <1>7 DEF PersistFails, Return, Mutation
<1>8. CASE Crash
  <2>1. entries' = <<>> /\ op' = Idle
    BY <1>8 DEF Crash
  <2>2. entries' \in Seq(Entry) /\ Len(entries') = 0
    BY <1>0, <2>1
  <2>3. Len(entries') <= Capacity
    BY <1>0, <2>2
  <2>4. QED BY <1>8, <2>1, <2>2, <2>3 DEF Crash
<1>9. CASE UNCHANGED vars
  BY <1>9 DEF vars
<1>10. QED
  BY <1>1, <1>2, <1>3, <1>4, <1>5, <1>6, <1>7, <1>8, <1>9 DEF Next

\* A daemon that has not started holds an empty stack.
LEMMA BoundedInit == Init => Bounded
<1> SUFFICES ASSUME Init PROVE Bounded
  OBVIOUS
<1>1. file \in File /\ file.entries \in Seq(Entry)
  BY FilesTyped, UndoStackAssumption DEF Init
<1>2. known \subseteq Entry
  BY <1>1, RangeOfSeq DEF Init
<1>3. Len(<<>>) = 0 /\ <<>> \in Seq(Entry) /\ Capacity \in Nat \ {0}
  BY EmptySeq, UndoStackAssumption
<1>4. TypeOK
  BY <1>1, <1>2, <1>3, FilesTyped, NewestProperties DEF Init, TypeOK, Restored
<1>5. CapacityOK
  BY <1>3 DEF Init, CapacityOK
<1>6. QED BY <1>4, <1>5 DEF Bounded

\* The state stays within its types in every run of the stack (undo.rs).
THEOREM TypeCorrect == Spec => []TypeOK
<1>1. Bounded => TypeOK
  BY DEF Bounded
<1>2. QED BY <1>1, BoundedInit, BoundedInductive, PTL DEF Spec

\* The stack never exceeds UNDO_CAPACITY, whatever file the daemon started on
\* and however often persisting failed (undo.rs push, enable_persistence).
THEOREM CapacityRespected == Spec => []CapacityOK
<1>1. Bounded => CapacityOK
  BY DEF Bounded
<1>2. QED BY <1>1, BoundedInit, BoundedInductive, PTL DEF Spec

\* No step leaves undo.json cut short unless it already was: the file is only
\* ever replaced by a temporary file that has been written to its end.
TmpComplete == At("written") => tmp.kind = "json"

\* No step replaces undo.json by a file cut short: what is renamed over it is
\* complete (undo.rs write).
THEOREM FileNeverTorn == Spec => FileIntact
<1>1. Init => TmpComplete
  BY DEF Init, TmpComplete, At
<1>2. TmpComplete /\ [Next]_vars => TmpComplete'
  <2> SUFFICES ASSUME TmpComplete, [Next]_vars PROVE TmpComplete'
    OBVIOUS
  <2> USE DEF TmpComplete, At
  <2>1. CASE Start
    BY <2>1 DEF Start
  <2>2. ASSUME NEW e \in Entry, Push(e) PROVE TmpComplete'
    BY <2>2 DEF Push
  <2>3. CASE Pop
    BY <2>3 DEF Pop
  <2>4. CASE OpenTmp
    BY <2>4 DEF OpenTmp
  <2>5. CASE FillTmp
    BY <2>5 DEF FillTmp, Doc
  <2>6. CASE Rename \/ PersistFails
    BY <2>6 DEF Rename, PersistFails, Return
  <2>7. CASE Crash
    BY <2>7 DEF Crash
  <2>8. CASE UNCHANGED vars
    BY <2>8 DEF vars
  <2>9. QED
    BY <2>1, <2>2, <2>3, <2>4, <2>5, <2>6, <2>7, <2>8 DEF Next
<1>3. TmpComplete /\ [Next]_vars => [file' = Torn => file = Torn]_vars
  <2> SUFFICES ASSUME TmpComplete, Next, file' = Torn, file' # file
               PROVE  FALSE
    BY DEF vars
  <2>1. file' = tmp /\ At("written")
    BY DEF Next, Start, Push, Pop, OpenTmp, FillTmp, Rename, PersistFails, Crash
  <2>2. QED BY <2>1 DEF TmpComplete, Torn
<1>4. QED BY <1>1, <1>2, <1>3, PTL DEF Spec, FileIntact

-----------------------------------------------------------------------------
(* Until the disk fails, undo.json is the stack as of the last push or pop *)
(* that returned, and the mutation in progress is one step ahead of it.    *)

Ahead ==
    /\ (up /\ op = Idle) => entries = Restored(file)
    /\ (op # Idle /\ op.kind = "push") =>
          /\ entries = Pushed(Restored(file), op.entry)
          /\ op.entry \notin Range(file.entries) \union given
    /\ (op # Idle /\ op.kind = "pop") =>
          /\ Restored(file) # <<>>
          /\ entries = Front(Restored(file))
          /\ op.entry = Last(Restored(file))

\* Every entry ever recorded is known, so a new one is on no stack.
Known ==
    /\ Range(file.entries) \union given \subseteq known
    /\ op # Idle => op.entry \in known

\* What was promised is what the file holds and pop has returned.
Promised == promise = [hist |-> Restored(file), undone |-> given]

Fresh == given \cap (Range(entries) \union Range(file.entries)) = {}

Sound ==
    /\ ~up => op = Idle
    /\ At("written") => tmp = Doc(entries)
    /\ Distinct(file.entries)
    /\ Fresh
    /\ Ahead
    /\ Known
    /\ Promised

ReliableInv == Bounded /\ (~failed => Sound)

\* What undo.json restores to is a well-formed stack of entries of the file.
LEMMA RestoredProperties ==
  ASSUME TypeOK, Distinct(file.entries)
  PROVE  /\ Restored(file) \in Seq(Entry)
         /\ Len(Restored(file)) <= Capacity
         /\ Range(Restored(file)) \subseteq Range(file.entries)
         /\ Distinct(Restored(file))
<1>1. file.entries \in Seq(Entry)
  BY FilesTyped DEF TypeOK
<1>2. QED BY <1>1, NewestProperties DEF Restored

\* Before the first start nothing has been recorded but what the file holds.
LEMMA ReliableInit == Init => ReliableInv
<1> SUFFICES ASSUME Init PROVE ReliableInv
  OBVIOUS
<1>1. Bounded
  BY BoundedInit
<1>2. Distinct(file.entries)
  BY UndoStackAssumption DEF Init
<1>3. Range(<<>>) = {}
  BY DEF Range
<1>4. Fresh /\ Ahead /\ Known /\ Promised
  BY DEF Init, Fresh, Ahead, Known, Promised
<1>5. QED BY <1>1, <1>2, <1>4 DEF Init, ReliableInv, Sound, At

\* The renamed file restores to the stack in memory: it already fits.
LEMMA RenameRestores ==
  ASSUME Bounded, Sound, Rename
  PROVE  /\ file'.entries = entries
         /\ Restored(file)' = entries
<1>1. file' = Doc(entries)
  BY DEF Sound, Rename
<1>2. file'.entries = entries
  BY <1>1 DEF Doc
<1>3. entries \in Seq(Entry) /\ Len(entries) <= Capacity
  BY DEF Bounded, TypeOK, CapacityOK
<1>4. Newest(entries) = entries
  BY <1>3, NewestProperties
<1>5. QED BY <1>2, <1>4 DEF Restored

\* No step breaks the strengthened invariant.
LEMMA ReliableInductive ==
  ReliableInv /\ [Next]_vars => ReliableInv'
<1> SUFFICES ASSUME ReliableInv, [Next]_vars, ~failed'
             PROVE  Sound'
  BY BoundedInductive DEF ReliableInv
<1> USE DEF history
<1>0. Bounded /\ Sound
  <2>1. ~failed
    BY DEF Next, vars, Start, Push, Pop, OpenTmp, FillTmp, Rename, PersistFails, Crash
  <2>2. QED BY <2>1 DEF ReliableInv
<1>1. TypeOK /\ Distinct(file.entries)
  BY <1>0 DEF Sound, Bounded
<1>1a. UNCHANGED <<file, given, promise>> => Promised'
  BY <1>0 DEF Sound, Promised, Restored, Newest
<1>2. /\ Restored(file) \in Seq(Entry)
      /\ Len(Restored(file)) <= Capacity
      /\ Range(Restored(file)) \subseteq Range(file.entries)
      /\ Distinct(Restored(file))
  BY <1>1, RestoredProperties
<1>3. /\ ~up => op = Idle
      /\ At("written") => tmp = Doc(entries)
      /\ Fresh /\ Ahead /\ Known
  BY <1>0 DEF Sound
<1>4. Range(<<>>) = {}
  BY DEF Range
<1>5. CASE Start
  <2>1. /\ up' /\ entries' = Restored(file)
        /\ UNCHANGED <<op, tmp, file, known, given, promise>>
        /\ op = Idle
    BY <1>3, <1>5 DEF Start
  <2>2. Fresh'
    BY <1>2, <1>3, <2>1 DEF Fresh
  <2>3. Ahead' /\ Known'
    BY <1>3, <2>1 DEF Ahead, Known, Restored, Newest
  <2>4. QED BY <1>1, <1>1a, <2>1, <2>2, <2>3 DEF Sound, At
<1>6. ASSUME NEW e \in Entry, Push(e)
      PROVE  Sound'
  <2>1. /\ up /\ op = Idle /\ e \notin known
        /\ entries = Restored(file)
        /\ entries' = Pushed(entries, e)
        /\ op' = [kind |-> "push", entry |-> e, step |-> "mutated"]
        /\ known' = known \union {e}
        /\ UNCHANGED <<up, tmp, file, given, promise>>
    BY <1>3, <1>6 DEF Push, Ahead
  <2>2. op' # Idle /\ op'.kind = "push" /\ op'.entry = e /\ op'.step = "mutated"
    BY <2>1 DEF Idle
  <2>3. Range(entries') \subseteq Range(file.entries) \union {e}
    BY <1>2, <2>1, PushedProperties
  <2>4. e \notin Range(file.entries) \union given
    BY <1>3, <2>1 DEF Known
  <2>5. Fresh'
    BY <1>3, <2>1, <2>3, <2>4 DEF Fresh
  <2>6. Restored(file)' = Restored(file)
    BY <2>1 DEF Restored, Newest
  <2>7. Ahead'
    BY <2>1, <2>2, <2>4, <2>6 DEF Ahead
  <2>8. Known'
    BY <1>3, <2>1, <2>2 DEF Known
  <2>9. QED BY <1>1, <1>1a, <2>1, <2>2, <2>5, <2>7, <2>8 DEF Sound, At
<1>7. CASE Pop
  <2>1. /\ up /\ op = Idle /\ entries # <<>>
        /\ entries = Restored(file)
        /\ entries' = Front(entries)
        /\ op' = [kind |-> "pop", entry |-> Last(entries), step |-> "mutated"]
        /\ UNCHANGED <<up, tmp, file, known, given, promise>>
    BY <1>3, <1>7 DEF Pop, Ahead
  <2>2. /\ op' # Idle /\ op'.kind = "pop" /\ op'.step = "mutated"
        /\ op'.entry = Last(entries)
    BY <2>1 DEF Idle
  <2>3. /\ Range(entries') \subseteq Range(file.entries)
        /\ Last(entries) \in Range(file.entries)
    BY <1>2, <2>1, FrontProperties
  <2>4. Fresh'
    BY <1>3, <2>1, <2>3 DEF Fresh
  <2>5. Restored(file)' = Restored(file)
    BY <2>1 DEF Restored, Newest
  <2>6. Ahead'
    BY <2>1, <2>2, <2>5 DEF Ahead
  <2>7. Known'
    BY <1>3, <2>1, <2>2, <2>3 DEF Known
  <2>8. QED BY <1>1, <1>1a, <2>1, <2>2, <2>4, <2>6, <2>7 DEF Sound, At
<1>8. ASSUME OpenTmp \/ FillTmp
      PROVE  Sound'
  <2>1. /\ op # Idle /\ op' # Idle /\ op'.kind = op.kind /\ op'.entry = op.entry
        /\ UNCHANGED <<up, entries, file, known, given, promise>>
        /\ op \in Mutation
    BY <1>1, <1>8 DEF OpenTmp, FillTmp, At, TypeOK, Mutation, Idle
  <2>2. At("written")' => tmp' = Doc(entries')
    BY <1>8, <2>1 DEF OpenTmp, FillTmp, At, Mutation
  <2>3. Fresh' /\ Known'
    BY <1>3, <2>1 DEF Fresh, Known
  <2>4. Restored(file)' = Restored(file)
    BY <2>1 DEF Restored, Newest
  <2>5. Ahead'
    BY <1>3, <2>1, <2>4 DEF Ahead
  <2>6. QED BY <1>1, <1>1a, <1>3, <2>1, <2>2, <2>3, <2>5 DEF Sound
<1>9. CASE Rename
  <2>1. /\ op # Idle /\ op' = Idle
        /\ file'.entries = entries /\ Restored(file)' = entries
        /\ given' = given \union (IF op.kind = "pop" THEN {op.entry} ELSE {})
        /\ UNCHANGED <<up, entries, known>>
        /\ op.kind \in {"push", "pop"}
    BY <1>0, <1>1, <1>9, RenameRestores DEF Rename, Return, At, TypeOK, Mutation
  <2>1a. Promised'
    BY <1>9 DEF Rename, Promised, Restored, Newest
  <2>2. CASE op.kind = "push"
    <3>1. /\ Range(entries) \subseteq Range(file.entries) \union {op.entry}
          /\ Distinct(entries)
          /\ given' = given
          /\ op.entry \in Entry
          /\ op.entry \notin Range(file.entries) \union given
          /\ entries = Pushed(Restored(file), op.entry)
      <4>1. /\ op.entry \notin Range(file.entries) \union given
            /\ entries = Pushed(Restored(file), op.entry)
        BY <1>3, <2>1, <2>2 DEF Ahead
      <4>2. op.entry \in Entry
        BY <1>1, <2>1 DEF TypeOK, Mutation
      <4>3. QED BY <1>2, <2>1, <2>2, <4>1, <4>2, PushedProperties
    <3>2. Fresh'
      BY <1>3, <2>1, <3>1 DEF Fresh
    <3>3. Known'
      BY <1>3, <2>1, <3>1 DEF Known
    <3>4. QED BY <2>1a, <1>3, <2>1, <3>1, <3>2, <3>3 DEF Sound, At, Ahead
  <2>3. CASE op.kind = "pop"
    <3>1. /\ Restored(file) # <<>>
          /\ entries = Front(Restored(file))
          /\ op.entry = Last(Restored(file))
      BY <1>3, <2>1, <2>3 DEF Ahead
    <3>2. /\ Range(entries) \subseteq Range(file.entries)
          /\ Distinct(entries)
          /\ op.entry \notin Range(entries)
          /\ op.entry \in Range(file.entries)
      BY <1>2, <3>1, FrontProperties
    <3>3. Fresh'
      BY <1>3, <2>1, <2>3, <3>2 DEF Fresh
    <3>4. Known'
      BY <1>3, <2>1, <3>2 DEF Known
    <3>5. QED BY <2>1a, <1>3, <2>1, <3>2, <3>3, <3>4 DEF Sound, At, Ahead
  <2>4. QED BY <2>1, <2>2, <2>3
<1>10. CASE PersistFails
  BY <1>10 DEF PersistFails
<1>11. CASE Crash
  <2>1. /\ ~up' /\ entries' = <<>> /\ op' = Idle
        /\ UNCHANGED <<tmp, file, known, given, promise>>
    BY <1>0, <1>11 DEF Crash, Bounded, TypeOK
  <2>2. Fresh' /\ Ahead' /\ Known'
    BY <1>3, <1>4, <2>1 DEF Fresh, Ahead, Known
  <2>3. QED BY <1>1, <1>1a, <2>1, <2>2 DEF Sound, At
<1>12. CASE UNCHANGED vars
  <2>1. UNCHANGED <<up, entries, op, tmp, file, known, given, promise>>
    BY <1>12 DEF vars
  <2>2. Restored(file)' = Restored(file)
    BY <2>1 DEF Restored, Newest
  <2>3. QED
    BY <1>1a, <1>1, <1>3, <2>1, <2>2 DEF Sound, At, Fresh, Ahead, Known
<1>13. QED
  BY <1>5, <1>6, <1>7, <1>8, <1>9, <1>10, <1>11, <1>12 DEF Next

\* The strengthened invariant holds in every run.
LEMMA Reliable == Spec => []ReliableInv
  BY ReliableInit, ReliableInductive, PTL DEF Spec

\* Until the disk fails, no entry is handed to undo() twice, whatever the
\* moments at which daemons crash and restart (undo.rs pop, persist).
THEOREM NothingUndoneTwice == Spec => []UndoneOnce
<1>1. ReliableInv => UndoneOnce
  BY DEF ReliableInv, Sound, Fresh, UndoneOnce
<1>2. QED BY <1>1, Reliable, PTL

\* Until the disk fails, a restart between two operations finds the stack it
\* left (README "Persistent undo"; undo.rs persist, enable_persistence).
THEOREM RestartLosesNothing == Spec => []MirrorsMemory
<1>1. ReliableInv => MirrorsMemory
  BY DEF ReliableInv, Sound, Ahead, MirrorsMemory
<1>2. QED BY <1>1, Reliable, PTL

-----------------------------------------------------------------------------
(* The refinement.                                                         *)

\* The file of the first start is a history the abstract stack may start on.
LEMMA ImplementsInit == Init => Durable!AbstractInit
<1> SUFFICES ASSUME Init PROVE Durable!AbstractInit
  OBVIOUS
<1>1. Restored(file) \in Seq(Entry) /\ Len(Restored(file)) <= Capacity
  BY ReliableInit, RestoredProperties DEF Init, ReliableInv, Sound, Bounded
<1>2. QED BY <1>1 DEF Init, Durable!AbstractInit

\* Only a rename changes what a restart would load: it is where a push or a
\* pop takes effect.
LEMMA ImplementsStep ==
  ReliableInv /\ [Next]_vars => [Durable!AbstractNext]_(Durable!abstractVars)
<1> SUFFICES ASSUME ReliableInv, [Next]_vars
             PROVE  [Durable!AbstractNext]_(Durable!abstractVars)
  OBVIOUS
<1> USE DEF history
<1>1. CASE Rename /\ ~failed
  <2>0. Bounded /\ Sound /\ Rename
    BY <1>1 DEF ReliableInv
  <2>1. /\ op # Idle
        /\ Restored(file)' = entries
        /\ given' = given \union (IF op.kind = "pop" THEN {op.entry} ELSE {})
        /\ op \in Mutation
        /\ promise = [hist |-> Restored(file), undone |-> given]
        /\ promise' = [hist |-> Restored(file)', undone |-> given']
    BY <1>1, <2>0, RenameRestores
    DEF Rename, Return, At, Sound, Promised, Bounded, TypeOK, Restored, Newest
  <2>2. TypeOK /\ Distinct(file.entries) /\ Ahead
    BY <2>0 DEF Sound, Bounded
  <2>3. CASE op.kind = "push"
    <3>1. /\ op.entry \notin Range(Restored(file)) \union given
          /\ Restored(file)' = Pushed(Restored(file), op.entry)
          /\ given' = given
          /\ op.entry \in Entry
      BY <2>1, <2>2, <2>3, RestoredProperties DEF Ahead, Mutation
    <3>2. Durable!Record(op.entry)
      BY <2>1, <3>1 DEF Durable!Record, Durable!Pushed, Pushed, Durable!Range, Range
    <3>3. QED BY <3>1, <3>2 DEF Durable!AbstractNext
  <2>4. CASE op.kind = "pop"
    <3>1. /\ Restored(file) # <<>>
          /\ Restored(file)' = Front(Restored(file))
          /\ given' = given \union {Last(Restored(file))}
      BY <2>1, <2>2, <2>4 DEF Ahead
    <3>2. QED BY <2>1, <3>1 DEF Durable!AbstractNext, Durable!TakeBack,
              Durable!Front, Durable!Last, Front, Last
  <2>5. QED BY <2>1, <2>3, <2>4 DEF Mutation
<1>2. CASE ~(Rename /\ ~failed)
  <2>1. promise' = promise
    BY <1>2 DEF Next, vars, Start, Push, Pop, OpenTmp, FillTmp, Rename, PersistFails, Crash
  <2>2. QED BY <2>1 DEF Durable!abstractVars
<1>3. QED BY <1>1, <1>2

\* Until the disk fails, the stack in memory with its file is an atomic,
\* bounded, crash-proof last-in-first-out history (undo.rs UndoStack).
THEOREM StackImplementsHistory ==
  Spec => ImplementsDurableStack
  BY ImplementsInit, ImplementsStep, Reliable, PTL
  DEF Spec, ImplementsDurableStack, Durable!AbstractSpec
=============================================================================
