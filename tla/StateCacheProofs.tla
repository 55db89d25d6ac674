-------------------------- MODULE StateCacheProofs --------------------------
(***************************************************************************)
(* How stale a hit of StateCache can be, for any number of clients, cells, *)
(* changes and ticks.  Recent is inductive: the entries a value does not   *)
(* show are no older than the value plus the query that fetched it, and    *)
(* those an answer under way does not show no older than its query.        *)
(***************************************************************************)
EXTENDS StateCache, TLAPS

Entry == [kind : Kinds, age : Nat]
Cached == [present : BOOLEAN, dirty : BOOLEAN, age : 0..MaxAge, asof : Nat, titles : Nat]
Query == [pc : {"asked", "answered"}, cell : Cell, asof : Nat, age : 0..QueryTime]

Typed ==
  /\ log \in Seq(Entry)
  /\ cell \in [Cell -> Cached]
  /\ req \in [Asker -> Query \union {Idle}]
  /\ pos \in Nat

CellsRecent ==
  \A c \in Cell, i \in 1..Len(log) :
    cell[c].present /\ cell[c].age < MaxAge /\ i > cell[c].asof
      => log[i].age <= cell[c].age + QueryTime

AnswersRecent ==
  \A r \in Asker, i \in 1..Len(log) :
    req[r] # Idle /\ req[r].pc = "answered" /\ i > req[r].asof
      => log[i].age <= req[r].age

Recent == Typed /\ CellsRecent /\ AnswersRecent

\* A query that has a pc other than "idle" is not the idle one.
LEMMA NotIdle ==
  ASSUME Typed, NEW r \in Asker, req[r].pc \in {"asked", "answered"}
  PROVE  req[r] \in Query /\ req[r] # Idle
BY DEF Typed, Idle, Query

\* The bounds of the model are natural numbers.
LEMMA Bounds == MaxAge \in Nat /\ QueryTime \in Nat /\ OldAge \in Nat
BY CacheAssumption DEF OldAge

\* An empty log has no entry that anything could miss.
LEMMA RecentInit == Init => Recent
<1> SUFFICES ASSUME Init PROVE Recent
  OBVIOUS
<1> USE Bounds
<1>1. log = <<>> /\ pos = 0
  BY DEF Init
<1>2. cell \in [Cell -> Cached]
  <2>1. Set(0) \in Cached
    BY DEF Set, Cached
  <2>2. [Set(0) EXCEPT !.present = FALSE, !.dirty = TRUE] \in Cached
    BY <2>1 DEF Cached
  <2>3. QED BY <2>2 DEF Init
<1>3. req \in [Asker -> Query \union {Idle}]
  BY DEF Init
<1>4. QED BY <1>1, <1>2, <1>3 DEF Recent, Typed, CellsRecent, AnswersRecent

\* A new entry has age 0 and is younger than anything.
LEMMA ChangeRecent ==
  ASSUME Recent, NEW k \in Kinds, Change(k)
  PROVE  Recent'
<1> USE Bounds DEF Recent
<1>1. log \in Seq(Entry) /\ Len(log) \in Nat
  BY DEF Typed
<1>2. [kind |-> k, age |-> 0] \in Entry
  BY DEF Entry
<1>3. /\ log' \in Seq(Entry)
      /\ Len(log') = Len(log) + 1
      /\ \A i \in 1..Len(log) : log'[i] = log[i]
      /\ log'[Len(log) + 1].age = 0
  BY <1>1, <1>2 DEF Change
<1>4. cell' = cell /\ req' = req /\ pos' = pos
  BY DEF Change
<1>5. Typed'
  BY <1>3, <1>4 DEF Typed
<1>6. CellsRecent'
  <2> SUFFICES ASSUME NEW c \in Cell, NEW i \in 1..Len(log'),
                      cell[c].present, cell[c].age < MaxAge, i > cell[c].asof
               PROVE  log'[i].age <= cell[c].age + QueryTime
    BY <1>4 DEF CellsRecent
  <2>1. cell[c].age \in Nat
    BY DEF Typed, Cached
  <2>2. CASE i = Len(log) + 1 BY <1>3, <2>1, <2>2
  <2>3. CASE i \in 1..Len(log) BY <1>3, <2>3 DEF CellsRecent
  <2>4. QED BY <1>1, <1>3, <2>2, <2>3
<1>7. AnswersRecent'
  <2> SUFFICES ASSUME NEW r \in Asker, NEW i \in 1..Len(log'),
                      req[r] # Idle, req[r].pc = "answered", i > req[r].asof
               PROVE  log'[i].age <= req[r].age
    BY <1>4 DEF AnswersRecent
  <2>1. req[r].age \in Nat
    BY DEF Typed, Query
  <2>2. CASE i = Len(log) + 1 BY <1>3, <2>1, <2>2
  <2>3. CASE i \in 1..Len(log) BY <1>3, <2>3 DEF AnswersRecent
  <2>4. QED BY <1>1, <1>3, <2>2, <2>3
<1>8. QED BY <1>5, <1>6, <1>7

\* A tick makes entries, values and queries older by one alike.
LEMMA TickRecent ==
  ASSUME Recent, Tick
  PROVE  Recent'
<1> USE Bounds DEF Recent
<1>1. log \in Seq(Entry) /\ Len(log) \in Nat
  BY DEF Typed
<1>2. \A i \in 1..Len(log) : log[i] \in Entry
  BY <1>1
<1>3. /\ log' \in Seq(Entry)
      /\ Len(log') = Len(log)
      /\ \A i \in 1..Len(log) : log'[i].age <= log[i].age + 1
  <2> DEFINE older(i) == [log[i] EXCEPT !.age = Older(@, OldAge)]
  <2>1. log' = [i \in 1..Len(log) |-> older(i)]
    BY DEF Tick
  <2>2. \A i \in 1..Len(log) : older(i) \in Entry /\ older(i).age <= log[i].age + 1
    <3> SUFFICES ASSUME NEW i \in 1..Len(log)
                 PROVE  older(i) \in Entry /\ older(i).age <= log[i].age + 1
      OBVIOUS
    <3>1. log[i] \in Entry /\ log[i].age \in Nat
      BY <1>2 DEF Entry
    <3>2. Older(log[i].age, OldAge) \in Nat /\ Older(log[i].age, OldAge) <= log[i].age + 1
      BY <3>1 DEF Older
    <3>3. QED BY <3>1, <3>2 DEF Entry
  <2> HIDE DEF older
  <2>3. log' \in Seq(Entry) /\ Len(log') = Len(log)
    BY <1>1, <2>1, <2>2
  <2>4. QED BY <1>1, <2>1, <2>2, <2>3
<1>4. /\ cell' \in [Cell -> Cached]
      /\ \A c \in Cell : /\ cell'[c].present = cell[c].present
                         /\ cell'[c].asof = cell[c].asof
                         /\ cell'[c].age < MaxAge => /\ cell[c].age < MaxAge
                                                     /\ cell'[c].age = cell[c].age + 1
  <2> DEFINE older(c) == [cell[c] EXCEPT !.age = Older(@, MaxAge)]
  <2>1. cell' = [c \in Cell |-> older(c)]
    BY DEF Tick
  <2>2. ASSUME NEW c \in Cell
        PROVE  /\ older(c) \in Cached
               /\ older(c).present = cell[c].present /\ older(c).asof = cell[c].asof
               /\ older(c).age < MaxAge => cell[c].age < MaxAge /\ older(c).age = cell[c].age + 1
    <3>1. cell[c] \in Cached /\ cell[c].age \in 0..MaxAge
      BY DEF Typed, Cached
    <3>2. /\ Older(cell[c].age, MaxAge) \in 0..MaxAge
          /\ Older(cell[c].age, MaxAge) < MaxAge
               => cell[c].age < MaxAge /\ Older(cell[c].age, MaxAge) = cell[c].age + 1
      BY <3>1 DEF Older
    <3>3. QED BY <3>1, <3>2 DEF Cached
  <2> HIDE DEF older
  <2>3. QED BY <2>1, <2>2
<1>5. /\ req' \in [Asker -> Query \union {Idle}]
      /\ \A r \in Asker : req'[r] # Idle => /\ req[r] # Idle
                                            /\ req'[r].pc = req[r].pc
                                            /\ req'[r].asof = req[r].asof
                                            /\ req'[r].age = req[r].age + 1
  <2>1. \A r \in Asker : req[r] # Idle =>
           /\ req[r] \in Query /\ req[r].age < QueryTime
    BY DEF Typed, Tick
  <2>2. \A r \in Asker : req[r] # Idle => [req[r] EXCEPT !.age = @ + 1] \in Query
    BY <2>1 DEF Query
  <2>3. QED BY <2>1, <2>2 DEF Tick, Query
<1>6. Typed'
  BY <1>3, <1>4, <1>5 DEF Typed, Tick
<1>7. CellsRecent'
  <2> SUFFICES ASSUME NEW c \in Cell, NEW i \in 1..Len(log'),
                      cell'[c].present, cell'[c].age < MaxAge, i > cell'[c].asof
               PROVE  log'[i].age <= cell'[c].age + QueryTime
    BY DEF CellsRecent
  <2>1. log[i].age <= cell[c].age + QueryTime
    BY <1>3, <1>4 DEF CellsRecent
  <2>2. log[i].age \in Nat /\ cell[c].age \in Nat /\ log'[i].age \in Nat
    <3>1. log[i] \in Entry /\ log'[i] \in Entry /\ cell[c] \in Cached
      BY <1>2, <1>3 DEF Typed
    <3>2. QED BY <3>1 DEF Entry, Cached
  <2>3. cell'[c].age = cell[c].age + 1 /\ log'[i].age <= log[i].age + 1
    BY <1>3, <1>4
  <2> DEFINE now == log'[i].age
             was == log[i].age
             older == cell'[c].age
             old == cell[c].age
  <2>4. now \in Nat /\ was \in Nat /\ old \in Nat /\ QueryTime \in Nat
    BY <2>2
  <2>5. was <= old + QueryTime /\ older = old + 1 /\ now <= was + 1
    BY <2>1, <2>3
  <2>6. now <= older + QueryTime
    <3> HIDE DEF now, was, older, old
    <3>1. QED BY <2>4, <2>5
  <2>7. QED BY <2>6
<1>8. AnswersRecent'
  <2> SUFFICES ASSUME NEW r \in Asker, NEW i \in 1..Len(log'),
                      req'[r] # Idle, req'[r].pc = "answered", i > req'[r].asof
               PROVE  log'[i].age <= req'[r].age
    BY DEF AnswersRecent
  <2>1. log[i].age <= req[r].age
    BY <1>3, <1>5 DEF AnswersRecent
  <2>2. log[i].age \in Nat /\ req[r].age \in Nat /\ log'[i].age \in Nat
    <3>1. log[i] \in Entry /\ log'[i] \in Entry /\ req[r] \in Query
      BY <1>2, <1>3, <1>5 DEF Typed
    <3>2. QED BY <3>1 DEF Entry, Query
  <2>3. QED BY <1>3, <1>5, <2>1, <2>2
<1>9. QED BY <1>6, <1>7, <1>8

\* Asking, getting an answer and giving up leave log and cells alone; an
\* answer misses no entry there is.
LEMMA QueryRecent ==
  ASSUME Recent, NEW r \in Asker,
         Fail(r) \/ Answer(r) \/ \E c \in Cell : Ask(r, c)
  PROVE  Recent'
<1> USE Bounds DEF Recent
<1>1. log' = log /\ cell' = cell /\ pos' = pos
  BY DEF Fail, Answer, Ask
<1>2. /\ req' \in [Asker -> Query \union {Idle}]
      /\ \A s \in Asker : \/ req'[s] = req[s]
                          \/ req'[s] = Idle
                          \/ req'[s].pc # "answered"
                          \/ req'[s].asof = Len(log)
  <2>1. CASE Fail(r)
    BY <2>1 DEF Fail, Typed
  <2>2. CASE Answer(r)
    <3>1. req[r] \in Query /\ Len(log) \in Nat
      BY <2>2, NotIdle DEF Answer, Typed
    <3>2. /\ [req[r] EXCEPT !.pc = "answered", !.asof = Len(log)] \in Query
          /\ [req[r] EXCEPT !.pc = "answered", !.asof = Len(log)].asof = Len(log)
      BY <3>1 DEF Query
    <3>3. req' = [req EXCEPT ![r] = [req[r] EXCEPT !.pc = "answered", !.asof = Len(log)]]
      BY <2>2 DEF Answer, Typed
    <3>4. QED BY <3>2, <3>3 DEF Typed
  <2>3. CASE \E c \in Cell : Ask(r, c)
    BY <2>3 DEF Ask, Query, Typed
  <2>4. QED BY <2>1, <2>2, <2>3
<1>3. Typed' /\ CellsRecent'
  BY <1>1, <1>2 DEF Typed, CellsRecent
<1>4. AnswersRecent'
  BY <1>1, <1>2 DEF AnswersRecent, Typed
<1>5. QED BY <1>3, <1>4

\* A write puts a value of age 0 that is as recent as its query.
LEMMA WriteRecent ==
  ASSUME Recent, NEW r \in Asker, Write(r)
  PROVE  Recent'
<1> USE Bounds DEF Recent
<1>1. req[r] \in Query /\ req[r] # Idle /\ req[r].pc = "answered"
  BY NotIdle DEF Write
<1>2. log' = log /\ pos' = pos
  BY DEF Write
<1>3. /\ req' \in [Asker -> Query \union {Idle}]
      /\ \A s \in Asker : req'[s] # Idle => req'[s] = req[s]
  BY DEF Write, Typed
<1>4. /\ cell' \in [Cell -> Cached]
      /\ \A c \in Cell : \/ cell'[c] = cell[c]
                         \/ cell'[c].asof = req[r].asof /\ cell'[c].age = 0
  <2>1. Set(req[r].asof) \in Cached
    BY <1>1 DEF Set, Cached, Query
  <2>2. Set(req[r].asof).asof = req[r].asof /\ Set(req[r].asof).age = 0
    BY DEF Set
  <2>3. QED BY <2>1, <2>2 DEF Write, Typed
<1>5. Typed'
  BY <1>2, <1>3, <1>4 DEF Typed
<1>6. CellsRecent'
  <2> SUFFICES ASSUME NEW c \in Cell, NEW i \in 1..Len(log),
                      cell'[c].present, cell'[c].age < MaxAge, i > cell'[c].asof
               PROVE  log[i].age <= cell'[c].age + QueryTime
    BY <1>2 DEF CellsRecent
  <2>1. CASE cell'[c] = cell[c]
    BY <2>1 DEF CellsRecent
  <2>2. CASE cell'[c].asof = req[r].asof /\ cell'[c].age = 0
    <3>1. log[i].age <= req[r].age
      BY <1>1, <2>2 DEF AnswersRecent
    <3>2. log[i] \in Entry
      BY DEF Typed
    <3>3. log[i].age \in Nat /\ req[r].age \in 0..QueryTime
      BY <1>1, <3>2 DEF Entry, Query
    <3>4. QED BY <2>2, <3>1, <3>3
  <2>3. QED BY <1>4, <2>1, <2>2
<1>7. AnswersRecent'
  BY <1>2, <1>3 DEF AnswersRecent
<1>8. QED BY <1>5, <1>6, <1>7

\* The cache task never makes a value younger or newer: it marks it dirty,
\* patches a title, or goes on with its life.
LEMMA TaskRecent ==
  ASSUME Recent, SeedHit \/ Connect \/ Apply \/ StreamEnds
  PROVE  Recent'
<1> USE Bounds DEF Recent
<1>1. log' = log /\ req' = req
  BY DEF SeedHit, Connect, Apply, StreamEnds
<1>2. pos' \in Nat
  <2>1. pos \in Nat /\ Len(log) \in Nat
    BY DEF Typed
  <2>2. pos' = pos \/ pos' = Len(log) \/ pos' = pos + 1
    BY DEF SeedHit, Connect, Apply, StreamEnds
  <2>3. QED BY <2>1, <2>2
<1>3. /\ cell' \in [Cell -> Cached]
      /\ \A c \in Cell : /\ cell'[c].present = cell[c].present
                         /\ cell'[c].asof = cell[c].asof
                         /\ cell'[c].age = cell[c].age
  <2>1. CASE SeedHit \/ Connect \/ StreamEnds
    <3>1. cell' = cell
      BY <2>1 DEF SeedHit, Connect, StreamEnds
    <3>2. QED BY <3>1 DEF Typed
  <2>2. CASE Apply
    <3> DEFINE kind == log[pos'].kind
               dirty(c) == cell[c].dirty \/ c \in Invalidates[kind]
               titles(c) == IF kind = "title" /\ c = "clients" THEN pos' ELSE cell[c].titles
               applied(c) == [cell[c] EXCEPT !.dirty = dirty(c), !.titles = titles(c)]
    <3>1. cell' = [c \in Cell |-> applied(c)]
      BY <2>2 DEF Apply
    <3>2. ASSUME NEW c \in Cell
          PROVE  /\ applied(c) \in Cached
                 /\ applied(c).present = cell[c].present
                 /\ applied(c).asof = cell[c].asof
                 /\ applied(c).age = cell[c].age
      <4>1. cell[c] \in Cached
        BY DEF Typed
      <4>2. titles(c) \in Nat
        BY <1>2, <4>1 DEF Cached
      <4>3. dirty(c) \in BOOLEAN
        BY <4>1 DEF Cached
      <4> HIDE DEF titles, dirty
      <4>4. QED BY <4>1, <4>2, <4>3 DEF Cached
    <3> HIDE DEF applied
    <3>3. QED BY <3>1, <3>2
  <2>3. QED BY <2>1, <2>2
<1>4. Typed' /\ CellsRecent' /\ AnswersRecent'
  BY <1>1, <1>2, <1>3 DEF Typed, CellsRecent, AnswersRecent
<1>5. QED BY <1>4

\* Recent is inductive.
LEMMA RecentInductive == Recent /\ [Next]_vars => Recent'
<1> SUFFICES ASSUME Recent, [Next]_vars PROVE Recent'
  OBVIOUS
<1>1. CASE \E k \in Kinds : Change(k)
  BY <1>1, ChangeRecent
<1>2. CASE Tick
  BY <1>2, TickRecent
<1>3. CASE \E r \in Asker, c \in Cell : Ask(r, c)
  BY <1>3, QueryRecent
<1>4. CASE \E r \in Asker : Answer(r) \/ Write(r) \/ Fail(r)
  BY <1>4, QueryRecent, WriteRecent
<1>5. CASE SeedHit \/ Connect \/ Apply \/ StreamEnds
  BY <1>5, TaskRecent
<1>6. CASE UNCHANGED vars
  BY <1>6 DEF vars, Recent, Typed, CellsRecent, AnswersRecent
<1>7. QED BY <1>1, <1>2, <1>3, <1>4, <1>5, <1>6 DEF Next

\* What a hit can miss follows from Recent: it is younger than MAX_AGE.
LEMMA RecentHits == Recent => HitsAreRecent
<1> SUFFICES ASSUME Recent, NEW c \in Cell, Usable(c), NEW i \in 1..Len(log),
                    i > cell[c].asof
             PROVE  log[i].age < MaxAge + QueryTime
  BY DEF HitsAreRecent
<1>1. log[i] \in Entry /\ cell[c] \in Cached
  BY DEF Recent, Typed
<1>2. log[i].age \in Nat /\ cell[c].age \in 0..MaxAge
  BY <1>1 DEF Entry, Cached
<1>3. cell[c].age < MaxAge /\ log[i].age <= cell[c].age + QueryTime
  BY DEF Recent, CellsRecent, Usable
<1>4. QED BY <1>2, <1>3, Bounds

\* A hit of the cache is a listing that was true of Hyprland less than MAX_AGE
\* and one query timeout ago, whatever events were lost (Cached::get).
THEOREM HitsStayRecent == Spec => []HitsAreRecent
<1>1. QED BY RecentInit, RecentInductive, RecentHits, PTL DEF Spec

-----------------------------------------------------------------------------
(* What escapes the dirty flags.                                           *)

\* SilentlyStale(c), of the value v of the cell c when the log is l and its
\* first p entries have been delivered.
Overlooks(v, c, i, kind) ==
    /\ c \in Touches[kind] /\ kind # "unrecognised"
    /\ i > IF kind \in {"title", "titleOld"} THEN v.titles ELSE v.asof

Stale(l, v, p, c) ==
    /\ v.present /\ ~v.dirty /\ v.age < MaxAge
    /\ \E i \in 1..Len(l) : i <= p /\ Overlooks(v, c, i, l[i].kind)

Delivered == pos <= Len(log)

\* The two say the same, now and after a step.
LEMMA StaleMeans ==
  ASSUME NEW c \in Cell
  PROVE  /\ SilentlyStale(c) <=> Stale(log, cell[c], pos, c)
         /\ SilentlyStale(c)' <=> Stale(log', cell'[c], pos', c)
<1>1. SilentlyStale(c) <=> Stale(log, cell[c], pos, c)
  BY DEF SilentlyStale, Usable, Missed, IsTitle, Stale, Overlooks
<1>2. SilentlyStale(c)' <=> Stale(log', cell'[c], pos', c)
  BY DEF SilentlyStale, Usable, Missed, IsTitle, Stale, Overlooks
<1>3. QED BY <1>1, <1>2

\* The stream delivers what has happened.
LEMMA DeliveredStep ==
  ASSUME Recent, Recent', Delivered, [Next]_vars
  PROVE  Delivered'
<1>1. pos \in Nat /\ pos' \in Nat /\ Len(log) \in Nat /\ Len(log') \in Nat /\ pos <= Len(log)
  BY DEF Recent, Typed, Delivered
<1>2. CASE \E k \in Kinds : Change(k)
  <2>1. Len(log') = Len(log) + 1 /\ pos' = pos
    BY <1>2 DEF Change, Recent, Typed
  <2>2. QED BY <1>1, <2>1 DEF Delivered
<1>3. CASE Tick
  <2>1. Len(log') = Len(log) /\ pos' = pos
    BY <1>1, <1>3 DEF Tick
  <2>2. QED BY <1>1, <2>1 DEF Delivered
<1>4. CASE Apply
  <2>1. pos' = pos + 1 /\ pos < Len(log) /\ log' = log
    BY <1>4 DEF Apply
  <2>2. QED BY <1>1, <2>1 DEF Delivered
<1>5. CASE log' = log /\ (pos' = pos \/ pos' = Len(log))
  BY <1>1, <1>5 DEF Delivered
<1>6. QED BY <1>2, <1>3, <1>4, <1>5
          DEF Next, vars, Ask, Answer, Write, Fail, SeedHit, Connect, StreamEnds

\* A value that is left as it is, or grows older, overlooks nothing new.
LEMMA GrowsNoStaler ==
  ASSUME NEW c \in Cell, NEW l, NEW m, NEW v, NEW w, NEW p,
         v.present = w.present, v.dirty = w.dirty, v.asof = w.asof, v.titles = w.titles,
         w.age < MaxAge => v.age < MaxAge,
         \A i \in 1..Len(m) : i <= p => i \in 1..Len(l) /\ m[i].kind = l[i].kind,
         Stale(m, w, p, c)
  PROVE  Stale(l, v, p, c)
BY DEF Stale, Overlooks

\* Time passes and Hyprland goes on: no delivered entry is forgotten.
LEMMA WorldStale ==
  ASSUME Recent, Delivered, NEW c \in Cell, Tick \/ \E k \in Kinds : Change(k),
         Stale(log', cell'[c], pos', c)
  PROVE  Stale(log, cell[c], pos, c)
<1>1. log \in Seq(Entry) /\ Len(log) \in Nat /\ pos \in Nat /\ pos <= Len(log)
      /\ cell[c] \in Cached /\ cell[c].age \in 0..MaxAge
  BY DEF Recent, Typed, Delivered, Cached
<1>2. CASE Tick
  <2>1. /\ pos' = pos /\ Len(log') = Len(log)
        /\ \A i \in 1..Len(log) : log'[i].kind = log[i].kind
    <3> DEFINE older(i) == [log[i] EXCEPT !.age = Older(@, OldAge)]
    <3>1. pos' = pos /\ log' = [i \in 1..Len(log) |-> older(i)]
      BY <1>2 DEF Tick
    <3>2. \A i \in 1..Len(log) : log[i] \in Entry
      BY <1>1
    <3>3. \A i \in 1..Len(log) : older(i).kind = log[i].kind
      BY <3>2 DEF Entry
    <3> HIDE DEF older
    <3>4. Len(log') = Len(log)
      BY <1>1, <3>1
    <3>5. QED BY <1>1, <3>1, <3>3, <3>4
  <2>2. /\ cell'[c].present = cell[c].present /\ cell'[c].dirty = cell[c].dirty
        /\ cell'[c].asof = cell[c].asof /\ cell'[c].titles = cell[c].titles
        /\ cell'[c].age = Older(cell[c].age, MaxAge)
    BY <1>1, <1>2 DEF Tick, Cached
  <2>3. cell'[c].age < MaxAge => cell[c].age < MaxAge
    BY <1>1, <2>2, Bounds DEF Older
  <2>4. QED BY <1>1, <2>1, <2>2, <2>3, GrowsNoStaler
<1>3. CASE \E k \in Kinds : Change(k)
  <2>1. PICK k \in Kinds : Change(k)
    BY <1>3
  <2>2. /\ pos' = pos /\ cell' = cell /\ Len(log') = Len(log) + 1
        /\ \A i \in 1..Len(log) : log'[i] = log[i]
    BY <1>1, <2>1 DEF Change
  <2>3. \A i \in 1..Len(log') : i <= pos => i \in 1..Len(log) /\ log'[i].kind = log[i].kind
    BY <1>1, <2>2
  <2>4. QED BY <2>2, <2>3, GrowsNoStaler
<1>4. QED BY <1>2, <1>3

\* What an event announces is marked dirty, or patched in.
LEMMA ApplyStale ==
  ASSUME Recent, NEW c \in Cell, Apply, Stale(log', cell'[c], pos', c)
  PROVE  Stale(log, cell[c], pos, c)
<1> DEFINE kind == log[pos'].kind
           dirty == cell[c].dirty \/ c \in Invalidates[kind]
           titles == IF kind = "title" /\ c = "clients" THEN pos' ELSE cell[c].titles
<1>1. log \in Seq(Entry) /\ pos \in Nat /\ cell[c] \in Cached
  BY DEF Recent, Typed
<1>2. /\ log' = log /\ pos' = pos + 1 /\ pos < Len(log)
      /\ cell'[c] = [cell[c] EXCEPT !.dirty = dirty, !.titles = titles]
  BY DEF Apply
<1>3. pos' \in 1..Len(log) /\ kind \in DOMAIN Touches
  <2>1. pos' \in 1..Len(log)
    BY <1>1, <1>2
  <2>2. log[pos'] \in Entry
    BY <1>1, <2>1
  <2>3. QED BY <2>1, <2>2, CacheAssumption DEF Entry
<1> HIDE DEF dirty, titles, kind
<1>4. /\ cell'[c].present = cell[c].present /\ cell'[c].age = cell[c].age
      /\ cell'[c].asof = cell[c].asof /\ cell'[c].dirty = dirty /\ cell'[c].titles = titles
  BY <1>1, <1>2 DEF Cached
<1>5. PICK i \in 1..Len(log) : i <= pos' /\ Overlooks(cell'[c], c, i, log[i].kind)
  BY <1>2 DEF Stale
<1>6. cell[c].present /\ ~dirty /\ cell[c].age < MaxAge
  BY <1>4 DEF Stale
<1>7. ~cell[c].dirty /\ c \notin Invalidates[kind]
  BY <1>6 DEF dirty
<1>8. CASE kind = "title" /\ c = "clients" /\ log[i].kind = "title"
  <2>1. i > pos' /\ i <= pos'
    BY <1>4, <1>5, <1>8 DEF Overlooks, titles
  <2>2. i \in Nat /\ pos' \in Nat
    BY <1>1, <1>2
  <2>3. QED BY <2>1, <2>2
<1>9. CASE i = pos'
  <2>1. c \in Touches[kind] /\ kind # "unrecognised"
    BY <1>5, <1>9 DEF Overlooks, kind
  <2>2. kind # "title" => Touches[kind] = Invalidates[kind]
    BY <1>3, <2>1 DEF Touches, Invalidates
  <2>3. Touches["title"] = {"clients"}
    BY DEF Touches, Invalidates
  <2>4. kind = "title" /\ c = "clients"
    BY <1>7, <2>1, <2>2, <2>3
  <2>5. QED BY <1>8, <1>9, <2>4 DEF kind
<1>10. CASE i # pos' /\ ~(kind = "title" /\ c = "clients" /\ log[i].kind = "title")
  <2>1. i <= pos
    BY <1>1, <1>2, <1>5, <1>10
  <2>2. CASE titles = cell[c].titles
    BY <1>4, <1>5, <1>6, <1>7, <2>1, <2>2 DEF Stale, Overlooks
  <2>3. CASE kind = "title" /\ c = "clients"
    <3>1. CASE log[i].kind = "titleOld"
      BY <1>1, <1>2, <1>4, <1>5, <2>1, <2>3, <3>1 DEF Overlooks, titles
    <3>2. CASE log[i].kind \notin {"title", "titleOld"}
      BY <1>4, <1>5, <1>6, <1>7, <2>1, <3>2 DEF Stale, Overlooks
    <3>3. QED BY <1>10, <2>3, <3>1, <3>2
  <2>4. QED BY <2>2, <2>3 DEF titles
<1>11. QED BY <1>8, <1>9, <1>10

\* An answer that overlooks a delivered entry was overtaken by its event.
LEMMA WriteStale ==
  ASSUME Recent, NEW c \in Cell, NEW r \in Asker, Write(r), Stale(log', cell'[c], pos', c)
  PROVE  \/ Stale(log, cell[c], pos, c)
         \/ req[r] # Idle /\ req'[r] = Idle /\ req[r].cell = c /\ req[r].asof < pos
<1>1. /\ req[r] \in Query /\ req[r] # Idle /\ log' = log /\ pos' = pos
      /\ pos \in Nat /\ cell \in [Cell -> Cached] /\ req \in [Asker -> Query \union {Idle}]
  BY NotIdle DEF Write, Recent, Typed
<1>2. cell' = [cell EXCEPT ![req[r].cell] = Set(req[r].asof)] /\ req'[r] = Idle
  BY <1>1 DEF Write
<1>3. CASE c # req[r].cell
  BY <1>1, <1>2, <1>3
<1>4. CASE c = req[r].cell
  <2>1. cell'[c].asof = req[r].asof /\ cell'[c].titles = req[r].asof /\ req[r].asof \in Nat
    BY <1>1, <1>2, <1>4 DEF Set, Query
  <2>2. PICK i \in 1..Len(log) : i <= pos /\ i > req[r].asof
    BY <1>1, <2>1 DEF Stale, Overlooks
  <2>3. req[r].asof < pos
    BY <1>1, <2>1, <2>2
  <2>4. QED BY <1>1, <1>2, <1>4, <2>3
<1>5. QED BY <1>3, <1>4

\* A recognised change escapes a cell in two ways only, however events, reads
\* of any number of clients and the seed interleave (cache.rs write and run).
THEOREM OnlyTwoRacesEscape == Spec => OnlyRacesEscape
<1> DEFINE Safe == Recent /\ Delivered
           Escapes(c) ==
               ~SilentlyStale(c) /\ SilentlyStale(c)' =>
                   \/ stage = "connect"
                   \/ \E r \in Asker : /\ req[r] # Idle /\ req'[r] = Idle
                                       /\ req[r].cell = c /\ req[r].asof < pos
<1>1. Init => Safe
  <2>1. Init => Delivered
    BY DEF Init, Delivered
  <2>2. QED BY <2>1, RecentInit
<1>2. Safe /\ [Next]_vars => Safe'
  BY RecentInductive, DeliveredStep
<1>3. Safe /\ [Next]_vars => [\A c \in Cell : Escapes(c)]_vars
  <2> SUFFICES ASSUME Recent, Delivered, Next, NEW c \in Cell,
                      ~Stale(log, cell[c], pos, c), Stale(log', cell'[c], pos', c)
               PROVE  \/ stage = "connect"
                      \/ \E r \in Asker : /\ req[r] # Idle /\ req'[r] = Idle
                                          /\ req[r].cell = c /\ req[r].asof < pos
    BY StaleMeans
  <2>1. CASE Tick \/ \E k \in Kinds : Change(k)
    BY <2>1, WorldStale
  <2>2. CASE Apply
    BY <2>2, ApplyStale
  <2>3. CASE \E r \in Asker : Write(r)
    BY <2>3, WriteStale
  <2>4. CASE Connect
    BY <2>4 DEF Connect
  <2>5. CASE UNCHANGED <<log, cell, pos>>
    BY <2>5
  <2>6. QED BY <2>1, <2>2, <2>3, <2>4, <2>5 DEF Next, Ask, Answer, Fail, SeedHit, StreamEnds
<1>4. QED BY <1>1, <1>2, <1>3, PTL DEF Spec, OnlyRacesEscape
=============================================================================
