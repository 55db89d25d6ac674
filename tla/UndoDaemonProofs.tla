--------------------------- MODULE UndoDaemonProofs ---------------------------
(***************************************************************************)
(* Proofs about UndoDaemon, for any number of clients, windows and         *)
(* requests and whatever times out, crashes or is done by the user.        *)
(***************************************************************************)
EXTENDS UndoDaemon, SequenceTheorems, TLAPS

Place == {"idle", "query", "dispatch", "record", "pop", "refocus", "moveback", "spawn"}
Seen == [win : Window, ws : Workspace] \union {None}
Handlers ==
    [pc : Place, job : Job \union {None}, seen : Seen, effect : Effect \union {None},
     held : UndoEntry \union {None}]

\* The types of what the handlers, the stack and the desktop hold ...
Typed ==
    /\ scenario \in Scenarios
    /\ Desktop!DesktopTypeOK
    /\ stack \in Seq(UndoEntry) /\ taken \subseteq UndoEntry
    /\ req \in [Client -> Handlers]
    /\ \A c \in Client : req[c].job \in scenario.jobs \union {None}
    /\ clock \in Nat
    /\ left \in [{"request", "user", "crash"} -> Nat]

\* ... and what a handler knows by the place it is at.
Informed(r) ==
    /\ r.pc \in {"query", "dispatch", "record"} => r.job \in Job
    /\ r.pc = "record" => r.effect \in Effect
    /\ r.pc \in {"refocus", "moveback", "spawn"} => r.held \in UndoEntry

Knows == \A c \in Client : Informed(req[c])

\* An effect is older than the clock, and it is remembered in one place only:
\* on the stack, among the entries taken back, or by the handler that is about
\* to record it.
OnStack(at) == \E i \in 1..Len(stack) : stack[i].did.at = at
Taken(at) == \E e \in taken : e.did.at = at

Apart ==
    /\ \A i \in 1..Len(stack) : stack[i].did.at < clock /\ ~Taken(stack[i].did.at)
    /\ \A i, j \in 1..Len(stack) : stack[i].did.at = stack[j].did.at => i = j
    /\ \A e \in taken : e.did.at < clock

Fresh ==
    \A c \in Client : req[c].pc = "record" =>
        /\ req[c].effect.at < clock
        /\ ~OnStack(req[c].effect.at) /\ ~Taken(req[c].effect.at)
        /\ \A d \in Client : req[d].pc = "record" /\ req[d].effect.at = req[c].effect.at => d = c

UndoInv == Typed /\ Knows /\ Apart /\ Fresh

-----------------------------------------------------------------------------
\* What the inverse of a recorded operation holds.
LEMMA InverseTyped ==
  ASSUME Typed, Knows, NEW c \in Client, req[c].pc = "record", req[c].seen # None
  PROVE  InverseAction(c) \in UndoEntry /\ InverseAction(c).did = req[c].effect
<1>1. req[c].effect \in Effect /\ req[c].seen \in [win : Window, ws : Workspace]
  BY DEF Typed, Knows, Informed, Handlers, Seen
<1>2. QED BY <1>1 DEF InverseAction, UndoEntry

\* Recording puts the entry on top, and may push out the one at the bottom.
LEMMA StackRecords ==
  ASSUME Typed, NEW e \in UndoEntry, Stack!Record(e)
  PROVE  /\ stack' \in Seq(UndoEntry) /\ taken' = taken
         /\ \E out \in {0, 1} :
               /\ Len(stack') = Len(stack) - out + 1
               /\ stack'[Len(stack')] = e
               /\ \A i \in 1..(Len(stack') - 1) :
                     i + out \in 1..Len(stack) /\ stack'[i] = stack[i + out]
<1> DEFINE s == IF Len(stack) = Capacity THEN Tail(stack) ELSE stack
<1>1. stack' = Append(s, e) /\ taken' = taken
  BY DEF Stack!Record, Stack!Pushed
<1>2. Len(stack) \in Nat /\ Capacity \in Nat \ {0} /\ stack \in Seq(UndoEntry)
  BY LenProperties, UndoDaemonAssumption DEF Typed
<1>3. /\ s \in Seq(UndoEntry) /\ Len(s) \in Nat
      /\ \E out \in {0, 1} :
            /\ Len(s) = Len(stack) - out
            /\ \A i \in 1..Len(s) : i + out \in 1..Len(stack) /\ s[i] = stack[i + out]
  <2>1. CASE Len(stack) = Capacity
    <3>1. stack # <<>>
      BY <1>2, <2>1, EmptySeq
    <3>2. /\ Tail(stack) \in Seq(UndoEntry) /\ Len(Tail(stack)) = Len(stack) - 1
          /\ \A i \in 1..Len(Tail(stack)) : Tail(stack)[i] = stack[i + 1]
      BY <1>2, <3>1, HeadTailProperties
    <3>3. \A i \in 1..Len(Tail(stack)) : i + 1 \in 1..Len(stack)
      BY <1>2, <3>2
    <3>4. QED BY <1>2, <2>1, <3>2, <3>3
  <2>2. CASE Len(stack) # Capacity
    <3>1. /\ Len(s) = Len(stack) - 0
          /\ \A i \in 1..Len(s) : i + 0 \in 1..Len(stack) /\ s[i] = stack[i + 0]
      BY <1>2, <2>2
    <3>2. QED BY <1>2, <2>2, <3>1
  <2>3. QED BY <2>1, <2>2
<1> HIDE DEF s
<1>4. /\ stack' \in Seq(UndoEntry) /\ Len(stack') = Len(s) + 1
      /\ stack'[Len(s) + 1] = e /\ \A i \in 1..Len(s) : stack'[i] = s[i]
  BY <1>1, <1>3, AppendProperties
<1>5. PICK out \in {0, 1} :
            /\ Len(s) = Len(stack) - out
            /\ \A i \in 1..Len(s) : i + out \in 1..Len(stack) /\ s[i] = stack[i + out]
  BY <1>3
<1>6. QED BY <1>1, <1>2, <1>3, <1>4, <1>5

\* Taking back takes the entry on top.
LEMMA StackTakesBack ==
  ASSUME Typed, Stack!TakeBack
  PROVE  /\ stack' \in Seq(UndoEntry)
         /\ Len(stack) \in Nat \ {0} /\ Len(stack') = Len(stack) - 1
         /\ \A i \in 1..Len(stack') : stack'[i] = stack[i]
         /\ Last(stack) = stack[Len(stack)] /\ Last(stack) \in UndoEntry
         /\ taken' = taken \union {Last(stack)}
<1>1. /\ stack # <<>> /\ stack' = Front(stack) /\ taken' = taken \union {Last(stack)}
      /\ stack \in Seq(UndoEntry)
  BY DEF Typed, Stack!TakeBack, Stack!Front, Stack!Last, Front, Last
<1>2. Len(stack) \in Nat \ {0}
  BY <1>1, LenProperties, EmptySeq
<1> DEFINE n == Len(stack) - 1
<1>3. n \in Nat /\ \A i \in 1..n : stack[i] \in UndoEntry
  BY <1>1, <1>2, ElementOfSeq
<1>4. /\ SubSeq(stack, 1, n) \in Seq(UndoEntry) /\ Len(SubSeq(stack, 1, n)) = n
      /\ \A i \in 1..n : SubSeq(stack, 1, n)[i] = stack[i]
  <2> HIDE DEF n
  <2>1. /\ SubSeq(stack, 1, n) \in Seq(UndoEntry)
        /\ Len(SubSeq(stack, 1, n)) = IF 1 <= n THEN n - 1 + 1 ELSE 0
        /\ \A i \in 1..n - 1 + 1 : SubSeq(stack, 1, n)[i] = stack[1 + i - 1]
    BY <1>3, SubSeqProperties
  <2>2. n - 1 + 1 = n /\ \A i \in 1..n : 1 + i - 1 = i
    BY <1>3
  <2>3. Len(SubSeq(stack, 1, n)) = n /\ \A i \in 1..n : SubSeq(stack, 1, n)[i] = stack[i]
    BY <1>3, <2>1, <2>2
  <2>4. QED BY <2>1, <2>3
<1>5. Last(stack) = stack[Len(stack)] /\ Front(stack) = SubSeq(stack, 1, n)
  BY DEF Last, Front
<1>6. stack[Len(stack)] \in UndoEntry
  BY <1>1, <1>2, ElementOfSeq
<1>7. QED BY <1>1, <1>2, <1>4, <1>5, <1>6

-----------------------------------------------------------------------------
(* The desktop.                                                            *)

\* Focusing a window that is open.
LEMMA FocusTyped ==
  ASSUME Typed, NEW w, Desktop!FocusWindow(w)
  PROVE  Desktop!DesktopTypeOK'
BY DEF Typed, Desktop!FocusWindow, Desktop!DesktopTypeOK, Desktop!Open

\* Moving the active window to a workspace.
LEMMA MoveTyped ==
  ASSUME Typed, NEW to \in Workspace, NEW silent, Desktop!MoveActive(to, silent)
  PROVE  Desktop!DesktopTypeOK'
<1>1. focus \in Window /\ place \in [Window -> Workspace \union {Gone}]
  BY DEF Typed, Desktop!MoveActive, Desktop!DesktopTypeOK, Desktop!Open
<1>2. place' = [place EXCEPT ![focus] = to] /\ to # Gone
  BY UndoDaemonAssumption DEF Desktop!MoveActive
<1>3. Desktop!Open \subseteq Desktop!Open' /\ focus \in Desktop!Open'
  BY <1>1, <1>2 DEF Desktop!Open
<1>4. focus' \in Desktop!Open \union {Nobody} \union {focus}
  BY DEF Desktop!MoveActive, Desktop!FocusMovesOn
<1>5. place' \in [Window -> Workspace \union {Gone}]
  BY <1>1, <1>2
<1>6. QED BY <1>3, <1>4, <1>5 DEF Desktop!DesktopTypeOK

\* Closing a window that is open.
LEMMA CloseTyped ==
  ASSUME Typed, NEW w \in Window, Desktop!CloseWindow(w)
  PROVE  Desktop!DesktopTypeOK'
<1>1. /\ place' = [place EXCEPT ![w] = Gone] /\ place \in [Window -> Workspace \union {Gone}]
      /\ focus \in Desktop!Open \union {Nobody}
  BY DEF Typed, Desktop!CloseWindow, Desktop!DesktopTypeOK
<1>2. Desktop!Open' = Desktop!Open \ {w} /\ place' \in [Window -> Workspace \union {Gone}]
  BY <1>1 DEF Desktop!Open
<1>3. focus' \in (Desktop!Open \ {w}) \union {Nobody}
  BY <1>1 DEF Desktop!CloseWindow, Desktop!FocusMovesOn
<1>4. QED BY <1>2, <1>3 DEF Desktop!DesktopTypeOK

\* A window opens on a workspace.
LEMMA OpenTyped ==
  ASSUME Typed, NEW w \in Window, NEW ws \in Workspace, Desktop!OpenWindow(w, ws)
  PROVE  Desktop!DesktopTypeOK'
<1>1. /\ place' = [place EXCEPT ![w] = ws] /\ place \in [Window -> Workspace \union {Gone}]
      /\ focus' = w /\ ws # Gone
  BY UndoDaemonAssumption DEF Typed, Desktop!OpenWindow, Desktop!DesktopTypeOK
<1>2. w \in Desktop!Open' /\ place' \in [Window -> Workspace \union {Gone}]
  BY <1>1 DEF Desktop!Open
<1>3. QED BY <1>1, <1>2 DEF Desktop!DesktopTypeOK

-----------------------------------------------------------------------------
(* Handlers whose step records nothing.                                    *)

\* A handler that is not about to record may go anywhere else.
LEMMA GoesOn ==
  ASSUME UndoInv, NEW c \in Client, NEW r \in Handlers,
         req' = [req EXCEPT ![c] = r], r.pc # "record", Informed(r),
         r.job \in scenario.jobs \union {None},
         Desktop!DesktopTypeOK', left' \in [{"request", "user", "crash"} -> Nat],
         UNCHANGED <<scenario, stack, taken, clock>>
  PROVE  UndoInv'
<1>1. /\ req' \in [Client -> Handlers] /\ req'[c] = r
      /\ \A d \in Client \ {c} : req'[d] = req[d]
  BY DEF UndoInv, Typed
<1>2. Typed' /\ Knows'
  BY <1>1 DEF UndoInv, Typed, Knows
<1>3. Apart' /\ Fresh'
  BY <1>1 DEF UndoInv, Apart, Fresh, OnStack, Taken
<1>4. QED BY <1>2, <1>3 DEF UndoInv

\* A bound that is spent stays a number.
LEMMA SpendTyped ==
  ASSUME Typed, NEW what \in {"request", "user", "crash"}, Spend(what)
  PROVE  left' \in [{"request", "user", "crash"} -> Nat]
BY DEF Typed, Spend

\* A handler that knows nothing, as Finish leaves it.
LEMMA IdleTyped == Idle \in Handlers /\ Idle.pc = "idle" /\ Idle.job = None /\ Informed(Idle)
BY DEF Idle, Request, Handlers, Place, Seen, Informed

\* A handler that ends.
LEMMA Finishes ==
  ASSUME UndoInv, NEW c \in Client, Finish(c), Desktop!DesktopTypeOK',
         UNCHANGED <<scenario, stack, taken, clock, left>>
  PROVE  UndoInv'
<1>1. Idle.job \in scenario.jobs \union {None}
  BY IdleTyped
<1>2. left' \in [{"request", "user", "crash"} -> Nat] /\ req' = [req EXCEPT ![c] = Idle]
  BY DEF Finish, UndoInv, Typed
<1>3. QED BY <1>1, <1>2, IdleTyped, GoesOn

\* A handler that goes on to a place for which it knows enough.
LEMMA Proceeds ==
  ASSUME UndoInv, NEW c \in Client, NEW label \in Place \ {"record"}, Goto(c, label),
         Informed([req[c] EXCEPT !.pc = label]), Desktop!DesktopTypeOK',
         UNCHANGED <<scenario, stack, taken, clock, left>>
  PROVE  UndoInv'
<1> DEFINE r == [req[c] EXCEPT !.pc = label]
<1>1. r \in Handlers /\ r.pc = label /\ r.job \in scenario.jobs \union {None}
  BY DEF UndoInv, Typed, Handlers
<1>2. req' = [req EXCEPT ![c] = r]
  BY DEF Goto
<1>3. left' \in [{"request", "user", "crash"} -> Nat]
  BY DEF UndoInv, Typed
<1> HIDE DEF r
<1>4. Informed(r)
  BY DEF r
<1>5. QED BY <1>1, <1>2, <1>3, <1>4, GoesOn

\* A request is read.
LEMMA SubmitKeeps ==
  ASSUME UndoInv, UNCHANGED scenario, NEW c \in Client, NEW j \in scenario.jobs, Submit(c, j)
  PROVE  UndoInv'
<1> DEFINE r == Request(IF j.op = "undo" THEN "pop" ELSE "query", j)
<1>1. j \in Job
  BY UndoDaemonAssumption DEF UndoInv, Typed, Scenario
<1>2. r \in Handlers /\ r.pc # "record" /\ r.job = j /\ Informed(r)
  BY <1>1 DEF Request, Handlers, Place, Seen, Informed
<1>3. req' = [req EXCEPT ![c] = r] /\ UNCHANGED <<desktop, stack, taken, clock>>
  BY DEF Submit
<1>4. left' \in [{"request", "user", "crash"} -> Nat]
  BY SpendTyped DEF Submit, UndoInv
<1>5. Desktop!DesktopTypeOK'
  BY <1>3 DEF desktop, UndoInv, Typed, Desktop!DesktopTypeOK, Desktop!Open
<1> HIDE DEF r
<1>6. QED BY <1>2, <1>3, <1>4, <1>5, GoesOn

\* The window is read before the handler acts.
LEMMA QueryKeeps ==
  ASSUME UndoInv, UNCHANGED scenario, NEW c \in Client, Query(c)
  PROVE  UndoInv'
<1>1. UNCHANGED <<desktop, scenario, stack, taken, clock, left>> /\ req[c].pc = "query"
  BY DEF Query, At
<1>2. /\ Desktop!DesktopTypeOK' /\ left' \in [{"request", "user", "crash"} -> Nat]
      /\ place \in [Window -> Workspace \union {Gone}] /\ req[c] \in Handlers
      /\ req[c].job \in scenario.jobs \union {None} /\ req[c].job \in Job
  BY <1>1 DEF desktop, UndoInv, Typed, Knows, Informed, Desktop!DesktopTypeOK, Desktop!Open
<1>3. CASE /\ Target(c) \in Desktop!Open
           /\ req' = [req EXCEPT ![c].seen = [win |-> Target(c), ws |-> place[Target(c)]],
                                 ![c].pc = "dispatch"]
  <2> DEFINE r == [req[c] EXCEPT !.seen = [win |-> Target(c), ws |-> place[Target(c)]],
                                 !.pc = "dispatch"]
  <2>1. [win |-> Target(c), ws |-> place[Target(c)]] \in Seen
    BY <1>2, <1>3 DEF Desktop!Open, Seen
  <2>2. /\ r \in Handlers /\ r.pc = "dispatch" /\ r.job = req[c].job
    BY <1>2, <2>1 DEF Handlers, Place
  <2>3. req' = [req EXCEPT ![c] = r]
    BY <1>3
  <2> HIDE DEF r
  <2>4. Informed(r)
    BY <1>2, <2>2 DEF Informed
  <2>5. QED BY <1>1, <1>2, <2>2, <2>3, <2>4, GoesOn
<1>4. CASE Finish(c)
  BY <1>1, <1>2, <1>4, Finishes
<1>5. CASE Goto(c, "dispatch")
  <2>1. Informed([req[c] EXCEPT !.pc = "dispatch"])
    BY <1>2 DEF Informed, Handlers
  <2>2. QED BY <1>1, <1>2, <1>5, <2>1, Proceeds DEF Place
<1>6. QED BY <1>3, <1>4, <1>5 DEF Query

\* A handler that gives up, with an error or with nothing to record.
LEMMA GivesUp ==
  ASSUME UndoInv, UNCHANGED scenario, NEW c \in Client,
         Rejected(c) \/ NotRecorded(c) \/ UndoRejected(c) \/ TimeOut(c)
  PROVE  UndoInv'
<1>1. Finish(c) /\ UNCHANGED <<desktop, stack, taken, clock, left>>
  BY DEF Rejected, NotRecorded, UndoRejected, TimeOut
<1>2. Desktop!DesktopTypeOK'
  BY <1>1 DEF desktop, UndoInv, Typed, Desktop!DesktopTypeOK, Desktop!Open
<1>3. QED BY <1>1, <1>2, Finishes

\* The inverse is applied: refocus, move back, spawn.
LEMMA AppliesKeeps ==
  ASSUME UndoInv, UNCHANGED scenario, NEW c \in Client,
         (\E answered \in BOOLEAN : Refocus(c, answered)) \/ MoveBack(c) \/ Respawn(c)
  PROVE  UndoInv'
<1>1. CASE \E answered \in BOOLEAN : Refocus(c, answered)
  <2>1. Desktop!DesktopTypeOK' /\ UNCHANGED <<stack, taken, clock, left>>
    BY <1>1, FocusTyped DEF Refocus, UndoInv
  <2>2. CASE Finish(c)
    BY <2>1, <2>2, Finishes
  <2>3. CASE Goto(c, "moveback") /\ req[c].pc = "refocus"
    <3>1. Informed([req[c] EXCEPT !.pc = "moveback"])
      BY <2>3 DEF UndoInv, Typed, Knows, Informed, Handlers
    <3>2. QED BY <2>1, <2>3, <3>1, Proceeds DEF Place
  <2>4. QED BY <1>1, <2>2, <2>3 DEF Refocus, At
<1>2. CASE MoveBack(c)
  <2>1. req[c].held.back \in Workspace
    BY <1>2 DEF MoveBack, At, UndoInv, Knows, Informed, UndoEntry
  <2>2. Desktop!Numbered(req[c].held.back) \subseteq Workspace
    BY <2>1 DEF Desktop!Numbered
  <2>3. Desktop!DesktopTypeOK'
    BY <1>2, <2>2, MoveTyped DEF MoveBack, UndoInv
  <2>4. QED BY <1>2, <2>3, Finishes DEF MoveBack
<1>3. CASE Respawn(c)
  <2>1. Desktop!DesktopTypeOK'
    BY <1>3, OpenTyped DEF Respawn, UndoInv
  <2>2. QED BY <1>3, <2>1, Finishes DEF Respawn
<1>4. QED BY <1>1, <1>2, <1>3

-----------------------------------------------------------------------------
(* An effect, its entry, and its return.                                   *)

\* The dispatcher takes effect, at a time of its own.
LEMMA DispatchKeeps ==
  ASSUME UndoInv, UNCHANGED scenario, NEW c \in Client, NEW answered \in BOOLEAN,
         Dispatch(c, answered)
  PROVE  UndoInv'
<1>1. /\ req[c] \in Handlers /\ req[c].job \in Job /\ clock \in Nat
      /\ req[c].job \in scenario.jobs \union {None}
      /\ req[c].pc = "dispatch" /\ place \in [Window -> Workspace \union {Gone}]
  BY DEF Dispatch, At, UndoInv, Typed, Knows, Informed, Desktop!DesktopTypeOK
<1>2. Target(c) \in Window /\ place[Target(c)] \in Workspace
  BY <1>1 DEF Dispatch, Desktop!Open
<1>3. clock' = clock + 1 /\ UNCHANGED <<stack, taken, left>>
  BY DEF Dispatch
<1>4. Desktop!DesktopTypeOK'
  <2>1. CASE Desktop!CloseWindow(Target(c))
    BY <1>2, <2>1, CloseTyped DEF UndoInv
  <2>2. CASE \E silent \in BOOLEAN : Desktop!MoveActive(req[c].job.to, silent)
    <3>1. req[c].job.to \in Workspace
      BY <1>1 DEF Job
    <3>2. QED BY <2>2, <3>1, MoveTyped DEF UndoInv
  <2>3. QED BY <2>1, <2>2 DEF Dispatch
<1> DEFINE done == [win |-> Target(c), from |-> place[Target(c)], at |-> clock, layout |-> place]
           r == [req[c] EXCEPT !.pc = "record", !.effect = done]
<1>5. \/ answered /\ req' = [req EXCEPT ![c] = r]
      \/ ~answered /\ req' = [req EXCEPT ![c] = Idle]
  BY DEF Dispatch, Finish
<1>6. done \in Effect /\ done.at = clock
  BY <1>1, <1>2 DEF Effect, Layout
<1> HIDE DEF done
<1>7. r \in Handlers /\ r.pc = "record" /\ r.effect = done /\ r.job = req[c].job
  BY <1>1, <1>6 DEF Handlers, Place
<1> HIDE DEF r
<1>8. Informed(r)
  BY <1>1, <1>6, <1>7 DEF Informed
<1>9. PICK q \in Handlers :
        /\ req' = [req EXCEPT ![c] = q]
        /\ Informed(q) /\ q.job \in scenario.jobs \union {None}
        /\ q.pc = "record" => q.effect.at = clock
  BY <1>1, <1>5, <1>6, <1>7, <1>8, IdleTyped
<1>10. /\ req' \in [Client -> Handlers] /\ req'[c] = q
       /\ \A d \in Client \ {c} : req'[d] = req[d]
  BY <1>9 DEF UndoInv, Typed
<1>11. Typed' /\ Knows'
  BY <1>3, <1>4, <1>9, <1>10 DEF UndoInv, Typed, Knows
<1>12. /\ \A i \in 1..Len(stack) : stack[i].did.at \in Nat /\ stack[i].did.at < clock
       /\ \A e \in taken : e.did.at \in Nat /\ e.did.at < clock
       /\ \A d \in Client \ {c} : req[d].pc = "record" =>
             req[d].effect.at \in Nat /\ req[d].effect.at < clock
  <2>1. \A i \in 1..Len(stack) : stack[i] \in UndoEntry
    BY ElementOfSeq DEF UndoInv, Typed
  <2>2. QED BY <2>1 DEF UndoInv, Typed, Knows, Informed, Apart, Fresh, UndoEntry, Effect
<1>13. Apart'
  BY <1>1, <1>3, <1>12 DEF UndoInv, Apart, Taken
<1>14. Fresh'
  <2>1. clock' = clock + 1 /\ clock < clock'
    BY <1>1, <1>3
  <2>2. q.pc = "record" =>
          /\ q.effect.at < clock' /\ ~OnStack(q.effect.at)' /\ ~Taken(q.effect.at)'
          /\ \A d \in Client \ {c} : req[d].pc = "record" => req[d].effect.at # q.effect.at
    BY <1>1, <1>3, <1>9, <1>12, <2>1 DEF OnStack, Taken
  <2>3. ASSUME NEW d \in Client \ {c}, req[d].pc = "record"
        PROVE  /\ req[d].effect.at < clock' /\ ~OnStack(req[d].effect.at)
               /\ ~Taken(req[d].effect.at)
               /\ \A e \in Client \ {c} :
                     req[e].pc = "record" /\ req[e].effect.at = req[d].effect.at => e = d
    <3>1. req[d].effect.at \in Nat /\ req[d].effect.at < clock
      BY <1>12, <2>3
    <3>2. req[d].effect.at < clock'
      BY <1>1, <2>1, <3>1
    <3>3. QED BY <2>3, <3>2 DEF UndoInv, Fresh
  <2>4. QED BY <1>3, <1>10, <2>2, <2>3 DEF Fresh, OnStack, Taken
<1>15. QED BY <1>11, <1>13, <1>14 DEF UndoInv

\* The entry goes from the handler to the stack.
LEMMA RecordKeeps ==
  ASSUME UndoInv, UNCHANGED scenario, NEW c \in Client, Record(c)
  PROVE  UndoInv'
<1> DEFINE e == InverseAction(c)
<1>1. /\ req[c].pc = "record" /\ Stack!Record(e) /\ req' = [req EXCEPT ![c] = Idle]
      /\ UNCHANGED <<desktop, clock, left>>
  BY DEF Record, At, Finish
<1>2. e \in UndoEntry /\ e.did = req[c].effect
  BY <1>1, InverseTyped DEF Record, UndoInv
<1> HIDE DEF e
<1>3. /\ stack' \in Seq(UndoEntry) /\ taken' = taken
      /\ \E out \in {0, 1} :
            /\ Len(stack') = Len(stack) - out + 1
            /\ stack'[Len(stack')] = e
            /\ \A i \in 1..(Len(stack') - 1) :
                  i + out \in 1..Len(stack) /\ stack'[i] = stack[i + out]
  BY <1>1, <1>2, StackRecords DEF UndoInv
<1>4. PICK out \in {0, 1} :
            /\ Len(stack') = Len(stack) - out + 1
            /\ stack'[Len(stack')] = e
            /\ \A i \in 1..(Len(stack') - 1) :
                  i + out \in 1..Len(stack) /\ stack'[i] = stack[i + out]
  BY <1>3
<1>5. Len(stack) \in Nat /\ Len(stack') \in Nat
  BY <1>3, LenProperties DEF UndoInv, Typed
<1>6. /\ req' \in [Client -> Handlers] /\ req'[c] = Idle
      /\ \A d \in Client \ {c} : req'[d] = req[d]
  BY <1>1, IdleTyped DEF UndoInv, Typed
<1>7. Desktop!DesktopTypeOK'
  BY <1>1 DEF desktop, UndoInv, Typed, Desktop!DesktopTypeOK, Desktop!Open
<1>8. Typed' /\ Knows'
  BY <1>1, <1>3, <1>6, <1>7, IdleTyped DEF UndoInv, Typed, Knows
<1>9. /\ e.did.at < clock /\ ~OnStack(e.did.at) /\ ~Taken(e.did.at)
      /\ \A d \in Client \ {c} : req[d].pc = "record" => req[d].effect.at # e.did.at
  BY <1>1, <1>2 DEF UndoInv, Fresh
<1>10. \A i \in 1..Len(stack') :
          \/ i = Len(stack') /\ stack'[i] = e
          \/ i \in 1..(Len(stack') - 1) /\ i + out \in 1..Len(stack) /\ stack'[i] = stack[i + out]
  BY <1>4, <1>5
<1>11. Apart'
  <2>1. ASSUME NEW i \in 1..Len(stack')
        PROVE  /\ stack'[i].did.at < clock'
               /\ ~\E x \in taken' : x.did.at = stack'[i].did.at
    <3>1. CASE stack'[i] = e
      BY <1>1, <1>3, <1>9, <3>1 DEF Taken
    <3>2. CASE i + out \in 1..Len(stack) /\ stack'[i] = stack[i + out]
      BY <1>1, <1>3, <3>2 DEF UndoInv, Apart, Taken
    <3>3. QED BY <1>10, <3>1, <3>2
  <2>2. ASSUME NEW i \in 1..Len(stack'), NEW j \in 1..Len(stack'),
               stack'[i].did.at = stack'[j].did.at
        PROVE  i = j
    <3>1. CASE i = Len(stack') \/ j = Len(stack')
      <4>1. \A k \in 1..(Len(stack') - 1) : stack'[k].did.at # e.did.at
        BY <1>4, <1>9 DEF OnStack
      <4>2. stack'[Len(stack')] = e
        BY <1>4
      <4>3. QED BY <1>10, <2>2, <3>1, <4>1, <4>2
    <3>2. CASE i \in 1..(Len(stack') - 1) /\ j \in 1..(Len(stack') - 1)
      <4>1. /\ i + out \in 1..Len(stack) /\ stack'[i] = stack[i + out]
            /\ j + out \in 1..Len(stack) /\ stack'[j] = stack[j + out]
        BY <1>4, <3>2
      <4>2. stack[i + out].did.at = stack[j + out].did.at
        BY <2>2, <4>1
      <4>3. i + out = j + out
        BY <4>1, <4>2 DEF UndoInv, Apart
      <4>4. QED BY <1>5, <4>3
    <3>3. QED BY <1>10, <3>1, <3>2
  <2>3. \A x \in taken' : x.did.at < clock'
    BY <1>1, <1>3 DEF UndoInv, Apart
  <2>4. QED BY <2>1, <2>2, <2>3 DEF Apart, Taken
<1>12. Fresh'
  <2>1. ASSUME NEW d \in Client \ {c}, req[d].pc = "record"
        PROVE  ~OnStack(req[d].effect.at)' /\ ~Taken(req[d].effect.at)'
    <3>1. /\ ~OnStack(req[d].effect.at) /\ ~Taken(req[d].effect.at)
          /\ req[d].effect.at # e.did.at
      BY <1>9, <2>1 DEF UndoInv, Fresh
    <3>2. ~\E i \in 1..Len(stack') : stack'[i].did.at = req[d].effect.at
      BY <1>10, <3>1 DEF OnStack
    <3>3. QED BY <1>3, <1>6, <3>1, <3>2 DEF OnStack, Taken
  <2>2. QED BY <1>1, <1>6, <2>1, IdleTyped DEF UndoInv, Fresh, OnStack, Taken
<1>13. QED BY <1>8, <1>11, <1>12 DEF UndoInv

\* The entry on top goes from the stack to those taken back.
LEMMA PopKeeps ==
  ASSUME UndoInv, UNCHANGED scenario, NEW c \in Client, Pop(c)
  PROVE  UndoInv'
<1>1. UNCHANGED <<desktop, clock, left>> /\ req[c] \in Handlers
      /\ req[c].job \in scenario.jobs \union {None}
  BY DEF Pop, UndoInv, Typed
<1>2. Desktop!DesktopTypeOK'
  BY <1>1 DEF desktop, UndoInv, Typed, Desktop!DesktopTypeOK, Desktop!Open
<1>3. CASE Finish(c) /\ UNCHANGED <<stack, taken>>
  BY <1>1, <1>2, <1>3, Finishes
<1>4. CASE /\ Stack!TakeBack
           /\ req' = [req EXCEPT
                        ![c].held = Last(stack),
                        ![c].pc = IF Last(stack).kind = "spawn" THEN "spawn" ELSE "refocus"]
  <2>1. /\ stack' \in Seq(UndoEntry)
        /\ Len(stack) \in Nat \ {0} /\ Len(stack') = Len(stack) - 1
        /\ \A i \in 1..Len(stack') : stack'[i] = stack[i]
        /\ Last(stack) = stack[Len(stack)] /\ Last(stack) \in UndoEntry
        /\ taken' = taken \union {Last(stack)}
    BY <1>4, StackTakesBack DEF UndoInv
  <2> DEFINE e == Last(stack)
             r == [req[c] EXCEPT !.held = e,
                                 !.pc = IF e.kind = "spawn" THEN "spawn" ELSE "refocus"]
  <2>2. req' = [req EXCEPT ![c] = r]
    BY <1>4
  <2> HIDE DEF e
  <2>3. /\ r \in Handlers /\ r.pc \in {"spawn", "refocus"} /\ r.held = e
        /\ r.job = req[c].job
    BY <1>1, <2>1 DEF Handlers, Place, e
  <2> HIDE DEF r
  <2>4. Informed(r)
    BY <2>1, <2>3 DEF Informed, e
  <2>5. /\ req' \in [Client -> Handlers] /\ req'[c] = r
        /\ \A d \in Client \ {c} : req'[d] = req[d]
    BY <2>2, <2>3 DEF UndoInv, Typed
  <2>6. taken' \subseteq UndoEntry
    BY <2>1 DEF UndoInv, Typed
  <2>7. Typed' /\ Knows'
    BY <1>1, <1>2, <2>1, <2>3, <2>4, <2>5, <2>6 DEF UndoInv, Typed, Knows
  <2>8. Len(stack) \in 1..Len(stack) /\ e = stack[Len(stack)] /\ taken' = taken \union {e}
        /\ \A i \in 1..Len(stack') : i \in 1..Len(stack) /\ i # Len(stack)
    BY <2>1 DEF e
  <2>9. Apart'
    <3>1. ASSUME NEW i \in 1..Len(stack')
          PROVE  /\ stack'[i].did.at < clock'
                 /\ ~\E x \in taken' : x.did.at = stack'[i].did.at
      <4>1. i \in 1..Len(stack) /\ i # Len(stack) /\ stack'[i] = stack[i]
        BY <2>1, <2>8
      <4>2. stack[i].did.at < clock /\ ~Taken(stack[i].did.at)
        BY <4>1 DEF UndoInv, Apart
      <4>3. e.did.at # stack[i].did.at
        BY <2>8, <4>1 DEF UndoInv, Apart
      <4>4. QED BY <1>1, <2>8, <4>1, <4>2, <4>3 DEF Taken
    <3>2. \A i, j \in 1..Len(stack') : stack'[i].did.at = stack'[j].did.at => i = j
      BY <2>1, <2>8 DEF UndoInv, Apart
    <3>3. \A x \in taken' : x.did.at < clock'
      BY <1>1, <2>8 DEF UndoInv, Apart
    <3>4. QED BY <3>1, <3>2, <3>3 DEF Apart, Taken
  <2>10. Fresh'
    <3>1. ASSUME NEW d \in Client \ {c}, req[d].pc = "record"
          PROVE  ~OnStack(req[d].effect.at)' /\ ~Taken(req[d].effect.at)'
      <4>1. ~OnStack(req[d].effect.at) /\ ~Taken(req[d].effect.at)
        BY <3>1 DEF UndoInv, Fresh
      <4>2. e.did.at # req[d].effect.at
        BY <2>8, <4>1 DEF OnStack
      <4>3. ~\E x \in taken' : x.did.at = req[d].effect.at
        BY <2>8, <4>1, <4>2 DEF Taken
      <4>4. ~\E i \in 1..Len(stack') : stack'[i].did.at = req[d].effect.at
        BY <2>1, <2>8, <4>1 DEF OnStack
      <4>5. QED BY <2>5, <4>3, <4>4 DEF OnStack, Taken
    <3>2. QED BY <1>1, <2>3, <2>5, <3>1 DEF UndoInv, Fresh, OnStack, Taken
  <2>11. QED BY <2>7, <2>9, <2>10 DEF UndoInv
<1>5. QED BY <1>3, <1>4 DEF Pop

-----------------------------------------------------------------------------
(* The rest of the world, and the theorems.                                *)

\* The daemon dies: what the handlers knew is lost, which only makes it less.
LEMMA CrashKeeps ==
  ASSUME UndoInv, UNCHANGED scenario, Crash
  PROVE  UndoInv'
<1>1. req' = [c \in Client |-> Idle] /\ UNCHANGED <<desktop, stack, taken, clock>>
  BY DEF Crash
<1>2. left' \in [{"request", "user", "crash"} -> Nat]
  BY SpendTyped DEF Crash, UndoInv
<1>3. Desktop!DesktopTypeOK'
  BY <1>1 DEF desktop, UndoInv, Typed, Desktop!DesktopTypeOK, Desktop!Open
<1>4. Typed' /\ Knows'
  BY <1>1, <1>2, <1>3, IdleTyped DEF UndoInv, Typed, Knows
<1>5. Apart' /\ Fresh'
  BY <1>1, IdleTyped DEF UndoInv, Apart, Fresh, Taken
<1>6. QED BY <1>4, <1>5 DEF UndoInv

\* The user changes the desktop only.
LEMMA UserKeeps ==
  ASSUME UndoInv, UNCHANGED scenario, User
  PROVE  UndoInv'
<1>1. UNCHANGED <<stack, taken, req, clock>>
  BY DEF User
<1>2. left' \in [{"request", "user", "crash"} -> Nat]
  BY SpendTyped DEF User, UndoInv
<1>3. Desktop!DesktopTypeOK'
  BY FocusTyped, CloseTyped, OpenTyped DEF User, UndoInv
<1>4. Typed' /\ Knows'
  BY <1>1, <1>2, <1>3 DEF UndoInv, Typed, Knows
<1>5. Apart' /\ Fresh'
  BY <1>1 DEF UndoInv, Apart, Fresh, OnStack, Taken
<1>6. QED BY <1>4, <1>5 DEF UndoInv

\* Nothing has been done at first.
LEMMA UndoAtFirst == Init => UndoInv
<1> SUFFICES ASSUME Init PROVE UndoInv
  OBVIOUS
<1>1. Desktop!DesktopTypeOK
  <2>1. /\ place \in [Window -> Workspace] /\ focus \in Window /\ Gone \notin Workspace
    BY UndoDaemonAssumption DEF Init
  <2>2. Desktop!Open = Window
    BY <2>1 DEF Desktop!Open
  <2>3. QED BY <2>1, <2>2 DEF Desktop!DesktopTypeOK
<1>2. scenario \in Scenarios /\ scenario \in Scenario
  BY UndoDaemonAssumption DEF Init
<1>3. left \in [{"request", "user", "crash"} -> Nat]
  BY <1>2 DEF Init, Scenario
<1>4. stack \in Seq(UndoEntry) /\ Len(stack) = 0 /\ taken = {} /\ clock = 0
  BY EmptySeq DEF Init
<1>5. req = [c \in Client |-> Idle]
  BY DEF Init
<1>6. Typed /\ Knows
  BY <1>1, <1>2, <1>3, <1>4, <1>5, IdleTyped DEF Typed, Knows
<1>7. Apart /\ Fresh
  BY <1>4, <1>5, IdleTyped DEF Apart, Fresh
<1>8. QED BY <1>6, <1>7 DEF UndoInv

\* Every step keeps the invariant.
LEMMA UndoStep == UndoInv /\ [Next]_vars => UndoInv'
<1> SUFFICES ASSUME UndoInv, [Next]_vars PROVE UndoInv'
  OBVIOUS
<1>1. CASE UNCHANGED vars
  <2>1. UNCHANGED <<scenario, place, focus, stack, taken, req, clock, left>>
    BY <1>1 DEF vars, desktop
  <2>2. Desktop!DesktopTypeOK'
    BY <2>1 DEF UndoInv, Typed, Desktop!DesktopTypeOK, Desktop!Open
  <2>3. Typed' /\ Knows'
    BY <2>1, <2>2 DEF UndoInv, Typed, Knows
  <2>4. Apart' /\ Fresh'
    BY <2>1 DEF UndoInv, Apart, Fresh, OnStack, Taken
  <2>5. QED BY <2>3, <2>4 DEF UndoInv
<1>2. CASE UNCHANGED scenario /\ \E c \in scenario.clients, j \in scenario.jobs : Submit(c, j)
  <2>1. scenario.clients \subseteq Client
    BY UndoDaemonAssumption DEF UndoInv, Typed, Scenario
  <2>2. QED BY <1>2, <2>1, SubmitKeeps
<1>3. ASSUME UNCHANGED scenario, NEW c \in Client, Handler(c) PROVE UndoInv'
  BY <1>3, QueryKeeps, DispatchKeeps, AppliesKeeps, GivesUp, RecordKeeps, PopKeeps DEF Handler
<1>4. CASE UNCHANGED scenario /\ (Crash \/ User)
  BY <1>4, CrashKeeps, UserKeeps
<1>5. QED BY <1>1, <1>2, <1>3, <1>4 DEF Next

\* The desktop, the stack and the handlers keep their types, whatever fails.
THEOREM TypeCorrect == Spec => []TypeOK
<1>1. UndoInv => TypeOK
  BY DEF UndoInv, Typed, TypeOK, Handlers, Place, Seen
<1>2. QED BY <1>1, UndoAtFirst, UndoStep, PTL DEF Spec

\* Only what Hyprland did is undoable, and nothing twice: handlers of several
\* clients, their timeouts, crashes and the user may interleave as they like
\* (server.rs: the recorded handlers and undo).
THEOREM NothingRecordedTwice == Spec => []OneEntryPerEffect
<1>1. UndoInv => OneEntryPerEffect
  <2> SUFFICES ASSUME UndoInv PROVE OneEntryPerEffect
    OBVIOUS
  <2>1. ASSUME NEW i \in 1..Len(stack) PROVE stack[i].did # None
    <3>1. stack[i].did \in Effect
      <4>1. stack \in Seq(UndoEntry)
        BY DEF UndoInv, Typed
      <4>2. stack[i] \in UndoEntry
        BY <4>1, ElementOfSeq
      <4>3. QED BY <4>2 DEF UndoEntry
    <3>2. DOMAIN stack[i].did = {"win", "from", "at", "layout"} /\ DOMAIN None = {"win"}
      BY <3>1 DEF Effect, None
    <3>3. QED BY <3>2
  <2>2. QED BY <2>1 DEF UndoInv, Apart, Taken, OneEntryPerEffect
<1>2. QED BY <1>1, UndoAtFirst, UndoStep, PTL DEF Spec

-----------------------------------------------------------------------------
(* One client, and a user who waits.                                       *)

\* What the handler of the only client knows to be so: what it read is what it
\* acts on, is then what it has acted on, and that came after all on the stack.
TargetOf(r, active) == IF r.job.op = "close" THEN r.job.win ELSE active

Honest(r, layout, active, s) ==
    /\ r.pc = "query" => r.seen = None
    /\ r.pc = "dispatch" /\ r.seen # None =>
           r.seen.win = TargetOf(r, active) /\ r.seen.ws = layout[TargetOf(r, active)]
    /\ r.pc = "record" /\ r.seen # None =>
           r.seen.win = r.effect.win /\ r.seen.ws = r.effect.from
    /\ r.pc = "record" => \A i \in 1..Len(s) : s[i].did.at < r.effect.at

Truthful(e) == e.win = e.did.win /\ (e.kind = "move" => e.back = e.did.from)
InOrderOfEffects(s) ==
    /\ \A i \in 1..Len(s) : Truthful(s[i])
    /\ \A i, j \in 1..Len(s) : i < j => s[i].did.at < s[j].did.at

\* Each entry leads from the layout that the one above it led back to, the one
\* on top from the layout at hand, back to the layout before its effect.
LeadsBack(after, e) == e.kind = "move" /\ [after EXCEPT ![e.win] = e.back] = e.did.layout
Chain(s, top) ==
    \A i \in 1..Len(s) : LeadsBack(IF i = Len(s) THEN top ELSE s[i + 1].did.layout, s[i])

InverseOf(r) ==
    [kind |-> IF r.job.op \in {"kill", "close"} THEN "spawn" ELSE "move",
     win |-> r.seen.win, back |-> r.seen.ws, silent |-> r.job.op = "moveSilent", did |-> r.effect]

\* The layout at hand, were the step that has begun not there: an effect not
\* recorded yet is left out, an entry popped is taken for applied.
TopFor(r, layout) ==
    CASE r.pc = "record" -> r.effect.layout
      [] r.pc \in {"refocus", "moveback"} -> r.held.did.layout
      [] OTHER -> layout

Restores(r, layout, active, s) ==
    /\ Chain(s, TopFor(r, layout))
    /\ r.pc # "spawn"
    /\ r.pc = "record" /\ r.seen # None => LeadsBack(layout, InverseOf(r))
    /\ r.pc \in {"refocus", "moveback"} => LeadsBack(layout, r.held)
    /\ r.pc = "moveback" => active = r.held.win

Alone == \A c \in Client : req[c] # Idle => c \in scenario.clients

QuietInv ==
    Quiet => /\ InOrderOfEffects(stack)
             /\ \A c \in scenario.clients : Honest(req[c], place, focus, stack)

\* No workspace has a sign: special ones have, and are not found again.
Unsigned == \A ws \in Workspace : ws > 0

UnwindInv ==
    Unsigned /\ Undisturbed =>
        /\ place \in [Window -> Workspace]
        /\ left["crash"] = 0
        /\ \A c \in scenario.clients : Restores(req[c], place, focus, stack)

CalmInv == UndoInv /\ Alone /\ QuietInv /\ UnwindInv

\* A handler that takes a step belongs to a client of the scenario, which in a
\* quiet one is all there is.
LEMMA HandlersBelong ==
  ASSUME CalmInv, UNCHANGED scenario, NEW c \in Client, req[c] # Idle, NEW r \in Handlers,
         req' = [req EXCEPT ![c] = r]
  PROVE  /\ Alone' /\ req'[c] = r /\ c \in scenario.clients
         /\ Quiet => scenario.clients = {c}
<1>1. req \in [Client -> Handlers] /\ c \in scenario.clients
  BY DEF CalmInv, UndoInv, Typed, Alone
<1>2. req'[c] = r /\ \A d \in Client \ {c} : req'[d] = req[d]
  BY <1>1
<1>3. Alone'
  BY <1>1, <1>2 DEF CalmInv, Alone
<1>4. Quiet => scenario.clients = {c}
  BY <1>1 DEF Quiet
<1>5. QED BY <1>1, <1>2, <1>3, <1>4

\* What the step of a handler has to keep.
LEMMA HandlerKeeps ==
  ASSUME CalmInv, UndoInv', UNCHANGED scenario, NEW c \in Client, req[c] # Idle, NEW r \in Handlers,
         req' = [req EXCEPT ![c] = r],
         Quiet => InOrderOfEffects(stack') /\ Honest(r, place', focus', stack'),
         Unsigned /\ Undisturbed => /\ place' \in [Window -> Workspace]
                                    /\ left' = left
                                    /\ Restores(r, place', focus', stack')
  PROVE  CalmInv'
<1>1. Alone' /\ req'[c] = r /\ (Quiet => scenario.clients = {c})
  BY HandlersBelong
<1>2. Undisturbed => Quiet
  BY DEF Undisturbed
<1>3. Quiet' = Quiet /\ Undisturbed' = Undisturbed
  BY DEF Quiet, Undisturbed
<1>4. Quiet => /\ InOrderOfEffects(stack')
               /\ \A d \in scenario.clients : Honest(req'[d], place', focus', stack')
  BY <1>1
<1>5. Unsigned /\ Undisturbed =>
        /\ place' \in [Window -> Workspace]
        /\ left'["crash"] = 0
        /\ \A d \in scenario.clients : Restores(req'[d], place', focus', stack')
  BY <1>1, <1>2 DEF UnwindInv, CalmInv
<1>6. QuietInv'
  BY <1>3, <1>4 DEF QuietInv, InOrderOfEffects, Truthful, Honest, TargetOf
<1>7. UnwindInv'
  BY <1>3, <1>5 DEF UnwindInv, Restores, Chain, LeadsBack, TopFor, InverseOf, Unsigned
<1>8. QED BY <1>1, <1>6, <1>7 DEF CalmInv

\* Where a step may be taken, the handler is not idle.
LEMMA NotIdle ==
  ASSUME CalmInv, NEW c \in Client, req[c].pc # "idle"
  PROVE  /\ req[c] # Idle /\ c \in scenario.clients /\ req[c] \in Handlers
         /\ req[c].job \in scenario.jobs \union {None}
         /\ Quiet => Honest(req[c], place, focus, stack) /\ InOrderOfEffects(stack)
         /\ Unsigned /\ Undisturbed =>
                /\ place \in [Window -> Workspace] /\ left["crash"] = 0
                /\ Restores(req[c], place, focus, stack)
<1>1. req[c] # Idle
  BY IdleTyped
<1>2. c \in scenario.clients
  BY <1>1 DEF CalmInv, Alone
<1>3. QED BY <1>1, <1>2 DEF CalmInv, UndoInv, Typed, QuietInv, UnwindInv

\* A handler that ends where nothing is pending.
LEMMA CalmFinishes ==
  ASSUME CalmInv, UndoInv', UNCHANGED <<scenario, stack, left>>, NEW c \in Client,
         req[c].pc # "idle", Finish(c),
         Unsigned /\ Undisturbed =>
             place' \in [Window -> Workspace] /\ Chain(stack, place')
  PROVE  CalmInv'
<1>1. /\ Quiet => InOrderOfEffects(stack)
      /\ req[c] # Idle
  BY NotIdle
<1>2. req' = [req EXCEPT ![c] = Idle] /\ stack' = stack /\ left' = left
  BY DEF Finish
<1>3. Honest(Idle, place', focus', stack)
  BY DEF Honest, Idle, Request
<1>4. TopFor(Idle, place') = place'
  BY DEF TopFor, Idle, Request
<1>5. Chain(stack, place') => Restores(Idle, place', focus', stack)
  BY <1>4 DEF Restores, Idle, Request
<1>6. QED BY <1>1, <1>2, <1>3, <1>5, IdleTyped, HandlerKeeps

\* A request is read.
LEMMA CalmSubmit ==
  ASSUME CalmInv, UndoInv', UNCHANGED scenario, NEW c \in scenario.clients,
         NEW j \in scenario.jobs, Submit(c, j)
  PROVE  CalmInv'
<1> DEFINE r == Request(IF j.op = "undo" THEN "pop" ELSE "query", j)
<1>1. /\ req' = [req EXCEPT ![c] = r] /\ UNCHANGED <<place, focus, stack>>
      /\ req[c].pc = "idle"
  BY DEF Submit, At, desktop
<1>2. c \in Client /\ req \in [Client -> Handlers] /\ scenario \in Scenario
  BY UndoDaemonAssumption DEF CalmInv, UndoInv, Typed, Scenario
<1>3. r.pc \in {"pop", "query"} /\ r.seen = None
  BY DEF Request
<1>4. req'[c] = r /\ \A d \in Client \ {c} : req'[d] = req[d]
  BY <1>1, <1>2
<1>5. Alone'
  BY <1>4 DEF CalmInv, Alone
<1>6. Quiet' = Quiet /\ Undisturbed' = Undisturbed /\ (Undisturbed => Quiet)
      /\ (Quiet => scenario.clients = {c})
  BY DEF Quiet, Undisturbed
<1> HIDE DEF r
<1>7. Honest(r, place, focus, stack)
  BY <1>3 DEF Honest
<1>8. TopFor(r, place) = place /\ TopFor(req[c], place) = place
  BY <1>1, <1>3 DEF TopFor
<1>9. Restores(req[c], place, focus, stack) => Restores(r, place, focus, stack)
  BY <1>3, <1>8 DEF Restores
<1>10. Quiet => /\ InOrderOfEffects(stack')
                /\ \A d \in scenario.clients : Honest(req'[d], place', focus', stack')
  BY <1>1, <1>4, <1>6, <1>7 DEF CalmInv, QuietInv
<1>11. left'["crash"] = left["crash"]
  BY DEF Submit, Spend, CalmInv, UndoInv, Typed
<1>12. Unsigned /\ Undisturbed =>
         /\ place' \in [Window -> Workspace]
         /\ left'["crash"] = 0
         /\ \A d \in scenario.clients : Restores(req'[d], place', focus', stack')
  BY <1>1, <1>4, <1>6, <1>9, <1>11 DEF CalmInv, UnwindInv
<1>13. QuietInv'
  BY <1>6, <1>10 DEF QuietInv, InOrderOfEffects, Truthful, Honest, TargetOf
<1>14. UnwindInv'
  BY <1>6, <1>12 DEF UnwindInv, Restores, Chain, LeadsBack, TopFor, InverseOf, Unsigned
<1>15. QED BY <1>5, <1>13, <1>14 DEF CalmInv

\* The window is read.
LEMMA CalmQuery ==
  ASSUME CalmInv, UndoInv', UNCHANGED scenario, NEW c \in Client, Query(c)
  PROVE  CalmInv'
<1>1. req[c].pc = "query" /\ UNCHANGED <<place, focus, stack, left>>
  BY DEF Query, At, desktop
<1>2. /\ req[c] # Idle /\ req[c] \in Handlers
      /\ Quiet => Honest(req[c], place, focus, stack) /\ InOrderOfEffects(stack)
      /\ Unsigned /\ Undisturbed =>
             place \in [Window -> Workspace] /\ Restores(req[c], place, focus, stack)
  BY <1>1, NotIdle
<1>3. TopFor(req[c], place) = place
  BY <1>1 DEF TopFor
<1>4. CASE Finish(c)
  BY <1>1, <1>2, <1>3, <1>4, CalmFinishes DEF Restores
<1>5. ASSUME NEW r \in Handlers, req' = [req EXCEPT ![c] = r], r.pc = "dispatch",
             r.job = req[c].job,
             r.seen # None => /\ r.seen.win = Target(c)
                              /\ r.seen.ws = place[Target(c)]
      PROVE  CalmInv'
  <2>1. Target(c) = TargetOf(r, focus)
    BY <1>5 DEF Target, TargetOf
  <2>2. Honest(r, place, focus, stack)
    BY <1>5, <2>1 DEF Honest
  <2>3. TopFor(r, place) = place
    BY <1>5 DEF TopFor
  <2>4. Restores(req[c], place, focus, stack) => Restores(r, place, focus, stack)
    BY <1>3, <1>5, <2>3 DEF Restores
  <2>5. QED BY <1>1, <1>2, <1>5, <2>2, <2>4, HandlerKeeps
<1>6. CASE Goto(c, "dispatch") /\ req[c].job.op = "close"
  <2> DEFINE r == [req[c] EXCEPT !.pc = "dispatch"]
  <2>1. r \in Handlers /\ r.pc = "dispatch" /\ r.job = req[c].job /\ r.seen = req[c].seen
    BY <1>2 DEF Handlers, Place
  <2>2. req' = [req EXCEPT ![c] = r]
    BY <1>6 DEF Goto
  <2> HIDE DEF r
  <2>3. Quiet => r.seen = None
    BY <1>1, <1>2, <2>1 DEF Honest
  <2>4. CASE Quiet
    BY <1>5, <2>1, <2>2, <2>3, <2>4
  <2>5. CASE ~Quiet
    <3>1. ~Undisturbed
      BY <2>5 DEF Undisturbed
    <3>2. QED BY <1>2, <2>1, <2>2, <2>5, <3>1, HandlerKeeps
  <2>6. QED BY <2>4, <2>5
<1>7. CASE /\ Target(c) \in Desktop!Open
           /\ req' = [req EXCEPT ![c].seen = [win |-> Target(c), ws |-> place[Target(c)]],
                                 ![c].pc = "dispatch"]
  <2> DEFINE r == [req[c] EXCEPT !.seen = [win |-> Target(c), ws |-> place[Target(c)]],
                                 !.pc = "dispatch"]
  <2>1. [win |-> Target(c), ws |-> place[Target(c)]] \in Seen
    BY <1>7 DEF CalmInv, UndoInv, Typed, Desktop!DesktopTypeOK, Desktop!Open, Seen
  <2>2. /\ r \in Handlers /\ r.pc = "dispatch" /\ r.job = req[c].job
        /\ r.seen.win = Target(c) /\ r.seen.ws = place[Target(c)]
    BY <1>2, <2>1 DEF Handlers, Place
  <2>3. req' = [req EXCEPT ![c] = r]
    BY <1>7
  <2> HIDE DEF r
  <2>4. QED BY <1>5, <2>2, <2>3
<1>8. QED BY <1>4, <1>6, <1>7 DEF Query

\* The only operations are moves and their undoing.
LEMMA Gentle ==
  ASSUME CalmInv, Undisturbed, NEW c \in Client, req[c].pc \in {"query", "dispatch", "record"}
  PROVE  req[c].job.op \in {"move", "moveSilent", "undo"}
<1>1. req[c].job \in Job /\ req[c].job \in scenario.jobs \union {None}
  BY DEF CalmInv, UndoInv, Typed, Knows, Informed
<1>2. DOMAIN req[c].job = {"op", "to", "win"} /\ DOMAIN None = {"win"}
  BY <1>1 DEF Job, None
<1>3. "op" \notin {"win"} /\ "op" \in {"op", "to", "win"}
  OBVIOUS
<1>4. req[c].job \in scenario.jobs
  BY <1>1, <1>2, <1>3
<1>5. QED BY <1>4 DEF Undisturbed

\* The dispatcher acts on the window that was read; its effect is the latest.
LEMMA CalmDispatch ==
  ASSUME CalmInv, UndoInv', UNCHANGED scenario, NEW c \in Client, NEW answered \in BOOLEAN,
         Dispatch(c, answered)
  PROVE  CalmInv'
<1> DEFINE done == [win |-> Target(c), from |-> place[Target(c)], at |-> clock, layout |-> place]
           r == [req[c] EXCEPT !.pc = "record", !.effect = done]
<1>1. /\ req[c].pc = "dispatch" /\ UNCHANGED <<stack, left>>
      /\ answered \/ scenario.faults
      /\ answered => req' = [req EXCEPT ![c] = r]
      /\ ~answered => req' = [req EXCEPT ![c] = Idle]
  BY DEF Dispatch, At, Finish
<1>2. /\ req[c] # Idle /\ req[c] \in Handlers
      /\ req[c].job \in scenario.jobs \union {None}
      /\ Quiet => Honest(req[c], place, focus, stack) /\ InOrderOfEffects(stack)
      /\ Unsigned /\ Undisturbed =>
             place \in [Window -> Workspace] /\ Restores(req[c], place, focus, stack)
  BY <1>1, NotIdle
<1>3. (Quiet => answered) /\ (Undisturbed => Quiet)
  BY <1>1 DEF Quiet, Undisturbed
<1>4. CASE ~answered
  BY <1>1, <1>2, <1>3, <1>4, IdleTyped, HandlerKeeps
<1>5. CASE answered
  <2>1. req' = [req EXCEPT ![c] = r]
    BY <1>1, <1>5
  <2>2. Target(c) \in Window /\ place[Target(c)] \in Workspace /\ clock \in Nat
        /\ place \in Layout
    BY DEF Dispatch, CalmInv, UndoInv, Typed, Desktop!DesktopTypeOK, Desktop!Open, Layout
  <2>3. done \in Effect /\ done.win = Target(c) /\ done.from = place[Target(c)]
        /\ done.at = clock /\ done.layout = place
    BY <2>2 DEF Effect
  <2> HIDE DEF done
  <2>4. /\ r \in Handlers /\ r.pc = "record" /\ r.effect = done
        /\ r.job = req[c].job /\ r.seen = req[c].seen
    BY <1>2, <2>3 DEF Handlers, Place
  <2> HIDE DEF r
  <2>5. Target(c) = TargetOf(req[c], focus)
    BY DEF Target, TargetOf
  <2>6. Quiet /\ r.seen # None => r.seen.win = Target(c) /\ r.seen.ws = place[Target(c)]
    BY <1>1, <1>2, <2>4, <2>5 DEF Honest
  <2>7. \A i \in 1..Len(stack) : stack[i].did.at < clock
    BY DEF CalmInv, UndoInv, Apart
  <2>8. Quiet => Honest(r, place', focus', stack)
    BY <2>3, <2>4, <2>6, <2>7 DEF Honest
  <2>9. ASSUME Unsigned, Undisturbed
        PROVE  place' \in [Window -> Workspace] /\ Restores(r, place', focus', stack)
    <3>1. place \in [Window -> Workspace] /\ Chain(stack, place)
      BY <1>1, <1>2, <2>9 DEF Restores, TopFor
    <3>2. req[c].job.op \notin {"kill", "close"}
      BY <1>1, <2>9, Gentle
    <3>3. Target(c) = focus /\ place' = [place EXCEPT ![focus] = req[c].job.to]
          /\ req[c].job \in Job
      BY <1>1, <3>2 DEF Dispatch, Target, Desktop!MoveActive, CalmInv, UndoInv, Knows, Informed
    <3>4. place' \in [Window -> Workspace]
      BY <3>1, <3>3 DEF Job
    <3>5. [place' EXCEPT ![focus] = place[focus]] = place
      BY <2>2, <3>1, <3>3
    <3>6. r.seen # None => LeadsBack(place', InverseOf(r))
      BY <1>3, <2>3, <2>4, <2>6, <2>9, <3>2, <3>3, <3>5 DEF LeadsBack, InverseOf
    <3>7. TopFor(r, place') = place
      BY <2>3, <2>4 DEF TopFor
    <3>8. QED BY <2>4, <3>1, <3>4, <3>6, <3>7 DEF Restores
  <2>10. QED BY <1>1, <1>2, <2>1, <2>4, <2>8, <2>9, HandlerKeeps
<1>6. QED BY <1>4, <1>5

\* An entry that leads back from the layout at hand to the one the chain led
\* back from may be put on top of it.
LEMMA ChainGrows ==
  ASSUME NEW s \in Seq(UndoEntry), NEW t \in Seq(UndoEntry), NEW e \in UndoEntry, NEW top,
         NEW out \in {0, 1}, Len(t) = Len(s) - out + 1, t[Len(t)] = e,
         \A i \in 1..(Len(t) - 1) : i + out \in 1..Len(s) /\ t[i] = s[i + out],
         Chain(s, e.did.layout), LeadsBack(top, e)
  PROVE  Chain(t, top)
<1>1. Len(s) \in Nat /\ Len(t) \in Nat
  BY LenProperties
<1>2. SUFFICES ASSUME NEW i \in 1..Len(t)
               PROVE  LeadsBack(IF i = Len(t) THEN top ELSE t[i + 1].did.layout, t[i])
  BY DEF Chain
<1>3. CASE i = Len(t)
  BY <1>3
<1>4. CASE i # Len(t)
  <2>1. i \in 1..(Len(t) - 1) /\ i + out \in 1..Len(s) /\ t[i] = s[i + out]
    BY <1>1, <1>4
  <2>2. LeadsBack(IF i + out = Len(s) THEN e.did.layout ELSE s[i + out + 1].did.layout, t[i])
    BY <2>1 DEF Chain
  <2>3. CASE i + 1 = Len(t)
    BY <1>1, <1>4, <2>2, <2>3
  <2>4. CASE i + 1 # Len(t)
    <3>1. i + 1 \in 1..(Len(t) - 1)
      BY <1>1, <2>1, <2>4
    <3>2. t[i + 1] = s[i + 1 + out] /\ i + 1 + out = i + out + 1 /\ i + out # Len(s)
      BY <1>1, <2>1, <2>4, <3>1
    <3>3. QED BY <1>4, <2>2, <3>2
  <2>5. QED BY <2>3, <2>4
<1>5. QED BY <1>3, <1>4

\* The entry on top may be taken off.
LEMMA ChainShrinks ==
  ASSUME NEW s \in Seq(UndoEntry), NEW t \in Seq(UndoEntry), NEW top,
         Len(s) \in Nat \ {0}, Len(t) = Len(s) - 1, \A i \in 1..Len(t) : t[i] = s[i],
         Chain(s, top)
  PROVE  Chain(t, s[Len(s)].did.layout) /\ LeadsBack(top, s[Len(s)])
<1>1. LeadsBack(top, s[Len(s)])
  BY DEF Chain
<1>2. ASSUME NEW i \in 1..Len(t)
      PROVE  LeadsBack(IF i = Len(t) THEN s[Len(s)].did.layout ELSE t[i + 1].did.layout, t[i])
  <2>1. i \in 1..Len(s) /\ i # Len(s) /\ t[i] = s[i]
    <3>1. Len(t) \in Nat
      OBVIOUS
    <3>2. QED BY <3>1
  <2>2. LeadsBack(s[i + 1].did.layout, t[i])
    BY <2>1 DEF Chain
  <2>3. CASE i = Len(t)
    BY <2>2, <2>3
  <2>4. CASE i # Len(t)
    BY <2>2, <2>4
  <2>5. QED BY <2>3, <2>4
<1>3. QED BY <1>1, <1>2 DEF Chain

\* The entry goes on top of the stack.
LEMMA CalmRecord ==
  ASSUME CalmInv, UndoInv', UNCHANGED scenario, NEW c \in Client, Record(c)
  PROVE  CalmInv'
<1> DEFINE e == InverseAction(c)
<1>1. /\ req[c].pc = "record" /\ req[c].seen # None
      /\ Stack!Record(e) /\ req' = [req EXCEPT ![c] = Idle]
      /\ UNCHANGED <<place, focus, clock, left>>
  BY DEF Record, At, Finish, desktop
<1>2. /\ req[c] # Idle /\ req[c] \in Handlers
      /\ Quiet => Honest(req[c], place, focus, stack) /\ InOrderOfEffects(stack)
      /\ Unsigned /\ Undisturbed =>
             place \in [Window -> Workspace] /\ Restores(req[c], place, focus, stack)
  BY <1>1, NotIdle
<1>3. /\ e \in UndoEntry /\ e.did = req[c].effect /\ e = InverseOf(req[c])
      /\ e.win = req[c].seen.win /\ e.back = req[c].seen.ws
  BY <1>1, InverseTyped DEF CalmInv, UndoInv, InverseAction, InverseOf
<1> HIDE DEF e
<1>4. stack' \in Seq(UndoEntry) /\ stack \in Seq(UndoEntry)
  BY <1>1, <1>3, StackRecords DEF CalmInv, UndoInv, Typed
<1>5. PICK out \in {0, 1} :
            /\ Len(stack') = Len(stack) - out + 1
            /\ stack'[Len(stack')] = e
            /\ \A i \in 1..(Len(stack') - 1) :
                  i + out \in 1..Len(stack) /\ stack'[i] = stack[i + out]
  BY <1>1, <1>3, StackRecords DEF CalmInv, UndoInv
<1>6. Len(stack) \in Nat /\ Len(stack') \in Nat
  BY <1>4, LenProperties
<1>7. \A i \in 1..Len(stack') :
          \/ i = Len(stack') /\ stack'[i] = e
          \/ i \in 1..(Len(stack') - 1) /\ i + out \in 1..Len(stack) /\ stack'[i] = stack[i + out]
  BY <1>5, <1>6
<1>8. Quiet => InOrderOfEffects(stack')
  <2> SUFFICES ASSUME Quiet PROVE InOrderOfEffects(stack')
    OBVIOUS
  <2>1. Truthful(e) /\ \A i \in 1..Len(stack) : stack[i].did.at < e.did.at
    BY <1>1, <1>2, <1>3 DEF Honest, Truthful
  <2>2. \A i \in 1..Len(stack') : Truthful(stack'[i])
    BY <1>2, <1>7, <2>1 DEF InOrderOfEffects
  <2>3. ASSUME NEW i \in 1..Len(stack'), NEW j \in 1..Len(stack'), i < j
        PROVE  stack'[i].did.at < stack'[j].did.at
    <3>1. i \in 1..(Len(stack') - 1)
      BY <1>6, <2>3
    <3>2. i + out \in 1..Len(stack) /\ stack'[i] = stack[i + out]
      BY <1>5, <3>1
    <3>3. CASE stack'[j] = e
      BY <2>1, <3>2, <3>3
    <3>4. CASE j + out \in 1..Len(stack) /\ stack'[j] = stack[j + out]
      <4>1. i + out < j + out
        BY <2>3
      <4>2. QED BY <1>2, <3>2, <3>4, <4>1 DEF InOrderOfEffects
    <3>5. QED BY <1>7, <3>3, <3>4
  <2>4. QED BY <2>2, <2>3 DEF InOrderOfEffects
<1>9. Honest(Idle, place', focus', stack')
  BY DEF Honest, Idle, Request
<1>10. Unsigned /\ Undisturbed => /\ place' \in [Window -> Workspace]
                                  /\ Restores(Idle, place', focus', stack')
  <2> SUFFICES ASSUME Unsigned, Undisturbed
               PROVE  place' \in [Window -> Workspace] /\ Restores(Idle, place', focus', stack')
    OBVIOUS
  <2>1. Chain(stack, e.did.layout) /\ LeadsBack(place, e)
    BY <1>1, <1>2, <1>3 DEF Restores, TopFor
  <2>2. Chain(stack', place)
    BY <1>3, <1>4, <1>5, <2>1, ChainGrows
  <2>3. Chain(stack', TopFor(Idle, place'))
    BY <1>1, <2>2 DEF TopFor, Idle, Request
  <2>4. QED BY <1>1, <1>2, <2>3 DEF Restores, Idle, Request
<1>11. QED BY <1>1, <1>2, <1>8, <1>9, <1>10, IdleTyped, HandlerKeeps

\* The entry on top is taken back.
LEMMA CalmPop ==
  ASSUME CalmInv, UndoInv', UNCHANGED scenario, NEW c \in Client, Pop(c)
  PROVE  CalmInv'
<1>1. req[c].pc = "pop" /\ UNCHANGED <<place, focus, clock, left>>
  BY DEF Pop, At, desktop
<1>2. /\ req[c] # Idle /\ req[c] \in Handlers
      /\ Quiet => InOrderOfEffects(stack)
      /\ Unsigned /\ Undisturbed =>
             place \in [Window -> Workspace] /\ Chain(stack, place)
  BY <1>1, NotIdle DEF Restores, TopFor
<1>3. CASE Finish(c) /\ UNCHANGED stack
  BY <1>1, <1>2, <1>3, CalmFinishes
<1>4. CASE /\ Stack!TakeBack
           /\ req' = [req EXCEPT
                        ![c].held = Last(stack),
                        ![c].pc = IF Last(stack).kind = "spawn" THEN "spawn" ELSE "refocus"]
  <2>1. /\ stack' \in Seq(UndoEntry) /\ stack \in Seq(UndoEntry)
        /\ Len(stack) \in Nat \ {0} /\ Len(stack') = Len(stack) - 1
        /\ \A i \in 1..Len(stack') : stack'[i] = stack[i]
        /\ Last(stack) = stack[Len(stack)] /\ Last(stack) \in UndoEntry
    BY <1>4, StackTakesBack DEF CalmInv, UndoInv, Typed
  <2> DEFINE e == Last(stack)
             r == [req[c] EXCEPT !.held = e,
                                 !.pc = IF e.kind = "spawn" THEN "spawn" ELSE "refocus"]
  <2>2. req' = [req EXCEPT ![c] = r]
    BY <1>4
  <2> HIDE DEF e
  <2>3. /\ r \in Handlers /\ r.pc \in {"spawn", "refocus"} /\ r.held = e
        /\ r.pc = "spawn" <=> e.kind = "spawn"
    BY <1>2, <2>1 DEF Handlers, Place, e
  <2> HIDE DEF r
  <2>4. Honest(r, place', focus', stack')
    BY <2>3 DEF Honest
  <2>5. \A i \in 1..Len(stack') : i \in 1..Len(stack)
    BY <2>1
  <2>6. Quiet => InOrderOfEffects(stack')
    BY <1>2, <2>1, <2>5 DEF InOrderOfEffects
  <2>7. ASSUME Unsigned, Undisturbed PROVE Restores(r, place', focus', stack')
    <3>1. e = stack[Len(stack)] /\ Chain(stack', e.did.layout) /\ LeadsBack(place, e)
      BY <1>2, <2>1, <2>7, ChainShrinks DEF e
    <3>2. r.pc = "refocus" /\ TopFor(r, place') = e.did.layout
      BY <2>3, <3>1 DEF LeadsBack, TopFor
    <3>3. QED BY <1>1, <2>3, <3>1, <3>2 DEF Restores
  <2>8. QED BY <1>1, <1>2, <2>2, <2>3, <2>4, <2>6, <2>7, HandlerKeeps
<1>5. QED BY <1>3, <1>4 DEF Pop

\* The recorded window is focused.
LEMMA CalmRefocus ==
  ASSUME CalmInv, UndoInv', UNCHANGED scenario, NEW c \in Client, NEW answered \in BOOLEAN,
         Refocus(c, answered)
  PROVE  CalmInv'
<1> DEFINE r == [req[c] EXCEPT !.pc = "moveback"]
<1>1. /\ req[c].pc = "refocus" /\ UNCHANGED <<place, stack, left>>
      /\ focus' = req[c].held.win
      /\ answered \/ scenario.faults
      /\ answered => req' = [req EXCEPT ![c] = r]
      /\ ~answered => req' = [req EXCEPT ![c] = Idle]
  BY DEF Refocus, At, Finish, Goto, Desktop!FocusWindow
<1>2. /\ req[c] # Idle /\ req[c] \in Handlers
      /\ Quiet => InOrderOfEffects(stack)
      /\ Unsigned /\ Undisturbed =>
             /\ place \in [Window -> Workspace] /\ Chain(stack, req[c].held.did.layout)
             /\ LeadsBack(place, req[c].held)
  BY <1>1, NotIdle DEF Restores, TopFor
<1>3. (Quiet => answered) /\ (Undisturbed => Quiet)
  BY <1>1 DEF Quiet, Undisturbed
<1>4. CASE ~answered
  BY <1>1, <1>2, <1>3, <1>4, IdleTyped, HandlerKeeps
<1>5. CASE answered
  <2>1. req' = [req EXCEPT ![c] = r]
    BY <1>1, <1>5
  <2>2. r \in Handlers /\ r.pc = "moveback" /\ r.held = req[c].held
    BY <1>2 DEF Handlers, Place
  <2> HIDE DEF r
  <2>3. Honest(r, place', focus', stack')
    BY <2>2 DEF Honest
  <2>4. TopFor(r, place') = req[c].held.did.layout
    BY <2>2 DEF TopFor
  <2>5. Unsigned /\ Undisturbed =>
            place' \in [Window -> Workspace] /\ Restores(r, place', focus', stack')
    BY <1>1, <1>2, <2>2, <2>4 DEF Restores
  <2>6. QED BY <1>1, <1>2, <2>1, <2>2, <2>3, <2>5, HandlerKeeps
<1>6. QED BY <1>4, <1>5

\* The active window, which is the one recorded, goes back.
LEMMA CalmMoveBack ==
  ASSUME CalmInv, UndoInv', UNCHANGED scenario, NEW c \in Client, MoveBack(c)
  PROVE  CalmInv'
<1>1. /\ req[c].pc = "moveback" /\ Finish(c) /\ UNCHANGED <<stack, left>>
      /\ \E ws \in Desktop!Numbered(req[c].held.back) : place' = [place EXCEPT ![focus] = ws]
  BY DEF MoveBack, At, Desktop!MoveActive
<1>2. req[c].held \in UndoEntry
  BY <1>1 DEF CalmInv, UndoInv, Knows, Informed
<1>3. ASSUME Unsigned, Undisturbed
      PROVE  place' \in [Window -> Workspace] /\ Chain(stack, place')
  <2>1. /\ place \in [Window -> Workspace] /\ Chain(stack, req[c].held.did.layout)
        /\ LeadsBack(place, req[c].held) /\ focus = req[c].held.win
    BY <1>1, <1>3, NotIdle DEF Restores, TopFor
  <2>2. req[c].held.back \in Workspace /\ Desktop!Numbered(req[c].held.back) = {req[c].held.back}
    BY <1>2, <1>3 DEF UndoEntry, Unsigned, Desktop!Numbered
  <2>3. place' = [place EXCEPT ![focus] = req[c].held.back]
    BY <1>1, <2>2
  <2>4. place' = req[c].held.did.layout
    BY <2>1, <2>3 DEF LeadsBack
  <2>5. QED BY <2>1, <2>2, <2>3, <2>4
<1>4. QED BY <1>1, <1>3, CalmFinishes

\* A handler that gives up, which none does in the middle of an undo.
LEMMA CalmGivesUp ==
  ASSUME CalmInv, UndoInv', UNCHANGED scenario, NEW c \in Client,
         Rejected(c) \/ NotRecorded(c) \/ UndoRejected(c) \/ TimeOut(c) \/ Respawn(c)
  PROVE  CalmInv'
<1>1. Finish(c) /\ UNCHANGED <<stack, left>> /\ req[c].pc # "idle"
  BY DEF Rejected, NotRecorded, UndoRejected, TimeOut, Respawn, At
<1>2. ASSUME Unsigned, Undisturbed
      PROVE  place' \in [Window -> Workspace] /\ Chain(stack, place')
  <2>1. /\ place \in [Window -> Workspace] /\ Restores(req[c], place, focus, stack)
    BY <1>1, <1>2, NotIdle
  <2>2. CASE Rejected(c)
    <3>1. req[c].pc = "dispatch" /\ place' = place
      BY <2>2 DEF Rejected, At, desktop
    <3>2. QED BY <2>1, <3>1 DEF Restores, TopFor
  <2>3. CASE NotRecorded(c)
    BY <1>2, <2>3, Gentle DEF NotRecorded, At
  <2>4. CASE UndoRejected(c)
    <3>1. CASE req[c].pc \in {"refocus", "moveback"}
      <4>1. req[c].held.win \in Window
        BY <3>1 DEF CalmInv, UndoInv, Knows, Informed, UndoEntry
      <4>2. place[req[c].held.win] # Gone
        BY <2>1, <4>1, UndoDaemonAssumption
      <4>3. req[c].held.win \in Desktop!Open /\ req[c].held.win # Nobody
        BY <4>1, <4>2, UndoDaemonAssumption DEF Desktop!Open
      <4>4. QED BY <2>1, <2>4, <3>1, <4>3 DEF UndoRejected, At, Restores
    <3>2. QED BY <2>1, <2>4, <3>1 DEF UndoRejected, At, Restores
  <2>5. CASE TimeOut(c)
    BY <1>2, <2>5 DEF TimeOut, Undisturbed, Quiet
  <2>6. CASE Respawn(c)
    BY <2>1, <2>6 DEF Respawn, At, Restores
  <2>7. QED BY <2>2, <2>3, <2>4, <2>5, <2>6
<1>3. QED BY <1>1, <1>2, CalmFinishes

\* A crash, and the user, leave no handler at work in a quiet scenario.
LEMMA CalmWorld ==
  ASSUME CalmInv, UndoInv', UNCHANGED scenario, Crash \/ User
  PROVE  CalmInv'
<1>1. stack' = stack /\ (req' = [c \in Client |-> Idle] \/ req' = req)
  BY DEF Crash, User
<1>2. Alone'
  BY <1>1 DEF CalmInv, Alone
<1>3. Quiet' = Quiet /\ Undisturbed' = Undisturbed /\ (Undisturbed => Quiet)
  BY DEF Quiet, Undisturbed
<1>4. scenario.clients \subseteq Client
  BY UndoDaemonAssumption DEF CalmInv, UndoInv, Typed, Scenario
<1>5. Quiet => \A c \in Client : req'[c] = Idle
  <2>1. CASE Crash
    BY <2>1 DEF Crash
  <2>2. CASE User
    BY <2>2 DEF User, AllIdle, Quiet
  <2>3. QED BY <2>1, <2>2
<1>6. \A layout, active, s : Honest(Idle, layout, active, s) /\ TopFor(Idle, layout) = layout
  BY DEF Honest, TopFor, Idle, Request
<1>7. Quiet => /\ InOrderOfEffects(stack')
               /\ \A c \in scenario.clients : Honest(req'[c], place', focus', stack')
  BY <1>1, <1>4, <1>5, <1>6 DEF CalmInv, QuietInv
<1>8. QuietInv'
  BY <1>3, <1>7 DEF QuietInv, InOrderOfEffects, Truthful, Honest, TargetOf
<1>9. ASSUME Unsigned, Undisturbed
      PROVE  /\ place' \in [Window -> Workspace]
             /\ left'["crash"] = 0
             /\ \A c \in scenario.clients : Restores(req'[c], place', focus', stack')
  <2>1. /\ place \in [Window -> Workspace] /\ left["crash"] = 0
        /\ \A c \in scenario.clients : Restores(req[c], place, focus, stack)
        /\ left \in [{"request", "user", "crash"} -> Nat]
    BY <1>9 DEF CalmInv, UnwindInv, UndoInv, Typed
  <2>2. User /\ req' = req
    <3>1. ~Crash
      BY <2>1 DEF Crash, Spend
    <3>2. QED BY <3>1 DEF User
  <2>3. place' = place
    BY <1>9, <2>2 DEF User, Undisturbed, Desktop!FocusWindow
  <2>4. left'["crash"] = 0
    BY <2>1, <2>2 DEF User, Spend
  <2>5. \A c \in scenario.clients : req[c] = Idle /\ Chain(stack, place)
    BY <1>3, <1>4, <1>5, <1>6, <1>9, <2>1, <2>2 DEF Restores
  <2>6. ASSUME NEW c \in scenario.clients PROVE Restores(req'[c], place', focus', stack')
    BY <1>1, <1>6, <2>2, <2>3, <2>5 DEF Restores, Idle, Request
  <2>7. QED BY <2>1, <2>3, <2>4, <2>6
<1>10. UnwindInv'
  BY <1>3, <1>9 DEF UnwindInv, Restores, Chain, LeadsBack, TopFor, InverseOf, Unsigned
<1>11. QED BY <1>2, <1>8, <1>10 DEF CalmInv

\* At first nothing is recorded, and every window is there.
LEMMA CalmAtFirst == Init => CalmInv
<1> SUFFICES ASSUME Init PROVE CalmInv
  OBVIOUS
<1>1. UndoInv
  BY UndoAtFirst
<1>2. Len(stack) = 0 /\ \A c \in Client : req[c] = Idle
  BY EmptySeq DEF Init
<1>3. scenario \in Scenario
  BY UndoDaemonAssumption DEF Init
<1>4. scenario.clients \subseteq Client
  BY <1>3 DEF Scenario
<1>5. Alone
  BY <1>2 DEF Alone
<1>6. QuietInv
  BY <1>2, <1>4 DEF QuietInv, InOrderOfEffects, Honest, Idle, Request
<1>7. Undisturbed => left["crash"] = 0
  BY <1>3 DEF Init, Undisturbed
<1>8. UnwindInv
  BY <1>2, <1>4, <1>7 DEF Init, UnwindInv, Restores, Chain, Idle, Request
<1>9. QED BY <1>1, <1>5, <1>6, <1>8 DEF CalmInv

\* Every step keeps the invariant.
LEMMA CalmStep == CalmInv /\ [Next]_vars => CalmInv'
<1> SUFFICES ASSUME CalmInv, [Next]_vars PROVE CalmInv'
  OBVIOUS
<1>1. UndoInv'
  BY UndoStep DEF CalmInv
<1>2. CASE UNCHANGED vars
  <2>1. UNCHANGED <<scenario, place, focus, stack, taken, req, clock, left>>
    BY <1>2 DEF vars, desktop
  <2>2. QuietInv'
    BY <2>1 DEF CalmInv, QuietInv, Quiet, InOrderOfEffects, Truthful, Honest, TargetOf
  <2>3. UnwindInv'
    BY <2>1 DEF CalmInv, UnwindInv, Undisturbed, Quiet, Restores, Chain, LeadsBack, TopFor,
                InverseOf, Unsigned
  <2>4. QED BY <1>1, <2>1, <2>2, <2>3 DEF CalmInv, Alone
<1>3. CASE UNCHANGED scenario /\ \E c \in scenario.clients, j \in scenario.jobs : Submit(c, j)
  BY <1>1, <1>3, CalmSubmit
<1>4. ASSUME UNCHANGED scenario, NEW c \in Client, Handler(c) PROVE CalmInv'
  BY <1>1, <1>4, CalmQuery, CalmDispatch, CalmRecord, CalmPop, CalmRefocus, CalmMoveBack,
     CalmGivesUp DEF Handler
<1>5. CASE UNCHANGED scenario /\ (Crash \/ User)
  BY <1>1, <1>5, CalmWorld
<1>6. QED BY <1>2, <1>3, <1>4, <1>5 DEF Next

\* Of one client, with a user who waits, whatever it asks for and however often
\* the daemon dies: an entry names the window its operation acted on and the
\* workspace a move took it from (server.rs: query before dispatch).
THEOREM EntriesAreTrue == Spec => []EntryTruthful
<1>1. CalmInv => EntryTruthful
  BY DEF CalmInv, QuietInv, InOrderOfEffects, Truthful, EntryTruthful
<1>2. QED BY <1>1, CalmAtFirst, CalmStep, PTL DEF Spec

\* Of one client: entries stand on the stack in the order of their effects, so
\* what undo pops is the last thing that was done.
THEOREM LatestIsUndone == Spec => []TopIsLatest
<1>1. CalmInv => TopIsLatest
  BY DEF CalmInv, QuietInv, InOrderOfEffects, TopIsLatest
<1>2. QED BY <1>1, CalmAtFirst, CalmStep, PTL DEF Spec

\* Of one client that moves windows between workspaces without a sign, however
\* many moves and undos: from the desktop at hand the entries lead back,
\* layout by layout, to the one the oldest of them was recorded in
\* (undo.rs apply_inverse).
THEOREM MovesUnwind ==
  ASSUME Unsigned
  PROVE  Spec => []UndoUnwinds
<1>1. CalmInv => UndoUnwinds
  <2> SUFFICES ASSUME CalmInv, Undisturbed, AllIdle, NEW i \in 1..Len(stack),
                      NEW ws \in Desktop!Numbered(stack[i].back)
               PROVE  LET after == IF i = Len(stack) THEN place ELSE stack[i + 1].did.layout
                      IN  [after EXCEPT ![stack[i].win] = ws] = stack[i].did.layout
    BY DEF UndoUnwinds
  <2>1. PICK c \in Client : scenario.clients = {c}
    BY DEF Undisturbed, Quiet
  <2>2. req[c] = Idle /\ Restores(req[c], place, focus, stack)
    BY <2>1 DEF AllIdle, CalmInv, UnwindInv
  <2>3. Chain(stack, place)
    BY <2>2 DEF Restores, TopFor, Idle, Request
  <2>4. stack[i] \in UndoEntry
    BY ElementOfSeq DEF CalmInv, UndoInv, Typed
  <2>5. ws = stack[i].back
    BY <2>4 DEF UndoEntry, Unsigned, Desktop!Numbered
  <2>6. QED BY <2>3, <2>5 DEF Chain, LeadsBack
<1>2. QED BY <1>1, CalmAtFirst, CalmStep, PTL DEF Spec
=============================================================================
