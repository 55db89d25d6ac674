---------------------------- MODULE DaemonProofs ----------------------------
(***************************************************************************)
(* Proofs about the daemon.                                                *)
(*                                                                         *)
(* DaemonLifecycle: for any number of daemons and crashes, if no launch    *)
(* overlaps another daemon's start or stop.                                *)
(*                                                                         *)
(* SnapshotRestore: for any windows, first desktop, number of changes and  *)
(* restores, with faults and without.  The diff is a plan: every action    *)
(* takes a window towards its target, the actions of one window are in an  *)
(* order in which none spoils an earlier one, and nothing is missing. Each *)
(* dispatch that succeeds leaves a plan for the desktop it made; when all  *)
(* is dispatched, an empty plan is one for a desktop that agrees with the  *)
(* snapshot.                                                               *)
(*                                                                         *)
(* Accessibility: for any number of requests at once, any trees and any    *)
(* number of restarts of the bus.  Connections are counted with the drops  *)
(* still to be carried out; a walk's stack deepens towards its top; and    *)
(* what the stack stands for is what the tree still has to be listed.      *)
(***************************************************************************)
EXTENDS DaemonLifecycle, SnapshotRestore, Accessibility, SequenceLemmas,
        FiniteSetTheorems, SequenceTheorems, TLAPS

\* A daemon that has bound the socket path, and is not rid of it yet.
Holding == {"setup", "select", "drain", "cleanup"}
Holds(d) == pc[d] \in Holding

\* A value of a Notify, and one that wakes nobody.
IsNotify(n) == DOMAIN n = {"permit", "queue", "woken"} /\ n.permit \in BOOLEAN
Idle(n) == ~n.permit /\ n.woken = {}

\* The types, as far as they matter.
Shaped ==
    /\ pc \in [Daemon -> Starting \union Holding \union {"new", "refused", "exited"}]
    /\ stops \in [Daemon -> Nat]
    /\ DOMAIN notify = Daemon
    /\ \A d \in Daemon : IsNotify(notify[d])

\* Nobody is woken before a client has asked for it.
Unasked == \A d \in Daemon : stops[d] = 0 => Idle(notify[d])

\* A daemon that starts does so alone, and beside none that stops.
StartsAlone ==
    \A d \in Daemon : pc[d] \in Starting =>
        \A e \in Daemon : ~Stopping(e) /\ (pc[e] \in Starting => e = d)

\* The path names the daemon that has bound it, and nothing else is unlinked.
HolderIsNamed ==
    /\ \A d \in Daemon : Holds(d) => sock = {d}
    /\ \A d, e \in Daemon : pc[d] = "unlink" => ~Holds(e)

LifeInv == Shaped /\ Unasked /\ StartsAlone /\ HolderIsNamed

-----------------------------------------------------------------------------
(* The Notify: it wakes somebody only if notify_one was called.            *)

\* A task that begins to wait is woken at once only by a permit.
LEMMA AwaitKeeps ==
  ASSUME NEW n, IsNotify(n), NEW who
  PROVE  IsNotify(Await(n, who)) /\ (Idle(n) => Idle(Await(n, who)))
BY DEF IsNotify, Idle, Await

\* notify_one wakes a task or leaves a permit.
LEMMA NotifyKeeps ==
  ASSUME NEW n, IsNotify(n)
  PROVE  IsNotify(NotifyOne(n))
BY DEF IsNotify, NotifyOne

\* A waiter that is dropped passes on a wake-up only if it had one.
LEMMA DropKeeps ==
  ASSUME NEW n, IsNotify(n), NEW who
  PROVE  IsNotify(Drop(n, who)) /\ (Idle(n) => Idle(Drop(n, who)))
<1>1. CASE who \in n.woken
  <2> DEFINE m == [n EXCEPT !.woken = @ \ {who}]
  <2>1. IsNotify(m) /\ Drop(n, who) = NotifyOne(m)
    BY <1>1 DEF IsNotify, Drop
  <2>2. QED BY <1>1, <2>1, NotifyKeeps DEF Idle
<1>2. CASE who \notin n.woken
  BY <1>2 DEF IsNotify, Idle, Drop
<1>3. QED BY <1>1, <1>2

-----------------------------------------------------------------------------
\* Nobody runs at first.
LEMMA LifeAtFirst == Init => LifeInv
<1> SUFFICES ASSUME Init PROVE LifeInv
  OBVIOUS
<1>1. IsNotify(Quiet) /\ Idle(Quiet)
  BY DEF IsNotify, Idle, Quiet
<1>2. Shaped /\ Unasked
  BY <1>1 DEF Init, Shaped, Unasked
<1>3. StartsAlone /\ HolderIsNamed
  BY DEF Init, StartsAlone, HolderIsNamed, Holds, Holding, Starting
<1>4. QED BY <1>2, <1>3 DEF LifeInv

\* A notify that one step changes at d.
LEMMA NotifyChanges ==
  ASSUME Shaped, NEW d \in Daemon, NEW n, IsNotify(n),
         notify' = [notify EXCEPT ![d] = n]
  PROVE  /\ DOMAIN notify' = Daemon /\ \A e \in Daemon : IsNotify(notify'[e])
         /\ notify'[d] = n /\ \A e \in Daemon \ {d} : notify'[e] = notify[e]
BY DEF Shaped

\* A step of the engine's task disturbs nothing but the Notify.
LEMMA EngineKeeps ==
  ASSUME LifeInv, NEW d \in Daemon, Engine(d)
  PROVE  LifeInv'
<1>1. pc' = pc /\ sock' = sock /\ stops' = stops
  BY DEF Engine, EngineAwaits, EngineEvent, EngineNotified, EngineFails
<1>2. IsNotify(notify[d])
  BY DEF LifeInv, Shaped
<1>3. \E n : /\ notify' = [notify EXCEPT ![d] = n]
             /\ IsNotify(n) /\ (Idle(notify[d]) => Idle(n))
  <2>1. CASE EngineAwaits(d)
    BY <1>2, <2>1, AwaitKeeps DEF EngineAwaits
  <2>2. CASE EngineEvent(d) \/ EngineFails(d)
    BY <1>2, <2>2, DropKeeps DEF EngineEvent, EngineFails
  <2>3. CASE EngineNotified(d)
    <3> DEFINE n == [notify[d] EXCEPT !.woken = @ \ {"engine"}]
    <3>1. notify' = [notify EXCEPT ![d] = n]
      BY <2>3 DEF EngineNotified
    <3>2. IsNotify(n) /\ (Idle(notify[d]) => Idle(n))
      BY <1>2 DEF IsNotify, Idle
    <3>3. QED BY <3>1, <3>2
  <2>4. QED BY <2>1, <2>2, <2>3 DEF Engine
<1>4. PICK n : /\ notify' = [notify EXCEPT ![d] = n]
               /\ IsNotify(n) /\ (Idle(notify[d]) => Idle(n))
  BY <1>3
<1>5. Shaped' /\ Unasked'
  BY <1>1, <1>4, NotifyChanges DEF LifeInv, Shaped, Unasked
<1>6. StartsAlone' /\ HolderIsNamed'
  BY <1>1 DEF LifeInv, StartsAlone, HolderIsNamed, Holds, Stopping
<1>7. QED BY <1>5, <1>6 DEF LifeInv

\* The main task goes on to another place.
LEMMA Gone ==
  ASSUME Shaped, NEW d \in Daemon, NEW label, Go(d, label),
         label \in Starting \union Holding \union {"new", "refused", "exited"}
  PROVE  /\ pc' \in [Daemon -> Starting \union Holding \union {"new", "refused", "exited"}]
         /\ pc'[d] = label /\ \A e \in Daemon \ {d} : pc'[e] = pc[e]
BY DEF Shaped, Go

\* Steps of the main task that leave the Notify and the requests alone.
Quietly(d) ==
    \/ Check(d) \/ Probe(d) \/ Unlink(d) \/ Bind(d) \/ Setup(d) \/ SetupFails(d)
    \/ Drained(d) \/ DrainTimesOut(d) \/ Cleanup(d) \/ Crash(d)

\* A daemon is launched while none starts and none stops.
LEMMA LaunchKeeps ==
  ASSUME Overlap = {}, LifeInv, NEW d \in Daemon, Launch(d)
  PROVE  LifeInv'
<1>1. /\ Go(d, "check") /\ pc[d] = "new" /\ NoneStarting
      /\ \A e \in Daemon : ~Stopping(e)
      /\ UNCHANGED <<sock, notify, stops>>
  BY DEF Launch
<1>2. /\ pc' \in [Daemon -> Starting \union Holding \union {"new", "refused", "exited"}]
      /\ pc'[d] = "check" /\ \A e \in Daemon \ {d} : pc'[e] = pc[e]
  BY <1>1, Gone DEF LifeInv, Starting
<1>3. Shaped' /\ Unasked'
  BY <1>1, <1>2 DEF LifeInv, Shaped, Unasked
<1>4. StartsAlone'
  BY <1>1, <1>2 DEF StartsAlone, Starting, Stopping, NoneStarting
<1>5. HolderIsNamed'
  BY <1>1, <1>2 DEF LifeInv, HolderIsNamed, Holds, Holding
<1>6. QED BY <1>3, <1>4, <1>5 DEF LifeInv

\* Start, end and crash of the main task: the path is bound only where none
\* is, and given up only by its holder.
LEMMA QuietlyKeeps ==
  ASSUME LifeInv, NEW d \in Daemon, Quietly(d)
  PROVE  LifeInv'
<1>1. notify' = notify /\ stops' = stops
  BY DEF Quietly, Check, Probe, Unlink, Bind, Setup, SetupFails, Drained, DrainTimesOut,
         Cleanup, Crash
<1>2. PICK label \in {"probe", "unlink", "bind", "refused", "setup", "select", "cleanup",
                      "exited"} :
          /\ Go(d, label)
          /\ label \in Starting => pc[d] \in Starting
          /\ label \in {"select", "cleanup"} => Holds(d)
          /\ label = "setup" => sock = {} /\ sock' = {d}
          /\ label \in {"select", "cleanup"} => sock' = sock
          /\ label = "select" => pc[d] = "setup"
          /\ label = "unlink" => sock \cap Listening = {}
          /\ label = "cleanup" => pc[d] = "drain"
          /\ label # "setup" => \/ sock' = sock
                                \/ pc[d] = "unlink" /\ sock' = {}
                                \/ pc[d] = "cleanup" /\ sock' = {}
  <2>1. CASE Check(d) \/ Probe(d)
    BY <2>1 DEF Check, Probe, Starting
  <2>2. CASE Unlink(d) \/ Bind(d)
    BY <2>2 DEF Unlink, Bind, Starting
  <2>3. CASE Setup(d) \/ SetupFails(d)
    BY <2>3 DEF Setup, SetupFails, Starting, Holds, Holding
  <2>4. CASE Drained(d) \/ DrainTimesOut(d) \/ Cleanup(d) \/ Crash(d)
    BY <2>4 DEF Drained, DrainTimesOut, Cleanup, Crash, Starting, Holds, Holding
  <2>5. QED BY <2>1, <2>2, <2>3, <2>4 DEF Quietly
<1>3. /\ pc' \in [Daemon -> Starting \union Holding \union {"new", "refused", "exited"}]
      /\ pc'[d] = label /\ \A e \in Daemon \ {d} : pc'[e] = pc[e]
  BY <1>2, Gone DEF LifeInv, Starting, Holding
<1>4. Shaped' /\ Unasked'
  BY <1>1, <1>3 DEF LifeInv, Shaped, Unasked
<1>5. StartsAlone'
  BY <1>1, <1>2, <1>3 DEF LifeInv, StartsAlone, Stopping, Starting, Unasked, Shaped
<1>6. HolderIsNamed'
  BY <1>2, <1>3 DEF LifeInv, HolderIsNamed, StartsAlone, Holds, Holding, Stopping, Listening,
                    Starting
<1>7. QED BY <1>4, <1>5, <1>6 DEF LifeInv

\* The main task begins to wait.
LEMMA MainAwaitsKeeps ==
  ASSUME LifeInv, NEW d \in Daemon, MainAwaits(d)
  PROVE  LifeInv'
<1>1. pc' = pc /\ sock' = sock /\ stops' = stops
  BY DEF MainAwaits
<1>2. PICK n : /\ notify' = [notify EXCEPT ![d] = n]
               /\ IsNotify(n) /\ (Idle(notify[d]) => Idle(n))
  BY AwaitKeeps DEF MainAwaits, LifeInv, Shaped
<1>3. Shaped' /\ Unasked'
  BY <1>1, <1>2, NotifyChanges DEF LifeInv, Shaped, Unasked
<1>4. StartsAlone' /\ HolderIsNamed'
  BY <1>1 DEF LifeInv, StartsAlone, HolderIsNamed, Holds, Stopping
<1>5. QED BY <1>3, <1>4 DEF LifeInv

\* A request to stop is taken while none starts.
LEMMA ShutdownKeeps ==
  ASSUME Overlap = {}, LifeInv, NEW d \in Daemon, Shutdown(d)
  PROVE  LifeInv'
<1>1. /\ pc' = pc /\ sock' = sock /\ stops' = [stops EXCEPT ![d] = @ + 1] /\ NoneStarting
      /\ notify' = [notify EXCEPT ![d] = NotifyOne(@)]
  BY DEF Shutdown
<1>2. Shaped' /\ Unasked'
  <2>1. IsNotify(NotifyOne(notify[d]))
    BY NotifyKeeps DEF LifeInv, Shaped
  <2>2. /\ DOMAIN notify' = Daemon /\ \A e \in Daemon : IsNotify(notify'[e])
        /\ \A e \in Daemon \ {d} : notify'[e] = notify[e]
    BY <1>1, <2>1, NotifyChanges DEF LifeInv
  <2>3. /\ stops' \in [Daemon -> Nat] /\ stops'[d] # 0
        /\ \A e \in Daemon \ {d} : stops'[e] = stops[e]
    BY <1>1 DEF LifeInv, Shaped
  <2>4. QED BY <1>1, <2>2, <2>3 DEF LifeInv, Shaped, Unasked
<1>3. StartsAlone' /\ HolderIsNamed'
  BY <1>1 DEF LifeInv, StartsAlone, NoneStarting, HolderIsNamed, Holds
<1>4. QED BY <1>2, <1>3 DEF LifeInv

\* The main task leaves its select: none starts, for it was asked to stop or
\* is being told to.
LEMMA LeavingKeeps ==
  ASSUME Overlap = {}, LifeInv, NEW d \in Daemon, MainNotified(d) \/ MainSignalled(d)
  PROVE  LifeInv'
<1>1. /\ pc[d] = "select" /\ Go(d, "drain") /\ sock' = sock /\ stops' = stops
  BY DEF MainNotified, MainSignalled
<1>2. /\ pc' \in [Daemon -> Starting \union Holding \union {"new", "refused", "exited"}]
      /\ pc'[d] = "drain" /\ \A e \in Daemon \ {d} : pc'[e] = pc[e]
  BY <1>1, Gone DEF LifeInv, Holding
<1>3. NoneStarting
  <2>1. CASE MainNotified(d)
    <3>1. stops[d] > 0
      BY <2>1 DEF MainNotified, LifeInv, Shaped, Unasked, Idle
    <3>2. QED BY <1>1, <3>1 DEF LifeInv, StartsAlone, Stopping, NoneStarting
  <2>2. CASE MainSignalled(d)
    BY <2>2 DEF MainSignalled
  <2>3. QED BY <2>1, <2>2
<1>4. PICK n : /\ notify' = [notify EXCEPT ![d] = n]
               /\ IsNotify(n) /\ (Idle(notify[d]) => Idle(n))
  <2>1. IsNotify(notify[d])
    BY DEF LifeInv, Shaped
  <2>2. CASE MainNotified(d)
    <3> DEFINE n == [notify[d] EXCEPT !.woken = @ \ {"main"}]
    <3>1. notify' = [notify EXCEPT ![d] = n]
      BY <2>2 DEF MainNotified
    <3>2. IsNotify(n) /\ (Idle(notify[d]) => Idle(n))
      BY <2>1 DEF IsNotify, Idle
    <3>3. QED BY <3>1, <3>2
  <2>3. CASE MainSignalled(d)
    BY <2>1, <2>3, DropKeeps DEF MainSignalled
  <2>4. QED BY <2>2, <2>3
<1>5. Shaped' /\ Unasked'
  BY <1>1, <1>2, <1>4, NotifyChanges DEF LifeInv, Shaped, Unasked
<1>6. StartsAlone' /\ HolderIsNamed'
  BY <1>1, <1>2, <1>3 DEF LifeInv, StartsAlone, NoneStarting, HolderIsNamed, Holds, Holding,
                          Starting
<1>7. QED BY <1>5, <1>6 DEF LifeInv

\* Every step of a daemon keeps the invariant.
LEMMA LifeStep == ASSUME Overlap = {} PROVE LifeInv /\ [Next]_vars => LifeInv'
<1> SUFFICES ASSUME LifeInv, [Next]_vars PROVE LifeInv'
  OBVIOUS
<1>1. CASE UNCHANGED vars
  BY <1>1 DEF vars, LifeInv, Shaped, Unasked, StartsAlone, HolderIsNamed, Holds, Stopping
<1>2. ASSUME NEW d \in Daemon,
             \/ Launch(d) \/ Main(d) \/ Engine(d)
             \/ SetupFails(d) \/ Shutdown(d) \/ MainSignalled(d) \/ Crash(d)
      PROVE  LifeInv'
  BY <1>2, LaunchKeeps, QuietlyKeeps, MainAwaitsKeeps, ShutdownKeeps, LeavingKeeps, EngineKeeps
  DEF Main, Quietly
<1>3. QED BY <1>1, <1>2 DEF Next

\* At most one daemon accepts connections, whatever crashes and however many
\* are launched, if no launch overlaps a start or a stop (server.rs run()).
THEOREM OneListens == ASSUME Overlap = {} PROVE Spec => []OneDaemon
<1>1. LifeInv => OneDaemon
  <2> SUFFICES ASSUME LifeInv PROVE Cardinality(Listening) <= 1
    BY DEF OneDaemon
  <2>1. \A d, e \in Listening : d = e
    BY DEF Listening, LifeInv, HolderIsNamed, Holds, Holding
  <2>2. CASE Listening = {}
    BY <2>2, FS_EmptySet
  <2>3. CASE Listening # {}
    <3>1. PICK d \in Listening : Listening = {d}
      BY <2>1, <2>3
    <3>2. QED BY <3>1, FS_Singleton
  <2>4. QED BY <2>2, <2>3
<1>2. LifeInv /\ [Next]_vars => LifeInv'
  BY LifeStep
<1>3. QED BY <1>1, <1>2, LifeAtFirst, PTL DEF Spec

\* A daemon that serves is the one the path names, so that clients reach it
\* (server.rs run(): Check, Probe, Unlink, Bind and Cleanup).
THEOREM ServersAreReachable == ASSUME Overlap = {} PROVE Spec => []ServingIsReachable
<1>1. LifeInv => ServingIsReachable
  BY DEF LifeInv, HolderIsNamed, Holds, Holding, ServingIsReachable
<1>2. LifeInv /\ [Next]_vars => LifeInv'
  BY LifeStep
<1>3. QED BY <1>1, <1>2, LifeAtFirst, PTL DEF Spec

-----------------------------------------------------------------------------
(* Matching the windows of a snapshot (match_live_window).                 *)

\* A window that is the only candidate is one of them.
LEMMA OnlyIsMember ==
    ASSUME NEW S
    PROVE  Only(S) \in S \union {Nobody}
<1>1. CASE Cardinality(S) = 1
  <2>1. S # {}
    BY <1>1, FS_EmptySet
  <2>2. QED BY <1>1, <2>1 DEF Only
<1>2. CASE Cardinality(S) # 1
  BY <1>2 DEF Only
<1>3. QED BY <1>1, <1>2

\* A match is open and not taken yet, and it is the window itself if that is so.
LEMMA MatchIsFree ==
    ASSUME NEW w, NEW open, NEW taken
    PROVE  /\ MatchLiveWindow(w, open, taken) \in (open \ taken) \union {Nobody}
           /\ w.addr \in open \ taken => MatchLiveWindow(w, open, taken) = w.addr
<1> DEFINE free == open \ taken
           samePid == Only({a \in free : PidOf[a] = PidOf[w.addr]})
           sameId == Only({a \in free : IdOf[a] = IdOf[w.addr]})
<1>1. samePid \in free \union {Nobody} /\ sameId \in free \union {Nobody}
  <2>1. samePid \in {a \in free : PidOf[a] = PidOf[w.addr]} \union {Nobody}
    BY OnlyIsMember
  <2>2. sameId \in {a \in free : IdOf[a] = IdOf[w.addr]} \union {Nobody}
    BY OnlyIsMember
  <2>3. QED BY <2>1, <2>2
<1>2. MatchLiveWindow(w, open, taken) =
        IF w.addr \in free THEN w.addr
        ELSE IF samePid # Nobody THEN samePid ELSE sameId
  BY DEF MatchLiveWindow
<1> HIDE DEF samePid, sameId
<1>3. QED BY <1>1, <1>2

\* Matching takes the windows one after the other.
LEMMA MatchingSteps ==
    ASSUME NEW V, NEW windows \in Seq(V), NEW open
    PROVE  \E f \in [0..Len(windows) -> Seq(open \union {Nobody})] :
              /\ f[0] = <<>>
              /\ \A i \in 1..Len(windows) :
                    f[i] = Append(f[i - 1],
                                  MatchLiveWindow(windows[i], open, Range(f[i - 1])))
              /\ Matching(windows, open) = f[Len(windows)]
<1> DEFINE N == Len(windows)
           W == open \union {Nobody}
           Longer(i, s) == Append(s, MatchLiveWindow(windows[i], open, Range(s)))
           step == [p \in (1..N) \X Seq(W) |-> Longer(p[1], p[2])]
<1>1. N \in Nat /\ <<>> \in Seq(W)
  OBVIOUS
<1>2. step \in Steps(N, Seq(W))
  <2>1. ASSUME NEW i \in 1..N, NEW s \in Seq(W) PROVE Longer(i, s) \in Seq(W)
    <3>1. MatchLiveWindow(windows[i], open, Range(s)) \in W
      BY MatchIsFree
    <3>2. QED BY <3>1
  <2> HIDE DEF Longer
  <2>2. QED BY <2>1 DEF Steps
<1>3. PICK f \in [0..N -> Seq(W)] :
         f[0] = <<>> /\ \A i \in 1..N : f[i] = step[<<i, f[i - 1]>>]
  <2> HIDE DEF N, step
  <2>1. \E f : Runs(f, N, Seq(W), <<>>, step)
    BY <1>1, <1>2, StepsExist
  <2>2. QED BY <2>1 DEF Runs
<1>4. \A i \in 1..N : f[i] = Longer(i, f[i - 1])
  <2> HIDE DEF Longer
  <2>1. SUFFICES ASSUME NEW i \in 1..N PROVE f[i] = Longer(i, f[i - 1])
    OBVIOUS
  <2>2. i - 1 \in 0..N
    BY <1>1
  <2>3. <<i, f[i - 1]>> \in (1..N) \X Seq(W)
    BY <1>3, <2>2
  <2>4. QED BY <1>3, <2>3
<1> DEFINE Matches(g) == g = [i \in 0..N |-> IF i = 0 THEN <<>> ELSE Longer(i, g[i - 1])]
           matched == CHOOSE g : Matches(g)
<1>5. Matching(windows, open) = matched[N]
  BY DEF Matching
<1> HIDE DEF Longer, N
<1>6. Matches(f)
  <2>1. \A i \in 0..N : f[i] = IF i = 0 THEN <<>> ELSE Longer(i, f[i - 1])
    <3>1. \A i \in 0..N : i = 0 \/ i \in 1..N
      BY <1>1
    <3>2. QED BY <1>3, <1>4, <3>1
  <2>2. f = [i \in 0..N |-> f[i]]
    BY <1>3
  <2>3. QED BY <2>1, <2>2
<1>7. Matches(matched)
  <2> HIDE DEF Matches
  <2>1. QED BY <1>6
<1> HIDE DEF matched
<1> DEFINE S == {i \in 0..N : matched[i] = f[i]}
<1>8. 0 \in S
  BY <1>1, <1>3, <1>7
<1>9. \A i \in 1..N : i - 1 \in S => i \in S
  <2>1. SUFFICES ASSUME NEW i \in 1..N, i - 1 \in S PROVE matched[i] = f[i]
    BY <1>1
  <2>2. matched[i] = Longer(i, matched[i - 1])
    BY <1>1, <1>7
  <2>3. QED BY <1>4, <2>1, <2>2
<1>10. \A i \in 0..N : i \in S
  <2> HIDE DEF S, Matches
  <2>1. QED BY <1>1, <1>8, <1>9, UpTo
<1>11. matched[N] = f[N]
  BY <1>1, <1>10
<1>12. QED BY <1>3, <1>4, <1>5, <1>11 DEF N, Longer

\* Every window is matched to one that is open, or to none, and no two to one.
LEMMA MatchingIsInjective ==
    ASSUME NEW V, NEW windows \in Seq(V), NEW open, Nobody \notin open
    PROVE  /\ Matching(windows, open) \in Seq(open \union {Nobody})
           /\ Len(Matching(windows, open)) = Len(windows)
           /\ \A j, k \in 1..Len(windows) :
                 /\ Matching(windows, open)[j] = Matching(windows, open)[k]
                 /\ Matching(windows, open)[j] # Nobody
                 => j = k
<1> DEFINE N == Len(windows)
           W == open \union {Nobody}
           Injective(s) == \A j, k \in 1..Len(s) : s[j] = s[k] /\ s[j] # Nobody => j = k
<1>1. PICK f \in [0..N -> Seq(W)] :
         /\ f[0] = <<>>
         /\ \A i \in 1..N : f[i] = Append(f[i - 1],
                                          MatchLiveWindow(windows[i], open, Range(f[i - 1])))
         /\ Matching(windows, open) = f[N]
  BY MatchingSteps
<1> DEFINE S == {i \in 0..N : Len(f[i]) = i /\ Injective(f[i])}
<1>2. N \in Nat
  OBVIOUS
<1> HIDE DEF N
<1>3. 0 \in S
  BY <1>1, <1>2
<1>4. ASSUME NEW i \in 1..N, i - 1 \in S PROVE i \in S
  <2> DEFINE s == f[i - 1]
             m == MatchLiveWindow(windows[i], open, Range(s))
  <2>1. i - 1 \in 0..N
    BY <1>2
  <2>2. s \in Seq(W) /\ Len(s) = i - 1 /\ Injective(s)
    BY <1>1, <1>4, <2>1
  <2>3. m \in (open \ Range(s)) \union {Nobody}
    BY MatchIsFree
  <2>4. f[i] = Append(s, m)
    BY <1>1
  <2> HIDE DEF s, m
  <2>5. Len(f[i]) = i /\ f[i][i] = m /\ \A j \in 1..(i - 1) : f[i][j] = s[j]
    BY <1>2, <2>2, <2>3, <2>4
  <2>6. ASSUME NEW j \in 1..(i - 1), m # Nobody PROVE s[j] # m
    BY <2>2, <2>3, <2>6 DEF Range
  <2>7. Injective(f[i])
    <3>1. SUFFICES ASSUME NEW j \in 1..i, NEW k \in 1..i, f[i][j] = f[i][k], f[i][j] # Nobody
                   PROVE  j = k
      BY <2>5
    <3>2. (j = i \/ j \in 1..(i - 1)) /\ (k = i \/ k \in 1..(i - 1))
      BY <1>2
    <3>3. QED BY <2>2, <2>5, <2>6, <3>1, <3>2
  <2> HIDE DEF Injective
  <2>8. QED BY <1>2, <2>5, <2>7
<1>5. N \in S
  <2> HIDE DEF S
  <2>1. \A i \in 0..N : i \in S
    BY <1>2, <1>3, <1>4, UpTo
  <2>2. QED BY <1>2, <2>1
<1>6. f[N] \in Seq(W) /\ Len(f[N]) = N /\ Injective(f[N])
  BY <1>1, <1>2, <1>5
<1>7. QED BY <1>1, <1>6 DEF N

\* If all the windows are open and different, they are matched to themselves.
LEMMA MatchingIsIdentity ==
    ASSUME NEW V, NEW windows \in Seq(V), NEW open, Nobody \notin open,
           \A i \in 1..Len(windows) : windows[i].addr \in open,
           \A i, j \in 1..Len(windows) : windows[i].addr = windows[j].addr => i = j
    PROVE  \A i \in 1..Len(windows) : Matching(windows, open)[i] = windows[i].addr
<1> DEFINE N == Len(windows)
           W == open \union {Nobody}
           Same(s) == \A j \in 1..Len(s) : s[j] = windows[j].addr
<1>1. PICK f \in [0..N -> Seq(W)] :
         /\ f[0] = <<>>
         /\ \A i \in 1..N : f[i] = Append(f[i - 1],
                                          MatchLiveWindow(windows[i], open, Range(f[i - 1])))
         /\ Matching(windows, open) = f[N]
  BY MatchingSteps
<1> DEFINE S == {i \in 0..N : Len(f[i]) = i /\ Same(f[i])}
<1>2. N \in Nat
  OBVIOUS
<1>3. /\ \A i \in 1..N : windows[i].addr \in open
      /\ \A i, j \in 1..N : windows[i].addr = windows[j].addr => i = j
  OBVIOUS
<1> HIDE DEF N
<1>4. 0 \in S
  BY <1>1, <1>2
<1>5. ASSUME NEW i \in 1..N, i - 1 \in S PROVE i \in S
  <2> DEFINE s == f[i - 1]
             m == MatchLiveWindow(windows[i], open, Range(s))
  <2>1. i - 1 \in 0..N
    BY <1>2
  <2>2. s \in Seq(W) /\ Len(s) = i - 1 /\ Same(s)
    BY <1>1, <1>5, <2>1
  <2>3. windows[i].addr \in open \ Range(s)
    <3>1. SUFFICES ASSUME NEW j \in 1..(i - 1), s[j] = windows[i].addr PROVE FALSE
      BY <1>3, <2>2 DEF Range
    <3>2. j \in 1..N /\ j # i /\ s[j] = windows[j].addr
      BY <1>2, <2>2
    <3>3. QED BY <1>3, <3>1, <3>2
  <2>4. m = windows[i].addr
    BY <2>3, MatchIsFree
  <2>5. f[i] = Append(s, m)
    BY <1>1
  <2>6. m \in W
    BY <2>3, <2>4
  <2> HIDE DEF s, m
  <2>7. Len(f[i]) = i /\ f[i][i] = m /\ \A j \in 1..(i - 1) : f[i][j] = s[j]
    BY <1>2, <2>2, <2>5, <2>6
  <2>8. Same(f[i])
    <3>1. SUFFICES ASSUME NEW j \in 1..i PROVE f[i][j] = windows[j].addr
      BY <2>7
    <3>2. j = i \/ j \in 1..(i - 1)
      BY <1>2
    <3>3. QED BY <2>2, <2>4, <2>7, <3>2
  <2> HIDE DEF Same
  <2>9. QED BY <1>2, <2>7, <2>8
<1>6. N \in S
  <2> HIDE DEF S
  <2>1. \A i \in 0..N : i \in S
    BY <1>2, <1>4, <1>5, UpTo
  <2>2. QED BY <1>2, <2>1
<1>7. QED BY <1>1, <1>2, <1>6 DEF N

-----------------------------------------------------------------------------
(* Sequences of actions, and what they take a window to.                   *)

\* The windows of a snapshot, the snapshots, and the actions of a diff.
WellPlaced(s) ==
    IF s.floating THEN s.at # Layout /\ s.size # Layout
    ELSE s.at = Layout /\ s.size = Layout /\ ~s.pinned
SavedWindow == {w \in [addr : Address, ws : Workspace, floating : BOOLEAN,
                 at : {Layout} \union Geometry, size : {Layout} \union Geometry,
                 full : 0..1, pinned : BOOLEAN] : WellPlaced(w)}
Snapshot == [windows : Seq(SavedWindow), active : Address \union {Nobody}]
Action ==
    [kind : {"float", "pin", "focus"}, addr : Address]
    \union [kind : {"move"}, addr : Address, to : Workspace]
    \union [kind : {"fullscreen"}, addr : Address, to : 0..1]
    \union [kind : {"resize"}, addr : Address, to : Geometry]
    \union [kind : {"place"}, addr : Address, to : Geometry, size : Geometry]

\* The order in which the actions of one window are to be dispatched.
Rank(kind) ==
    CASE kind = "move" -> 1
      [] kind = "float" -> 2
      [] kind \in {"place", "resize"} -> 3
      [] kind = "fullscreen" -> 4
      [] kind = "pin" -> 5
      [] OTHER -> 6

InOrder(s) ==
    \A i, j \in 1..Len(s) :
        i < j /\ s[i].addr = s[j].addr => Rank(s[i].kind) < Rank(s[j].kind)

Has(T, kind, a) == \E x \in T : x.kind = kind /\ x.addr = a

\* The action takes a window in state l towards w.
Does(x, w, l) ==
    \/ x.kind = "move" /\ x.to = w.ws
    \/ x.kind = "float" /\ l.floating # w.floating
    \/ x.kind = "place" /\ w.floating /\ x.to = w.at /\ x.size = w.size
    \/ x.kind = "resize" /\ w.floating /\ x.to = w.size /\ l.at = w.at
    \/ x.kind = "fullscreen" /\ x.to = w.full
    \/ x.kind = "pin" /\ w.floating /\ l.pinned # w.pinned

\* Of what takes window a from l to w, nothing is missing in T.
Covers(T, a, w, l) ==
    /\ l.ws = w.ws \/ Has(T, "move", a)
    /\ l.floating = w.floating \/ Has(T, "float", a)
    /\ w.floating => \/ l.at = w.at /\ l.size = w.size
                     \/ Has(T, "place", a)
                     \/ l.at = w.at /\ Has(T, "resize", a)
    /\ l.full = w.full \/ Has(T, "fullscreen", a)
    /\ w.floating => (l.pinned = w.pinned \/ Has(T, "pin", a))

\* Actions that are in order stay so behind others of lower rank.
LEMMA OrderOfJoin ==
    ASSUME NEW V, NEW s \in Seq(V), NEW t \in Seq(V), InOrder(s), InOrder(t),
           \A x \in Range(s), y \in Range(t) :
              x.addr = y.addr => Rank(x.kind) < Rank(y.kind)
    PROVE  InOrder(s \o t)
<1>1. /\ Len(s \o t) = Len(s) + Len(t)
      /\ \A i \in 1..Len(s) : (s \o t)[i] = s[i]
      /\ \A i \in 1..Len(t) : (s \o t)[Len(s) + i] = t[i]
  BY ConcatProperties
<1> DEFINE u == s \o t
<1>2. Len(s) \in Nat /\ Len(t) \in Nat
  OBVIOUS
<1> HIDE DEF u
<1>3. SUFFICES ASSUME NEW i \in 1..(Len(s) + Len(t)), NEW j \in 1..(Len(s) + Len(t)),
                      i < j, u[i].addr = u[j].addr
               PROVE  Rank(u[i].kind) < Rank(u[j].kind)
  BY <1>1 DEF InOrder, u
<1>4. CASE j <= Len(s)
  <2>1. i \in 1..Len(s) /\ j \in 1..Len(s)
    BY <1>2, <1>3, <1>4
  <2>2. u[i] = s[i] /\ u[j] = s[j]
    BY <1>1, <2>1 DEF u
  <2>3. QED BY <1>3, <2>1, <2>2 DEF InOrder
<1>5. CASE i > Len(s)
  <2>1. /\ i - Len(s) \in 1..Len(t) /\ Len(s) + (i - Len(s)) = i
        /\ j - Len(s) \in 1..Len(t) /\ Len(s) + (j - Len(s)) = j
        /\ i - Len(s) < j - Len(s)
    BY <1>2, <1>3, <1>5
  <2>2. u[i] = t[i - Len(s)] /\ u[j] = t[j - Len(s)]
    BY <1>1, <2>1 DEF u
  <2>3. QED BY <1>3, <2>1, <2>2 DEF InOrder
<1>6. CASE i <= Len(s) /\ j > Len(s)
  <2>1. i \in 1..Len(s) /\ j - Len(s) \in 1..Len(t) /\ Len(s) + (j - Len(s)) = j
    BY <1>2, <1>3, <1>6
  <2>2. u[i] = s[i] /\ u[j] = t[j - Len(s)]
    BY <1>1, <2>1 DEF u
  <2>3. s[i] \in Range(s) /\ t[j - Len(s)] \in Range(t)
    BY <2>1 DEF Range
  <2>4. QED BY <1>3, <2>2, <2>3
<1>7. QED BY <1>2, <1>3, <1>4, <1>5, <1>6

\* The first action of a plan, and the rest of it.
LEMMA HeadAndTail ==
    ASSUME NEW V, NEW s \in Seq(V), s # <<>>
    PROVE  /\ Head(s) \in Range(s) /\ Tail(s) \in Seq(V)
           /\ Range(s) = {Head(s)} \union Range(Tail(s))
           /\ InOrder(s) =>
                 /\ InOrder(Tail(s))
                 /\ \A y \in Range(Tail(s)) :
                       y.addr = Head(s).addr => Rank(Head(s).kind) < Rank(y.kind)
<1> DEFINE t == Tail(s)
<1>1. Len(s) \in Nat \ {0} /\ Head(s) = s[1] /\ t \in Seq(V) /\ Len(t) = Len(s) - 1
  OBVIOUS
<1>2. \A i \in 1..Len(t) : t[i] = s[i + 1]
  OBVIOUS
<1> HIDE DEF t
<1>3. Range(s) = {Head(s)} \union Range(t)
  <2>1. ASSUME NEW i \in 1..Len(s) PROVE s[i] = Head(s) \/ s[i] \in Range(t)
    <3>1. CASE i = 1
      BY <1>1, <3>1
    <3>2. CASE i # 1
      <4>1. i - 1 \in 1..Len(t) /\ (i - 1) + 1 = i
        BY <1>1, <3>2
      <4>2. s[i] = t[i - 1]
        BY <1>2, <4>1
      <4>3. i - 1 \in DOMAIN t
        BY <1>1, <4>1
      <4>4. QED BY <4>2, <4>3 DEF Range
    <3>3. QED BY <3>1, <3>2
  <2>2. ASSUME NEW i \in 1..Len(t) PROVE t[i] \in Range(s)
    <3>1. i + 1 \in 1..Len(s)
      BY <1>1
    <3>2. QED BY <1>2, <3>1 DEF Range
  <2>3. Head(s) \in Range(s)
    BY <1>1 DEF Range
  <2>4. QED BY <1>1, <2>1, <2>2, <2>3 DEF Range
<1>4. ASSUME InOrder(s)
      PROVE  InOrder(t) /\ \A y \in Range(t) :
                y.addr = Head(s).addr => Rank(Head(s).kind) < Rank(y.kind)
  <2>1. ASSUME NEW i \in 1..Len(t), NEW j \in 1..Len(t), i < j, t[i].addr = t[j].addr
        PROVE  Rank(t[i].kind) < Rank(t[j].kind)
    <3>1. i + 1 \in 1..Len(s) /\ j + 1 \in 1..Len(s) /\ i + 1 < j + 1
      BY <1>1, <2>1
    <3>2. t[i] = s[i + 1] /\ t[j] = s[j + 1]
      BY <1>2
    <3>3. QED BY <1>4, <2>1, <3>1, <3>2 DEF InOrder
  <2>2. ASSUME NEW i \in 1..Len(t), t[i].addr = Head(s).addr
        PROVE  Rank(Head(s).kind) < Rank(t[i].kind)
    <3>1. i + 1 \in 1..Len(s) /\ 1 \in 1..Len(s) /\ 1 < i + 1
      BY <1>1
    <3>2. QED BY <1>1, <1>2, <1>4, <2>2, <3>1 DEF InOrder
  <2>3. QED BY <1>1, <2>1, <2>2 DEF InOrder, Range
<1>5. QED BY <1>1, <1>3, <1>4 DEF t

LEMMA WhenNeeded ==
    ASSUME NEW V, NEW needed, NEW x, needed => x \in V
    PROVE  /\ When(needed, x) \in Seq(V)
           /\ InOrder(When(needed, x))
           /\ Range(When(needed, x)) = IF needed THEN {x} ELSE {}
<1>1. CASE needed
  <2>1. When(needed, x) = <<x>>
    BY <1>1 DEF When
  <2>2. <<x>> \in Seq(V) /\ Len(<<x>>) = 1 /\ DOMAIN <<x>> = 1..1 /\ <<x>>[1] = x
    BY <1>1
  <2>3. InOrder(<<x>>)
    BY DEF InOrder
  <2>4. Range(<<x>>) = {x}
    BY <2>2 DEF Range
  <2>5. QED BY <1>1, <2>1, <2>2, <2>3, <2>4
<1>2. CASE ~needed
  <2>1. When(needed, x) = <<>>
    BY <1>2 DEF When
  <2>2. InOrder(<<>>) /\ Range(<<>>) = {} /\ <<>> \in Seq(V)
    BY DEF InOrder, Range
  <2>3. QED BY <1>2, <2>1, <2>2
<1>3. QED BY <1>1, <1>2

-----------------------------------------------------------------------------
(* The actions of a diff are a plan (diff_against).                        *)

\* Whether the actions of T belong to window a and take it from l to w.
Apt(T, a, w, l) == \A x \in T : x.addr = a /\ x.kind # "resize" /\ Does(x, w, l)

\* The actions of one window are in order, belong to it, and miss nothing.
LEMMA PairActionsAreApt ==
    ASSUME NEW w \in SavedWindow, NEW a \in Address, NEW l \in State
    PROVE  /\ PairActions(w, a, l) \in Seq(Action)
           /\ InOrder(PairActions(w, a, l))
           /\ Apt(Range(PairActions(w, a, l)), a, w, l)
           /\ Covers(Range(PairActions(w, a, l)), a, w, l)
<1> DEFINE m == [kind |-> "move", addr |-> a, to |-> w.ws]
           f == [kind |-> "float", addr |-> a]
           p == [kind |-> "place", addr |-> a, to |-> w.at, size |-> w.size]
           u == [kind |-> "fullscreen", addr |-> a, to |-> w.full]
           n == [kind |-> "pin", addr |-> a]
           s1 == When(l.ws # w.ws, m)
           s2 == When(l.floating # w.floating, f)
           s3 == When(w.floating /\ <<l.at, l.size>> # <<w.at, w.size>>, p)
           s4 == When(l.full # w.full, u)
           s5 == When(w.floating /\ l.pinned # w.pinned, n)
<1>1. m \in Action /\ f \in Action /\ u \in Action /\ n \in Action /\ (w.floating => p \in Action)
  <2>1. w.ws \in Workspace /\ w.full \in 0..1
    BY DEF SavedWindow
  <2>2. w.floating => w.at \in Geometry /\ w.size \in Geometry
    BY DEF SavedWindow, WellPlaced
  <2>3. QED BY <2>1, <2>2 DEF Action
<1>2. /\ Rank("move") = 1 /\ Rank("float") = 2 /\ Rank("place") = 3
      /\ Rank("fullscreen") = 4 /\ Rank("pin") = 5
  BY DEF Rank
<1>3. /\ m.kind = "move" /\ m.addr = a /\ m.to = w.ws
      /\ f.kind = "float" /\ f.addr = a
      /\ p.kind = "place" /\ p.addr = a /\ p.to = w.at /\ p.size = w.size
      /\ u.kind = "fullscreen" /\ u.addr = a /\ u.to = w.full
      /\ n.kind = "pin" /\ n.addr = a
  OBVIOUS
<1> HIDE DEF m, f, p, u, n
<1>4. s1 \in Seq(Action) /\ InOrder(s1) /\ Range(s1) = IF l.ws # w.ws THEN {m} ELSE {}
  BY <1>1, WhenNeeded
<1>5. /\ s2 \in Seq(Action) /\ InOrder(s2)
      /\ Range(s2) = IF l.floating # w.floating THEN {f} ELSE {}
  BY <1>1, WhenNeeded
<1>6. /\ s3 \in Seq(Action) /\ InOrder(s3)
      /\ Range(s3) = IF w.floating /\ <<l.at, l.size>> # <<w.at, w.size>> THEN {p} ELSE {}
  BY <1>1, WhenNeeded
<1>7. s4 \in Seq(Action) /\ InOrder(s4) /\ Range(s4) = IF l.full # w.full THEN {u} ELSE {}
  BY <1>1, WhenNeeded
<1>8. /\ s5 \in Seq(Action) /\ InOrder(s5)
      /\ Range(s5) = IF w.floating /\ l.pinned # w.pinned THEN {n} ELSE {}
  BY <1>1, WhenNeeded
<1>9. PairActions(w, a, l) = (((s1 \o s2) \o s3) \o s4) \o s5
  BY DEF PairActions, m, f, p, u, n
<1> HIDE DEF s1, s2, s3, s4, s5
<1>10. /\ \A x \in Range(s1) : x = m
       /\ \A x \in Range(s2) : x = f
       /\ \A x \in Range(s3) : x = p
       /\ \A x \in Range(s4) : x = u
       /\ \A x \in Range(s5) : x = n
  BY <1>4, <1>5, <1>6, <1>7, <1>8
<1>11. /\ s1 \o s2 \in Seq(Action) /\ InOrder(s1 \o s2)
       /\ Range(s1 \o s2) = Range(s1) \union Range(s2)
  <2>1. \A x \in Range(s1), y \in Range(s2) : Rank(x.kind) < Rank(y.kind)
    BY <1>2, <1>3, <1>10
  <2>2. QED BY <1>4, <1>5, <2>1, RangeOfJoin, OrderOfJoin
<1> DEFINE t2 == s1 \o s2
           t3 == t2 \o s3
           t4 == t3 \o s4
<1>12. PairActions(w, a, l) = t4 \o s5
  BY <1>9
<1>13. t2 \in Seq(Action) /\ InOrder(t2) /\ Range(t2) = Range(s1) \union Range(s2)
  BY <1>11
<1> HIDE DEF t2
<1>14. t3 \in Seq(Action) /\ InOrder(t3) /\ Range(t3) = Range(t2) \union Range(s3)
  <2>1. \A x \in Range(t2), y \in Range(s3) : Rank(x.kind) < Rank(y.kind)
    BY <1>2, <1>3, <1>10, <1>13
  <2>2. QED BY <1>6, <1>13, <2>1, RangeOfJoin, OrderOfJoin
<1> HIDE DEF t3
<1>15. t4 \in Seq(Action) /\ InOrder(t4) /\ Range(t4) = Range(t3) \union Range(s4)
  <2>1. \A x \in Range(t3), y \in Range(s4) : Rank(x.kind) < Rank(y.kind)
    BY <1>2, <1>3, <1>10, <1>13, <1>14
  <2>2. QED BY <1>7, <1>14, <2>1, RangeOfJoin, OrderOfJoin
<1> HIDE DEF t4
<1> DEFINE T == Range(t4 \o s5)
<1>16. t4 \o s5 \in Seq(Action) /\ InOrder(t4 \o s5) /\ T = Range(t4) \union Range(s5)
  <2>1. \A x \in Range(t4), y \in Range(s5) : Rank(x.kind) < Rank(y.kind)
    BY <1>2, <1>3, <1>10, <1>13, <1>14, <1>15
  <2>2. QED BY <1>8, <1>15, <2>1, RangeOfJoin, OrderOfJoin
<1>17. T = Range(s1) \union Range(s2) \union Range(s3) \union Range(s4) \union Range(s5)
  BY <1>13, <1>14, <1>15, <1>16
<1> HIDE DEF T
<1>18. Apt(T, a, w, l)
  <2>1. SUFFICES ASSUME NEW x \in T PROVE x.addr = a /\ x.kind # "resize" /\ Does(x, w, l)
    BY DEF Apt
  <2>2. CASE x \in Range(s1)
    BY <1>3, <1>10, <2>2 DEF Does
  <2>3. CASE x \in Range(s2)
    BY <1>3, <1>5, <2>3 DEF Does
  <2>4. CASE x \in Range(s3)
    BY <1>3, <1>6, <2>4 DEF Does
  <2>5. CASE x \in Range(s4)
    BY <1>3, <1>10, <2>5 DEF Does
  <2>6. CASE x \in Range(s5)
    BY <1>3, <1>8, <2>6 DEF Does
  <2>7. QED BY <1>17, <2>2, <2>3, <2>4, <2>5, <2>6
<1>19. Covers(T, a, w, l)
  <2>1. l.ws = w.ws \/ Has(T, "move", a)
    BY <1>3, <1>4, <1>17 DEF Has
  <2>2. l.floating = w.floating \/ Has(T, "float", a)
    BY <1>3, <1>5, <1>17 DEF Has
  <2>3. w.floating => (l.at = w.at /\ l.size = w.size) \/ Has(T, "place", a)
    BY <1>3, <1>6, <1>17 DEF Has
  <2>4. l.full = w.full \/ Has(T, "fullscreen", a)
    BY <1>3, <1>7, <1>17 DEF Has
  <2>5. w.floating => (l.pinned = w.pinned \/ Has(T, "pin", a))
    BY <1>3, <1>8, <1>17 DEF Has
  <2>6. QED BY <2>1, <2>2, <2>3, <2>4, <2>5 DEF Covers
<1>20. QED BY <1>12, <1>16, <1>18, <1>19 DEF T

-----------------------------------------------------------------------------
\* Window a stands for the i-th window of a snapshot.
Matched(ws, open, i, a) == a # Nobody /\ Matching(ws, open)[i] = a

\* The action takes the window of one of the first n of the snapshot to its place.
Justified(x, ws, l, n) ==
    \E i \in 1..n : Matched(ws, DOMAIN l, i, x.addr) /\ Does(x, ws[i], l[x.addr])

\* All that T lacks of the plan for the first n windows is done.
CoversAll(T, ws, l, n) ==
    \A i \in 1..n, a \in DOMAIN l :
        Matched(ws, DOMAIN l, i, a) => Covers(T, a, ws[i], l[a])

PlanFor(s, ws, l, n) ==
    /\ s \in Seq(Action)
    /\ InOrder(s)
    /\ \A x \in Range(s) : x.kind \notin {"resize", "focus"} /\ Justified(x, ws, l, n)
    /\ CoversAll(Range(s), ws, l, n)

\* A larger set of actions covers no less.
LEMMA CoversMore ==
    ASSUME NEW T, NEW U, T \subseteq U, NEW a, NEW w, NEW l, Covers(T, a, w, l)
    PROVE  Covers(U, a, w, l)
BY DEF Covers, Has

\* The pair actions of all windows together are a plan for all of them.
LEMMA PairsArePlan ==
    ASSUME NEW ws \in Seq(SavedWindow), NEW open \in SUBSET Address, Nobody \notin Address,
           NEW l \in [open -> State]
    PROVE  LET matched == Matching(ws, open)
           IN  PlanFor(FlattenSeq([i \in 1..Len(matched) |->
                          IF matched[i] = Nobody THEN <<>>
                          ELSE PairActions(ws[i], matched[i], l[matched[i]])]),
                       ws, l, Len(ws))
<1> DEFINE N == Len(ws)
           M == Matching(ws, open)
           Block(i) == IF M[i] = Nobody THEN <<>> ELSE PairActions(ws[i], M[i], l[M[i]])
           blocks == [i \in 1..N |-> Block(i)]
<1>1. /\ N \in Nat /\ M \in Seq(open \union {Nobody}) /\ Len(M) = N /\ Nobody \notin open
      /\ \A j, k \in 1..N : M[j] = M[k] /\ M[j] # Nobody => j = k
  <2>1. Nobody \notin open /\ N \in Nat
    OBVIOUS
  <2>2. /\ M \in Seq(open \union {Nobody}) /\ Len(M) = N
        /\ \A j, k \in 1..N : M[j] = M[k] /\ M[j] # Nobody => j = k
    <3>1. ws \in Seq(SavedWindow)
      OBVIOUS
    <3> HIDE DEF M, N
    <3>2. /\ Matching(ws, open) \in Seq(open \union {Nobody})
          /\ Len(Matching(ws, open)) = Len(ws)
          /\ \A j, k \in 1..Len(ws) :
                Matching(ws, open)[j] = Matching(ws, open)[k] /\ Matching(ws, open)[j] # Nobody
                => j = k
      BY <2>1, <3>1, MatchingIsInjective, ZenonT(60)
    <3>3. QED BY <3>2 DEF M, N
  <2>3. QED BY <2>1, <2>2
<1>2. \A i \in 1..N : ws[i] \in SavedWindow /\ (M[i] = Nobody \/ (M[i] \in open /\ M[i] # Nobody))
  BY <1>1
<1>3. DOMAIN l = open
  OBVIOUS
<1> HIDE DEF N, M
<1>4. ASSUME NEW i \in 1..N
      PROVE  /\ Block(i) \in Seq(Action) /\ InOrder(Block(i))
             /\ \A x \in Range(Block(i)) :
                   /\ x.addr = M[i] /\ M[i] # Nobody
                   /\ x.kind \notin {"resize", "focus"} /\ Does(x, ws[i], l[M[i]])
             /\ M[i] # Nobody => Covers(Range(Block(i)), M[i], ws[i], l[M[i]])
  <2>1. CASE M[i] = Nobody
    <3>1. Block(i) = <<>>
      BY <2>1
    <3>2. <<>> \in Seq(Action) /\ InOrder(<<>>) /\ Range(<<>>) = {}
      BY DEF InOrder, Range
    <3> HIDE DEF Block
    <3>3. QED BY <2>1, <3>1, <3>2
  <2>2. CASE M[i] # Nobody
    <3>1. ws[i] \in SavedWindow /\ M[i] \in Address /\ l[M[i]] \in State
      BY <1>2, <2>2
    <3>2. Block(i) = PairActions(ws[i], M[i], l[M[i]])
      BY <2>2
    <3> DEFINE s == PairActions(ws[i], M[i], l[M[i]])
    <3>3. /\ s \in Seq(Action) /\ InOrder(s) /\ Apt(Range(s), M[i], ws[i], l[M[i]])
          /\ Covers(Range(s), M[i], ws[i], l[M[i]])
      BY <3>1, PairActionsAreApt
    <3> HIDE DEF s, Block
    <3>4. ASSUME NEW x \in Range(s)
          PROVE  /\ x.addr = M[i]
                 /\ x.kind \notin {"resize", "focus"} /\ Does(x, ws[i], l[M[i]])
      BY <3>3, <3>4 DEF Apt, Does
    <3>5. QED BY <2>2, <3>2, <3>3, <3>4 DEF s
  <2>3. QED BY <2>1, <2>2
<1>5. blocks \in Seq(Seq(Action)) /\ Len(blocks) = N /\ \A i \in 1..N : blocks[i] = Block(i)
  BY <1>1, <1>4
<1>6. FlattenSeq([i \in 1..Len(M) |->
           IF M[i] = Nobody THEN <<>> ELSE PairActions(ws[i], M[i], l[M[i]])]) = FlattenSeq(blocks)
  BY <1>1
<1> HIDE DEF blocks, Block
<1>7. PICK f \in [0..N -> Seq(Action)] :
         /\ f[0] = <<>>
         /\ \A i \in 1..N : f[i] = f[i - 1] \o blocks[i]
         /\ FlattenSeq(blocks) = f[N]
  BY <1>5, FlattenSteps
<1> DEFINE S == {i \in 0..N : PlanFor(f[i], ws, l, i)}
<1>8. 0 \in S
  <2>1. PlanFor(<<>>, ws, l, 0)
    <3>1. <<>> \in Seq(Action) /\ InOrder(<<>>) /\ Range(<<>>) = {}
      BY DEF InOrder, Range
    <3>2. CoversAll({}, ws, l, 0)
      BY DEF CoversAll
    <3>3. QED BY <3>1, <3>2 DEF PlanFor
  <2>2. QED BY <1>1, <1>7, <2>1
<1>9. ASSUME NEW i \in 1..N, i - 1 \in S PROVE i \in S
  <2> DEFINE s == f[i - 1]
             b == blocks[i]
  <2>1. i - 1 \in 0..N
    BY <1>1
  <2>2. PlanFor(s, ws, l, i - 1) /\ s \in Seq(Action)
    BY <1>7, <1>9, <2>1
  <2>3. /\ b \in Seq(Action) /\ InOrder(b)
        /\ \A x \in Range(b) :
              /\ x.addr = M[i] /\ M[i] # Nobody
              /\ x.kind \notin {"resize", "focus"} /\ Does(x, ws[i], l[M[i]])
        /\ M[i] # Nobody => Covers(Range(b), M[i], ws[i], l[M[i]])
    BY <1>4, <1>5
  <2>4. f[i] = s \o b
    BY <1>7
  <2> HIDE DEF s, b
  <2>5. f[i] \in Seq(Action) /\ Range(f[i]) = Range(s) \union Range(b)
    BY <2>2, <2>3, <2>4, RangeOfJoin
  <2>6. ASSUME NEW x \in Range(s), NEW y \in Range(b) PROVE x.addr # y.addr
    <3>1. PICK j \in 1..(i - 1) : Matched(ws, DOMAIN l, j, x.addr)
      BY <2>2 DEF PlanFor, Justified
    <3>2. x.addr # Nobody /\ M[j] = x.addr /\ j \in 1..N /\ j # i
      BY <1>1, <1>3, <3>1 DEF Matched, M
    <3>3. y.addr = M[i] /\ M[i] # Nobody
      BY <2>3
    <3>4. QED BY <1>1, <3>2, <3>3
  <2>7. InOrder(f[i])
    <3>1. InOrder(s)
      BY <2>2 DEF PlanFor
    <3>2. QED BY <2>2, <2>3, <2>4, <2>6, <3>1, OrderOfJoin
  <2>8. ASSUME NEW x \in Range(f[i])
        PROVE  x.kind \notin {"resize", "focus"} /\ Justified(x, ws, l, i)
    <3>1. CASE x \in Range(s)
      <4>1. 1..(i - 1) \subseteq 1..i
        BY <1>1
      <4>2. QED BY <2>2, <3>1, <4>1 DEF PlanFor, Justified
    <3>2. CASE x \in Range(b)
      <4>1. Matched(ws, DOMAIN l, i, x.addr) /\ Does(x, ws[i], l[x.addr])
        BY <1>3, <2>3, <3>2 DEF Matched, M
      <4>2. i \in 1..i
        BY <1>1
      <4>3. QED BY <2>3, <3>2, <4>1, <4>2 DEF Justified
    <3>3. QED BY <2>5, <3>1, <3>2
  <2>9. CoversAll(Range(f[i]), ws, l, i)
    <3>1. SUFFICES ASSUME NEW j \in 1..i, NEW a \in DOMAIN l, Matched(ws, DOMAIN l, j, a)
                   PROVE  Covers(Range(f[i]), a, ws[j], l[a])
      BY DEF CoversAll
    <3>2. CASE j = i
      <4>1. a = M[i] /\ M[i] # Nobody
        BY <1>3, <3>1, <3>2 DEF Matched, M
      <4>2. Covers(Range(b), a, ws[j], l[a])
        BY <2>3, <3>2, <4>1
      <4>3. QED BY <2>5, <4>2, CoversMore
    <3>3. CASE j # i
      <4>1. j \in 1..(i - 1)
        BY <1>1, <3>3
      <4>2. Covers(Range(s), a, ws[j], l[a])
        BY <2>2, <3>1, <4>1 DEF PlanFor, CoversAll
      <4>3. QED BY <2>5, <4>2, CoversMore
    <3>4. QED BY <3>2, <3>3
  <2>10. PlanFor(f[i], ws, l, i)
    BY <2>5, <2>7, <2>8, <2>9 DEF PlanFor
  <2>11. i \in 0..N
    BY <1>1
  <2>12. QED BY <2>10, <2>11
<1>10. N \in S
  <2> HIDE DEF S
  <2>1. \A i \in 0..N : i \in S
    BY <1>1, <1>8, <1>9, UpTo
  <2>2. QED BY <1>1, <2>1
<1>11. PlanFor(f[N], ws, l, N)
  BY <1>10
<1>12. QED BY <1>6, <1>7, <1>11 DEF N, M

-----------------------------------------------------------------------------
(* One dispatch of the plan (apply_diff).                                  *)

\* The diff is a plan for all windows, with the focus behind it if it is needed.
LEMMA DiffIsPlan ==
    ASSUME NEW snap \in Snapshot, NEW open \in SUBSET Address, Nobody \notin Address,
           NEW l \in [open -> State], NEW f
    PROVE  LET s == DiffAgainst(snap, l, f)
           IN  /\ s \in Seq(Action) /\ InOrder(s)
               /\ \A x \in Range(s) :
                     /\ x.kind # "resize"
                     /\ IF x.kind = "focus" THEN x.addr = snap.active
                        ELSE Justified(x, snap.windows, l, Len(snap.windows))
               /\ CoversAll(Range(s), snap.windows, l, Len(snap.windows))
               /\ snap.active # f /\ snap.active \in open => Has(Range(s), "focus", snap.active)
<1> DEFINE ws == snap.windows
           matched == Matching(ws, open)
           p == FlattenSeq([i \in 1..Len(matched) |->
                    IF matched[i] = Nobody THEN <<>>
                    ELSE PairActions(ws[i], matched[i], l[matched[i]])])
           x == [kind |-> "focus", addr |-> snap.active]
           q == When(snap.active # f /\ snap.active \in open, x)
<1>1. DOMAIN l = open /\ ws \in Seq(SavedWindow)
  BY DEF Snapshot
<1>2. DiffAgainst(snap, l, f) = p \o q
  BY <1>1 DEF DiffAgainst, FocusActions
<1>3. PlanFor(p, ws, l, Len(ws))
  BY <1>1, PairsArePlan
<1>4. snap.active \in open => x \in Action
  BY DEF Action
<1>5. x.kind = "focus" /\ x.addr = snap.active
  OBVIOUS
<1> HIDE DEF x
<1>6. /\ q \in Seq(Action) /\ InOrder(q)
      /\ Range(q) = IF snap.active # f /\ snap.active \in open THEN {x} ELSE {}
  BY <1>4, WhenNeeded
<1> HIDE DEF p, q, ws, matched
<1>7. /\ p \in Seq(Action) /\ InOrder(p) /\ CoversAll(Range(p), ws, l, Len(ws))
      /\ \A y \in Range(p) : y.kind \notin {"resize", "focus"} /\ Justified(y, ws, l, Len(ws))
  BY <1>3 DEF PlanFor
<1>8. p \o q \in Seq(Action) /\ Range(p \o q) = Range(p) \union Range(q)
  BY <1>6, <1>7, RangeOfJoin
<1>9. InOrder(p \o q)
  <2>1. ASSUME NEW y \in Range(p), NEW z \in Range(q) PROVE Rank(y.kind) < Rank(z.kind)
    <3>1. z.kind = "focus"
      BY <1>5, <1>6
    <3>2. Rank("focus") = 6
      BY DEF Rank
    <3>3. Justified(y, ws, l, Len(ws))
      BY <1>7
    <3>4. y.kind \in {"move", "float", "place", "resize", "fullscreen", "pin"}
      BY <3>3 DEF Justified, Does
    <3>5. Rank(y.kind) \in 1..5
      BY <3>4 DEF Rank
    <3>6. QED BY <3>1, <3>2, <3>5
  <2>2. QED BY <1>6, <1>7, <2>1, OrderOfJoin
<1>10. CoversAll(Range(p \o q), ws, l, Len(ws))
  <2>1. Range(p) \subseteq Range(p \o q)
    BY <1>8
  <2>2. ASSUME NEW i \in 1..Len(ws), NEW a \in DOMAIN l, Matched(ws, DOMAIN l, i, a)
        PROVE  Covers(Range(p \o q), a, ws[i], l[a])
    <3>1. Covers(Range(p), a, ws[i], l[a])
      BY <1>7, <2>2 DEF CoversAll
    <3>2. QED BY <2>1, <3>1, CoversMore
  <2>3. QED BY <2>2 DEF CoversAll
<1>11. ASSUME NEW y \in Range(p \o q)
       PROVE  /\ y.kind # "resize"
              /\ IF y.kind = "focus" THEN y.addr = snap.active ELSE Justified(y, ws, l, Len(ws))
  BY <1>5, <1>6, <1>7, <1>8
<1>12. snap.active # f /\ snap.active \in open => Has(Range(p \o q), "focus", snap.active)
  BY <1>5, <1>6, <1>8 DEF Has
<1>13. QED BY <1>2, <1>8, <1>9, <1>10, <1>11, <1>12 DEF ws

-----------------------------------------------------------------------------
\* What the dispatch of action x makes of its window, in state o before, r after.
Effect(x, o, r) ==
    \/ /\ x.kind = "move"
       /\ r.ws = x.to /\ r.floating = o.floating /\ r.at = o.at /\ r.size = o.size
       /\ r.full = o.full /\ r.pinned = o.pinned
    \/ /\ x.kind = "float"
       /\ r.ws = o.ws /\ r.floating # o.floating /\ r.full = o.full
       /\ r.floating => r.pinned = o.pinned
    \/ /\ x.kind = "place"
       /\ r.ws = o.ws /\ r.floating = o.floating /\ r.size = o.size
       /\ r.full = o.full /\ r.pinned = o.pinned /\ (o.floating => r.at = x.to)
    \/ /\ x.kind = "resize"
       /\ r.ws = o.ws /\ r.floating = o.floating /\ r.at = o.at
       /\ r.full = o.full /\ r.pinned = o.pinned /\ (o.floating => r.size = x.to)
    \/ /\ x.kind = "fullscreen"
       /\ r.ws = o.ws /\ r.floating = o.floating /\ r.at = o.at /\ r.size = o.size
       /\ r.full = x.to /\ r.pinned = o.pinned
    \/ /\ x.kind = "pin"
       /\ r.ws = o.ws /\ r.floating = o.floating /\ r.at = o.at /\ r.size = o.size
       /\ r.full = o.full /\ r.pinned # o.pinned
    \/ x.kind = "focus" /\ r = o

Kind == {"move", "float", "place", "resize", "fullscreen", "pin", "focus"}

LEMMA RankOfKind ==
    /\ Rank("move") = 1 /\ Rank("float") = 2 /\ Rank("place") = 3 /\ Rank("resize") = 3
    /\ Rank("fullscreen") = 4 /\ Rank("pin") = 5 /\ Rank("focus") = 6
BY DEF Rank

\* Fields of an entry and of a window's state.
LEMMA EntryFields ==
    ASSUME NEW w \in SavedWindow
    PROVE  /\ w.floating \in BOOLEAN /\ w.pinned \in BOOLEAN
           /\ w.floating => w.at # Layout /\ w.size # Layout
           /\ ~w.floating => w.at = Layout /\ w.size = Layout /\ ~w.pinned
BY DEF SavedWindow, WellPlaced

LEMMA StateFields ==
    ASSUME NEW s \in State
    PROVE  /\ s.floating \in BOOLEAN /\ s.pinned \in BOOLEAN
           /\ s.floating => s.at # Layout /\ s.size # Layout
           /\ ~s.floating => s.at = Layout /\ s.size = Layout /\ ~s.pinned
BY DEF State

\* Once the first action for a window is dispatched, the others still take it
\* to w, and nothing is missing; after a move, the resize is to come.
LEMMA CoversStep ==
    ASSUME NEW w \in SavedWindow, NEW o \in State, NEW r \in State, NEW U,
           NEW h, h.kind \in Kind, Effect(h, o, r),
           \A y \in U : y.kind \in Kind /\ y.kind # "resize",
           \A y \in U : y.addr = h.addr => Rank(h.kind) < Rank(y.kind),
           \A y \in {h} \union U : y.addr = h.addr /\ y.kind # "focus" => Does(y, w, o),
           Covers({h} \union U, h.addr, w, o)
    PROVE  LET V == Range(Rest(h)) \union U
           IN  /\ Covers(V, h.addr, w, r)
               /\ \A y \in V : y.addr = h.addr /\ y.kind # "focus" => Does(y, w, r)
<1> DEFINE a == h.addr
           T == {h} \union U
           V == Range(Rest(h)) \union U
           c == [kind |-> "resize", addr |-> a, to |-> h.size]
<1>1. /\ w.floating \in BOOLEAN /\ w.pinned \in BOOLEAN
      /\ w.floating => w.at # Layout /\ w.size # Layout
      /\ ~w.floating => w.at = Layout /\ w.size = Layout /\ ~w.pinned
  BY EntryFields
<1>2. /\ o.floating \in BOOLEAN /\ o.pinned \in BOOLEAN
      /\ o.floating => o.at # Layout /\ o.size # Layout
      /\ ~o.floating => o.at = Layout /\ o.size = Layout /\ ~o.pinned
  BY StateFields
<1>3. /\ r.floating \in BOOLEAN /\ r.pinned \in BOOLEAN
      /\ r.floating => r.at # Layout /\ r.size # Layout
      /\ ~r.floating => r.at = Layout /\ r.size = Layout /\ ~r.pinned
  BY StateFields
<1>4. c.kind = "resize" /\ c.addr = a /\ c.to = h.size
  OBVIOUS
<1>5. Range(Rest(h)) = IF h.kind = "place" THEN {c} ELSE {}
  <2>1. CASE h.kind = "place"
    <3>1. Rest(h) = <<c>> /\ DOMAIN <<c>> = 1..1 /\ <<c>>[1] = c
      BY <2>1 DEF Rest
    <3> HIDE DEF c
    <3>2. QED BY <2>1, <3>1 DEF Range
  <2>2. CASE h.kind # "place"
    <3>1. Rest(h) = <<>>
      BY <2>2 DEF Rest
    <3>2. QED BY <2>2, <3>1 DEF Range
  <2>3. QED BY <2>1, <2>2
<1> HIDE DEF c
<1>6. U \subseteq V /\ \A y \in V : y \in U \/ (h.kind = "place" /\ y = c)
  BY <1>5
<1>7. h.kind = "place" => c \in V
  BY <1>5
<1> HIDE DEF V, a
<1>8. \A k \in Kind : Has(T, k, a) => h.kind = k \/ Has(U, k, a)
  BY DEF Has, a
<1>9. \A k \in Kind : Has(U, k, a) => Has(V, k, a) /\ Rank(h.kind) < Rank(k)
  BY <1>6 DEF Has, a
<1>10. ~Has(U, "resize", a)
  BY DEF Has
<1>11. /\ o.ws = w.ws \/ Has(T, "move", a)
       /\ o.floating = w.floating \/ Has(T, "float", a)
       /\ w.floating => \/ o.at = w.at /\ o.size = w.size
                        \/ Has(T, "place", a)
                        \/ o.at = w.at /\ Has(T, "resize", a)
       /\ o.full = w.full \/ Has(T, "fullscreen", a)
       /\ w.floating => (o.pinned = w.pinned \/ Has(T, "pin", a))
  BY DEF Covers, a
<1>12. h.kind # "focus" => Does(h, w, o)
  OBVIOUS
<1>13. \A y \in U : y.addr = a /\ y.kind # "focus" => Does(y, w, o) /\ Rank(h.kind) < Rank(y.kind)
  BY DEF a
<1> HIDE DEF T
<1>14. \A k \in Kind : Has(T, k, a) => h.kind = k \/ Has(V, k, a)
  BY <1>8, <1>9
<1>15. {"move", "float", "place", "resize", "fullscreen", "pin"} \subseteq Kind
  BY DEF Kind
<1>16. Covers(V, a, w, r)
  <2>1. r.ws = w.ws \/ Has(V, "move", a)
    BY <1>11, <1>12, <1>14, <1>15 DEF Effect, Does
  <2>2. r.floating = w.floating \/ Has(V, "float", a)
    BY <1>1, <1>2, <1>3, <1>11, <1>12, <1>14, <1>15 DEF Effect, Does
  <2>3. ASSUME w.floating
        PROVE  \/ r.at = w.at /\ r.size = w.size
               \/ Has(V, "place", a)
               \/ r.at = w.at /\ Has(V, "resize", a)
    <3>1. CASE h.kind = "place"
      <4>1. ~Has(U, "float", a)
        BY <1>9, <1>15, <3>1, RankOfKind
      <4>2. o.floating
        BY <1>1, <1>2, <1>8, <1>11, <1>15, <2>3, <3>1, <4>1
      <4>3. r.at = w.at
        BY <1>12, <3>1, <4>2 DEF Effect, Does
      <4>4. Has(V, "resize", a)
        BY <1>4, <1>7, <3>1 DEF Has
      <4>5. QED BY <4>3, <4>4
    <3>2. CASE h.kind = "resize"
      <4>1. ~Has(U, "float", a)
        BY <1>9, <1>15, <3>2, RankOfKind
      <4>2. o.floating
        BY <1>1, <1>2, <1>8, <1>11, <1>15, <2>3, <3>2, <4>1
      <4>3. r.at = w.at /\ r.size = w.size
        BY <1>12, <3>2, <4>2 DEF Effect, Does
      <4>4. QED BY <4>3
    <3>3. CASE h.kind = "float"
      <4>1. o.at # w.at
        BY <1>1, <1>2, <1>12, <2>3, <3>3 DEF Does
      <4>2. QED BY <1>11, <1>14, <1>15, <2>3, <3>3, <4>1
    <3>4. CASE h.kind \notin {"place", "resize", "float"}
      <4>1. r.at = o.at /\ r.size = o.size
        BY <3>4 DEF Effect
      <4>2. QED BY <1>11, <1>14, <1>15, <2>3, <3>4, <4>1
    <3>5. QED BY <3>1, <3>2, <3>3, <3>4
  <2>4. r.full = w.full \/ Has(V, "fullscreen", a)
    BY <1>11, <1>12, <1>14, <1>15 DEF Effect, Does
  <2>5. ASSUME w.floating PROVE r.pinned = w.pinned \/ Has(V, "pin", a)
    <3>1. CASE h.kind = "pin"
      BY <1>1, <1>2, <1>3, <1>12, <2>5, <3>1 DEF Effect, Does
    <3>2. CASE h.kind = "float"
      <4>1. r.floating
        BY <1>1, <1>2, <1>3, <1>12, <2>5, <3>2 DEF Effect, Does
      <4>2. r.pinned = o.pinned
        BY <3>2, <4>1 DEF Effect
      <4>3. QED BY <1>11, <1>14, <1>15, <2>5, <3>2, <4>2
    <3>3. CASE h.kind \notin {"pin", "float"}
      <4>1. r.pinned = o.pinned
        BY <3>3 DEF Effect
      <4>2. QED BY <1>11, <1>14, <1>15, <2>5, <3>3, <4>1
    <3>4. QED BY <3>1, <3>2, <3>3
  <2>6. QED BY <2>1, <2>2, <2>3, <2>4, <2>5 DEF Covers
<1>17. ASSUME NEW y \in V, y.addr = a, y.kind # "focus" PROVE Does(y, w, r)
  <2>1. CASE h.kind = "place" /\ y = c
    <3>1. ~Has(U, "float", a)
      BY <1>9, <1>15, <2>1, RankOfKind
    <3>2. w.floating /\ h.to = w.at /\ h.size = w.size
      BY <1>12, <2>1 DEF Does
    <3>3. o.floating
      BY <1>1, <1>2, <1>8, <1>11, <1>15, <2>1, <3>1, <3>2
    <3>4. r.at = w.at
      BY <2>1, <3>2, <3>3 DEF Effect
    <3>5. QED BY <1>4, <2>1, <3>2, <3>4 DEF Does
  <2>2. CASE y \in U
    <3>1. Does(y, w, o) /\ Rank(h.kind) < Rank(y.kind) /\ y.kind # "resize"
      BY <1>13, <1>17, <2>2
    <3>2. y.kind = "float" => h.kind = "move"
      BY <3>1, RankOfKind DEF Kind
    <3>3. y.kind = "float" => Does(y, w, r)
      BY <3>1, <3>2 DEF Does, Effect
    <3>4. ASSUME y.kind = "pin" PROVE Does(y, w, r)
      <4>1. w.floating /\ o.pinned # w.pinned
        BY <3>1, <3>4 DEF Does
      <4>2. h.kind # "pin" /\ h.kind # "focus"
        BY <3>1, <3>4, RankOfKind
      <4>3. CASE h.kind = "float"
        <5>1. r.floating
          BY <1>1, <1>2, <1>3, <1>12, <4>1, <4>3 DEF Effect, Does
        <5>2. QED BY <3>4, <4>1, <4>3, <5>1 DEF Effect, Does
      <4>4. CASE h.kind # "float"
        BY <3>4, <4>1, <4>2, <4>4 DEF Effect, Does
      <4>5. QED BY <4>3, <4>4
    <3>5. QED BY <3>1, <3>3, <3>4 DEF Does
  <2>3. QED BY <1>6, <2>1, <2>2
<1>18. QED BY <1>16, <1>17 DEF V, a

-----------------------------------------------------------------------------
(* What is left of a plan stays on course, for the windows and the focus.  *)

LEMMA KindOfAction ==
    ASSUME NEW x \in Action
    PROVE  /\ x.kind \in Kind /\ x.addr \in Address
           /\ x.kind = "move" => x.to \in Workspace
           /\ x.kind = "fullscreen" => x.to \in 0..1
           /\ x.kind = "resize" => x.to \in Geometry
           /\ x.kind = "place" => x.to \in Geometry /\ x.size \in Geometry
<1>1. CASE x \in [kind : {"float", "pin", "focus"}, addr : Address]
  BY <1>1 DEF Kind
<1>2. CASE x \in [kind : {"move"}, addr : Address, to : Workspace]
  BY <1>2 DEF Kind
<1>3. CASE x \in [kind : {"fullscreen"}, addr : Address, to : 0..1]
  BY <1>3 DEF Kind
<1>4. CASE x \in [kind : {"resize"}, addr : Address, to : Geometry]
  BY <1>4 DEF Kind
<1>5. CASE x \in [kind : {"place"}, addr : Address, to : Geometry, size : Geometry]
  BY <1>5 DEF Kind
<1>6. QED BY <1>1, <1>2, <1>3, <1>4, <1>5 DEF Action

\* What the matching of a snapshot is.
LEMMA MatchingOfSnapshot ==
    ASSUME NEW snap \in Snapshot, NEW open \in SUBSET Address, Nobody \notin Address
    PROVE  LET M == Matching(snap.windows, open)
               N == Len(snap.windows)
           IN  /\ M \in Seq(open \union {Nobody}) /\ Len(M) = N
               /\ \A j, k \in 1..N : M[j] = M[k] /\ M[j] # Nobody => j = k
<1> DEFINE ws == snap.windows
<1>1. ws \in Seq(SavedWindow)
  BY DEF Snapshot
<1>2. Nobody \notin open
  OBVIOUS
<1> HIDE DEF ws
<1>3. /\ Matching(ws, open) \in Seq(open \union {Nobody})
      /\ Len(Matching(ws, open)) = Len(ws)
      /\ \A j, k \in 1..Len(ws) :
            (Matching(ws, open)[j] = Matching(ws, open)[k] /\ Matching(ws, open)[j] # Nobody)
            => j = k
  BY <1>1, <1>2, MatchingIsInjective
<1>4. QED BY <1>3 DEF ws

\* What is left of a plan takes the desktop to the snapshot.
OnCourse(s, snap, l) ==
    /\ s \in Seq(Action) /\ InOrder(s)
    /\ s # <<>> => \A x \in Range(Tail(s)) : x.kind # "resize"
    /\ \A x \in Range(s) :
          IF x.kind = "focus" THEN x.addr = snap.active
          ELSE Justified(x, snap.windows, l, Len(snap.windows))
    /\ CoversAll(Range(s), snap.windows, l, Len(snap.windows))

\* A plan stays on course when its first action is dispatched.
LEMMA OnCourseStep ==
    ASSUME NEW snap \in Snapshot, NEW open \in SUBSET Address, Nobody \notin Address,
           NEW l \in [open -> State], NEW r \in [open -> State],
           NEW s, OnCourse(s, snap, l), s # <<>>,
           Head(s).addr \in open,
           Effect(Head(s), l[Head(s).addr], r[Head(s).addr]),
           \A b \in open \ {Head(s).addr} : r[b] = l[b]
    PROVE  OnCourse(Rest(Head(s)) \o Tail(s), snap, r)
<1> DEFINE h == Head(s)
           a == h.addr
           t == Tail(s)
           T == Range(s)
           U == Range(t)
           rest == Rest(h)
           V == Range(rest) \union U
           ws == snap.windows
           N == Len(ws)
           M == Matching(ws, open)
           c == [kind |-> "resize", addr |-> a, to |-> h.size]
<1>1. ws \in Seq(SavedWindow) /\ N \in Nat /\ \A i \in 1..N : ws[i] \in SavedWindow
  <2>1. ws \in Seq(SavedWindow)
    BY DEF Snapshot
  <2>2. QED BY <2>1
<1>2. /\ M \in Seq(open \union {Nobody}) /\ Len(M) = N
      /\ \A j, k \in 1..N : M[j] = M[k] /\ M[j] # Nobody => j = k
  BY MatchingOfSnapshot
<1>3. \A i \in 1..N : M[i] = Nobody \/ M[i] \in open
  BY <1>1, <1>2
<1>4. /\ s \in Seq(Action) /\ InOrder(s) /\ (\A x \in U : x.kind # "resize")
      /\ (\A x \in T : IF x.kind = "focus" THEN x.addr = snap.active ELSE Justified(x, ws, l, N))
      /\ CoversAll(T, ws, l, N)
  BY DEF OnCourse
<1>5. /\ h \in T /\ t \in Seq(Action) /\ T = {h} \union U /\ InOrder(t)
      /\ \A y \in U : y.addr = a => Rank(h.kind) < Rank(y.kind)
  BY <1>4, HeadAndTail
<1>6. DOMAIN l = open /\ DOMAIN r = open
  OBVIOUS
<1>7. /\ a \in open /\ l[a] \in State /\ r[a] \in State /\ Effect(h, l[a], r[a])
      /\ \A b \in open : b # a => r[b] = l[b]
  OBVIOUS
<1>8. \A x \in T : x \in Action
  BY <1>4 DEF Range
<1>9. h \in Action /\ h.kind \in Kind /\ \A y \in U : y.kind \in Kind
  BY <1>5, <1>8, KindOfAction
<1>10. c.kind = "resize" /\ c.addr = a
  OBVIOUS
<1>11. /\ rest \in Seq(Action) /\ InOrder(rest)
       /\ rest = IF h.kind = "place" THEN <<c>> ELSE <<>>
       /\ Range(rest) = IF h.kind = "place" THEN {c} ELSE {}
  <2>1. h.kind = "place" => c \in Action
    <3>1. h.kind = "place" => h.size \in Geometry /\ h.addr \in Address
      BY <1>9, KindOfAction
    <3>2. QED BY <3>1 DEF Action
  <2>2. rest = When(h.kind = "place", c)
    BY DEF Rest, When
  <2>3. rest = IF h.kind = "place" THEN <<c>> ELSE <<>>
    BY DEF Rest
  <2> DEFINE q == When(h.kind = "place", c)
  <2> HIDE DEF c, h
  <2>4. /\ q \in Seq(Action) /\ InOrder(q)
        /\ Range(q) = IF h.kind = "place" THEN {c} ELSE {}
    BY <2>1, WhenNeeded
  <2>5. QED BY <2>2, <2>3, <2>4
<1> HIDE DEF rest, c, h, a, t, T, U, ws, N, M
<1>12. rest \o t \in Seq(Action) /\ Range(rest \o t) = V
  BY <1>5, <1>11, RangeOfJoin DEF U
<1>13. InOrder(rest \o t)
  <2>1. ASSUME NEW x \in Range(rest), NEW y \in Range(t), x.addr = y.addr
        PROVE  Rank(x.kind) < Rank(y.kind)
    <3>1. h.kind = "place" /\ x.kind = "resize" /\ x.addr = a
      BY <1>10, <1>11
    <3>2. Rank(h.kind) < Rank(y.kind)
      BY <1>5, <2>1, <3>1 DEF U
    <3>3. QED BY <3>1, <3>2, RankOfKind
  <2>2. QED BY <1>5, <1>11, <2>1, OrderOfJoin
<1>14. rest \o t # <<>> => \A x \in Range(Tail(rest \o t)) : x.kind # "resize"
  <2>1. CASE h.kind = "place"
    <3>1. rest = <<c>>
      BY <1>11, <2>1
    <3>2. Tail(<<c>> \o t) = t
      BY <1>5
    <3>3. QED BY <1>4, <3>1, <3>2 DEF U
  <2>2. CASE h.kind # "place"
    <3>1. rest \o t = t
      BY <1>5, <1>11, <2>2
    <3>2. t # <<>> => Range(Tail(t)) \subseteq Range(t)
      BY <1>5, HeadAndTail
    <3>3. QED BY <1>4, <3>1, <3>2 DEF U
  <2>3. QED BY <2>1, <2>2
\* The windows other than the one the action is for.
<1>15. ASSUME NEW k \in Kind, NEW b, b # a, Has(T, k, b) PROVE Has(V, k, b)
  BY <1>5, <1>15 DEF Has, a
<1>16. ASSUME NEW i \in 1..N, Matched(ws, open, i, a)
       PROVE  /\ Covers(V, a, ws[i], r[a])
              /\ \A y \in V : y.addr = a /\ y.kind # "focus" => Does(y, ws[i], r[a])
  <2>1. ASSUME NEW y \in T, y.addr = a, y.kind # "focus" PROVE Does(y, ws[i], l[a])
    <3>1. PICK j \in 1..N : Matched(ws, open, j, a) /\ Does(y, ws[j], l[a])
      BY <1>4, <1>6, <2>1 DEF Justified
    <3>2. M[i] = a /\ M[j] = a /\ a # Nobody
      BY <1>16, <3>1 DEF Matched, M
    <3>3. j = i
      BY <1>2, <3>2
    <3>4. QED BY <3>1, <3>3
  <2>2. Covers(T, a, ws[i], l[a])
    BY <1>4, <1>6, <1>7, <1>16 DEF CoversAll
  <2>3. ws[i] \in SavedWindow
    BY <1>1
  <2> DEFINE w == ws[i]
             o == l[a]
             q == r[a]
  <2>4. /\ w \in SavedWindow /\ o \in State /\ q \in State /\ Effect(h, o, q)
        /\ Covers({h} \union U, h.addr, w, o)
        /\ \A y \in {h} \union U : y.addr = h.addr /\ y.kind # "focus" => Does(y, w, o)
        /\ \A y \in U : y.kind \in Kind /\ y.kind # "resize"
        /\ \A y \in U : y.addr = h.addr => Rank(h.kind) < Rank(y.kind)
        /\ h.kind \in Kind
    BY <1>4, <1>5, <1>7, <1>9, <2>1, <2>2, <2>3 DEF a
  <2> HIDE DEF w, o, q
  <2>5. LET Z == Range(Rest(h)) \union U
        IN  /\ Covers(Z, h.addr, w, q)
            /\ \A y \in Z : y.addr = h.addr /\ y.kind # "focus" => Does(y, w, q)
    BY <2>4, CoversStep
  <2>6. QED BY <2>5 DEF w, q, a, rest
<1>17. CoversAll(V, ws, r, N)
  <2>1. SUFFICES ASSUME NEW i \in 1..N, NEW b \in open, Matched(ws, open, i, b)
                 PROVE  Covers(V, b, ws[i], r[b])
    BY <1>6 DEF CoversAll
  <2>2. CASE b = a
    BY <1>16, <2>1, <2>2
  <2>3. CASE b # a
    <3>1. Covers(T, b, ws[i], l[b]) /\ r[b] = l[b]
      BY <1>4, <1>6, <1>7, <2>1, <2>3 DEF CoversAll
    <3>2. \A k \in {"move", "float", "place", "resize", "fullscreen", "pin"} :
             Has(T, k, b) => Has(V, k, b)
      BY <1>15, <2>3 DEF Kind
    <3>3. QED BY <3>1, <3>2 DEF Covers
  <2>4. QED BY <2>2, <2>3
<1>18. ASSUME NEW y \in V
       PROVE  IF y.kind = "focus" THEN y.addr = snap.active ELSE Justified(y, ws, r, N)
  <2>1. y \in U \/ (h.kind = "place" /\ y = c)
    BY <1>11
  <2>2. CASE y.kind = "focus"
    BY <1>4, <1>5, <1>10, <2>1, <2>2
  <2>3. CASE y.kind # "focus" /\ y.addr = a
    <3>1. PICK i \in 1..N : Matched(ws, open, i, a)
      <4>1. CASE y \in U
        BY <1>4, <1>5, <1>6, <2>3, <4>1 DEF Justified
      <4>2. CASE h.kind = "place"
        BY <1>4, <1>5, <1>6, <4>2 DEF Justified, a
      <4>3. QED BY <2>1, <4>1, <4>2
    <3>2. Does(y, ws[i], r[a])
      BY <1>16, <2>3, <3>1
    <3>3. QED BY <1>6, <2>3, <3>1, <3>2 DEF Justified
  <2>4. CASE y.kind # "focus" /\ y.addr # a
    <3>1. y \in U
      BY <1>10, <2>1, <2>4
    <3>2. PICK i \in 1..N : Matched(ws, open, i, y.addr) /\ Does(y, ws[i], l[y.addr])
      BY <1>4, <1>5, <1>6, <2>4, <3>1 DEF Justified
    <3>3. y.addr \in open
      BY <1>3, <3>2 DEF Matched, M
    <3>4. r[y.addr] = l[y.addr]
      BY <1>7, <2>4, <3>3
    <3>5. QED BY <1>6, <2>4, <3>2, <3>4 DEF Justified
  <2>5. QED BY <2>2, <2>3, <2>4
<1>19. OnCourse(rest \o t, snap, r)
  BY <1>12, <1>13, <1>14, <1>17, <1>18 DEF OnCourse, ws, N
<1>20. QED BY <1>19 DEF rest, t, h

-----------------------------------------------------------------------------
\* The focus is restored last, or it was where the snapshot has it.
FocusOnCourse(T, a, l, f, before) ==
    /\ \A b \in DOMAIN l : Has(T, "move", b) => l[b].ws = before[1][b].ws
    /\ a \in DOMAIN l =>
          \/ Has(T, "focus", a)
          \/ f = a /\ (before[2] = a \/ ~Has(T, "move", a))
          \/ before[2] = a /\ l[a].ws # before[1][a].ws /\ ~Has(T, "move", a)

\* What the dispatch of x makes of the focus f.
FocusEffect(x, o, f, g) ==
    IF x.kind = "focus" THEN g = x.addr
    ELSE g = f \/ (x.kind = "move" /\ f = x.addr /\ o.ws # x.to)

LEMMA FocusStep ==
    ASSUME NEW snap, NEW open \in SUBSET Address,
           NEW l \in [open -> State], NEW r \in [open -> State],
           NEW s, OnCourse(s, snap, l), s # <<>>, NEW f, NEW g, NEW before,
           FocusOnCourse(Range(s), snap.active, l, f, before),
           Head(s).addr \in open,
           Effect(Head(s), l[Head(s).addr], r[Head(s).addr]),
           \A b \in open \ {Head(s).addr} : r[b] = l[b],
           FocusEffect(Head(s), l[Head(s).addr], f, g)
    PROVE  FocusOnCourse(Range(Rest(Head(s)) \o Tail(s)), snap.active, r, g, before)
<1> DEFINE h == Head(s)
           T == Range(s)
           U == Range(Tail(s))
           c == [kind |-> "resize", addr |-> h.addr, to |-> h.size]
           V == Range(Rest(h) \o Tail(s))
           a == snap.active
<1>1. /\ s \in Seq(Action) /\ InOrder(s)
      /\ \A x \in T : x.kind = "focus" => x.addr = snap.active
  BY DEF OnCourse
<1>2. /\ h \in T /\ Tail(s) \in Seq(Action) /\ T = {h} \union U
      /\ \A y \in U : y.addr = h.addr => Rank(h.kind) < Rank(y.kind)
  BY <1>1, HeadAndTail
<1>3. h \in Action /\ h.kind \in Kind
  <2>1. h \in Action
    BY <1>1, <1>2 DEF Range
  <2>2. QED BY <2>1, KindOfAction
<1>4. V = Range(Rest(h)) \union U /\ Range(Rest(h)) = IF h.kind = "place" THEN {c} ELSE {}
  <2>1. h.kind = "place" => c \in Action
    <3>1. h.kind = "place" => h.size \in Geometry /\ h.addr \in Address
      BY <1>3, KindOfAction
    <3>2. QED BY <3>1 DEF Action
  <2>2. Rest(h) = When(h.kind = "place", c)
    BY DEF Rest, When
  <2> DEFINE q == When(h.kind = "place", c)
             rest == Rest(h)
             t == Tail(s)
  <2> HIDE DEF c, h
  <2>3. q \in Seq(Action) /\ Range(q) = IF h.kind = "place" THEN {c} ELSE {}
    BY <2>1, WhenNeeded
  <2>4. rest \in Seq(Action) /\ t \in Seq(Action)
    BY <1>2, <2>2, <2>3
  <2> HIDE DEF rest, t
  <2>5. Range(rest \o t) = Range(rest) \union Range(t)
    BY <2>4, RangeOfJoin
  <2>6. QED BY <2>2, <2>3, <2>5 DEF rest, t
<1>5. /\ DOMAIN l = open /\ DOMAIN r = open
      /\ \A b \in open : b # h.addr => r[b] = l[b]
      /\ Effect(h, l[h.addr], r[h.addr]) /\ FocusEffect(h, l[h.addr], f, g) /\ h.addr \in open
  OBVIOUS
<1>6. c.kind = "resize"
  OBVIOUS
<1>7. /\ \A b \in open : Has(T, "move", b) => l[b].ws = before[1][b].ws
      /\ a \in open =>
            \/ Has(T, "focus", a)
            \/ f = a /\ (before[2] = a \/ ~Has(T, "move", a))
            \/ before[2] = a /\ l[a].ws # before[1][a].ws /\ ~Has(T, "move", a)
  BY <1>5 DEF FocusOnCourse
<1> HIDE DEF h, T, U, V, c
<1>8. \A b, k : k \in {"move", "focus"} => (Has(V, k, b) <=> Has(U, k, b))
  BY <1>4, <1>6 DEF Has
<1>9. \A k, b : Has(T, k, b) <=> ((h.kind = k /\ h.addr = b) \/ Has(U, k, b))
  BY <1>2 DEF Has
<1>10. \A k : Has(U, k, h.addr) => Rank(h.kind) < Rank(k)
  BY <1>2 DEF Has
<1>11. ~Has(U, "move", h.addr)
  <2>1. Rank(h.kind) \in 1..6
    BY <1>3, RankOfKind DEF Kind
  <2>2. QED BY <1>10, <2>1, RankOfKind
<1>12. ASSUME NEW b \in open, Has(V, "move", b) PROVE r[b].ws = before[1][b].ws
  <2>1. Has(U, "move", b) /\ b # h.addr
    BY <1>8, <1>11, <1>12
  <2>2. QED BY <1>5, <1>7, <1>9, <2>1
<1>13. ASSUME a \in open
       PROVE  \/ Has(V, "focus", a)
              \/ g = a /\ (before[2] = a \/ ~Has(V, "move", a))
              \/ before[2] = a /\ r[a].ws # before[1][a].ws /\ ~Has(V, "move", a)
  <2>1. CASE h.kind = "focus"
    <3>1. h.addr = a /\ g = a
      BY <1>1, <1>2, <1>5, <2>1 DEF FocusEffect
    <3>2. QED BY <1>8, <1>11, <3>1
  <2>2. CASE h.kind # "focus" /\ Has(T, "focus", a)
    BY <1>8, <1>9, <2>2
  <2>3. CASE h.kind # "focus" /\ f = a /\ (before[2] = a \/ ~Has(T, "move", a))
    <3>1. CASE g = f
      BY <1>8, <1>9, <2>3, <3>1
    <3>2. CASE g # f
      <4>1. h.kind = "move" /\ h.addr = a /\ l[a].ws # h.to
        BY <1>5, <2>3, <3>2 DEF FocusEffect
      <4>2. Has(T, "move", a) /\ before[2] = a
        BY <1>9, <2>3, <4>1
      <4>3. r[a].ws = h.to /\ l[a].ws = before[1][a].ws
        BY <1>5, <1>7, <1>13, <4>1, <4>2 DEF Effect
      <4>4. QED BY <1>8, <1>11, <4>1, <4>2, <4>3
    <3>3. QED BY <3>1, <3>2
  <2>4. CASE before[2] = a /\ l[a].ws # before[1][a].ws /\ ~Has(T, "move", a)
    <3>1. ~Has(V, "move", a) /\ ~(h.kind = "move" /\ h.addr = a)
      BY <1>8, <1>9, <2>4
    <3>2. r[a].ws = l[a].ws
      BY <1>5, <1>13, <3>1 DEF Effect
    <3>3. QED BY <2>4, <3>1, <3>2
  <2>5. QED BY <1>7, <1>13, <2>1, <2>2, <2>3, <2>4
<1>14. FocusOnCourse(V, a, r, g, before)
  BY <1>5, <1>12, <1>13 DEF FocusOnCourse
<1>15. QED BY <1>14 DEF V, h

-----------------------------------------------------------------------------
(* Types, captures, and the dispatchers.                                   *)

Desktop == (UNION {[D -> State] : D \in SUBSET Address}) \X (Address \union {Nobody})

Job == [pc : {"pre", "plan", "apply"}, target : Snapshot, pre : Name, saved : BOOLEAN,
        todo : Seq(Action), before : Desktop, disturbed : BOOLEAN, failed : BOOLEAN,
        origin : Desktop \union {<<>>}]

\* The type of the desktop, the files, the restore and the history.
DesktopTyped ==
    /\ Open \in SUBSET Address /\ IsFiniteSet(Open)
    /\ live \in [Open -> State]
    /\ focus \in Open \union {Nobody}

RestoreTyped ==
    /\ DesktopTyped
    /\ store \in [Name -> Snapshot]
    /\ job = NoRestore \/ job \in Job
    /\ second \in 1..MaxSeconds
    /\ trail \in [pre : Name, before : Desktop \union {<<>>}]

\* The snapshot lists every window of a desktop once, in the state it has there.
Depicts(snap, l) ==
    /\ \A i \in 1..Len(snap.windows) :
          /\ snap.windows[i].addr \in DOMAIN l
          /\ \A f \in {"ws", "floating", "at", "size", "full", "pinned"} :
                snap.windows[i][f] = l[snap.windows[i].addr][f]
    /\ \A i, j \in 1..Len(snap.windows) :
          snap.windows[i].addr = snap.windows[j].addr => i = j
    /\ \A a \in DOMAIN l : \E i \in 1..Len(snap.windows) : snap.windows[i].addr = a

LEMMA CaptureDepicts ==
    ASSUME DesktopTyped, NEW snap \in Captures
    PROVE  snap \in Snapshot /\ Depicts(snap, live)
<1>1. /\ Open \in SUBSET Address /\ IsFiniteSet(Open)
      /\ live \in [Open -> State] /\ focus \in Open \union {Nobody}
  BY DEF DesktopTyped
<1> DEFINE n == Cardinality(Open)
<1>2. n \in Nat
  BY <1>1, FS_CardinalityType
<1>3. PICK order \in SetToSeqs(Open) :
         snap = [windows |-> [i \in 1..Len(order) |-> Window(order[i])], active |-> focus]
  BY DEF Captures
<1>4. /\ order \in [1..n -> Open]
      /\ \A i, j \in 1..n : i # j => order[i] # order[j]
  BY <1>3 DEF SetToSeqs
<1>5. Len(order) = n
  BY <1>2, <1>4
<1>6. order \in Surjection(1..n, Open)
  <2>1. order \in Injection(1..n, Open)
    BY <1>4 DEF Injection, IsInjective
  <2>2. Cardinality(1..n) = n
    BY <1>2, FS_Interval
  <2> HIDE DEF n
  <2>3. QED BY <1>1, <2>1, <2>2, FS_Injection DEF n
<1> DEFINE ws == [i \in 1..n |-> Window(order[i])]
<1>7. snap = [windows |-> ws, active |-> focus]
  BY <1>3, <1>5
<1> HIDE DEF n
<1>8. ASSUME NEW a \in Open PROVE Window(a) \in SavedWindow
  <2>1. live[a] \in State
    BY <1>1
  <2>2. QED BY <1>1, <2>1 DEF Window, SavedWindow, State, WellPlaced
<1>9. \A a \in Open : /\ Window(a).addr = a
                      /\ \A f \in {"ws", "floating", "at", "size", "full", "pinned"} :
                            Window(a)[f] = live[a][f]
  BY DEF Window
<1>10. \A i \in 1..n : order[i] \in Open
  BY <1>4
<1>11. ws \in Seq(SavedWindow) /\ Len(ws) = n
  BY <1>2, <1>8, <1>10
<1>12. \A i \in 1..n : ws[i] = Window(order[i])
  OBVIOUS
<1> HIDE DEF ws
<1>13. snap \in Snapshot
  BY <1>1, <1>7, <1>11 DEF Snapshot
<1>14. snap.windows = ws
  BY <1>7
<1>15. \A a \in Open : \E i \in 1..n : ws[i].addr = a
  BY <1>6, <1>9, <1>10, <1>12 DEF Surjection
<1>16. \A i, j \in 1..n : ws[i].addr = ws[j].addr => i = j
  BY <1>4, <1>9, <1>10, <1>12
<1>17. Depicts(snap, live)
  BY <1>1, <1>9, <1>10, <1>11, <1>12, <1>14, <1>15, <1>16 DEF Depicts
<1>18. QED BY <1>13, <1>17

-----------------------------------------------------------------------------
\* What an update of one window leaves.
LEMMA UpdateTyped ==
    ASSUME DesktopTyped, NEW a \in Open, NEW s \in State, Update(a, s)
    PROVE  /\ live' \in [Open -> State] /\ live'[a] = s
           /\ \A b \in Open \ {a} : live'[b] = live[b]
BY DEF DesktopTyped, Update

\* What a dispatcher does to the desktop.
LEMMA DispatchEffect ==
    ASSUME DesktopTyped, NEW x \in Action, Dispatch(x)
    PROVE  /\ x.addr \in Open /\ live' \in [Open -> State]
           /\ focus' \in Open \union {Nobody}
           /\ \A b \in Open \ {x.addr} : live'[b] = live[b]
           /\ Effect(x, live[x.addr], live'[x.addr])
           /\ FocusEffect(x, live[x.addr], focus, focus')
<1> DEFINE a == x.addr
           o == live[a]
<1>1. /\ a \in Open /\ o \in State /\ focus \in Open \union {Nobody} /\ live \in [Open -> State]
      /\ DOMAIN live = Open
  BY DEF Dispatch, DesktopTyped
<1>2. /\ x.kind = "move" => x.to \in Workspace
      /\ x.kind = "fullscreen" => x.to \in 0..1
      /\ x.kind = "resize" => x.to \in Geometry
      /\ x.kind = "place" => x.to \in Geometry /\ x.size \in Geometry
  BY KindOfAction
<1>3. CASE x.kind = "move" /\ MoveSilently(a, x.to)
  <2> DEFINE s == [o EXCEPT !.ws = x.to]
  <2>1. s \in State
    BY <1>1, <1>2, <1>3 DEF State
  <2>2. Update(a, s)
    BY <1>3 DEF MoveSilently
  <2>3. /\ s.ws = x.to /\ s.floating = o.floating /\ s.at = o.at /\ s.size = o.size
        /\ s.full = o.full /\ s.pinned = o.pinned
    BY <1>1 DEF State
  <2> HIDE DEF s
  <2>4. /\ live' \in [Open -> State] /\ live'[a] = s
        /\ \A b \in Open \ {a} : live'[b] = live[b]
    BY <1>1, <2>1, <2>2, UpdateTyped
  <2>5. IF a = focus /\ o.ws # x.to THEN focus' \in (Open \ {focus}) \union {Nobody}
        ELSE focus' = focus
    BY <1>3 DEF MoveSilently, FocusMovesOn
  <2>6. QED BY <1>1, <1>3, <2>3, <2>4, <2>5 DEF Effect, FocusEffect
<1>4. CASE x.kind = "float" /\ ToggleFloating(a)
  <2>1. CASE o.floating
    <3> DEFINE s == [o EXCEPT !.floating = FALSE, !.at = Layout, !.size = Layout, !.pinned = FALSE]
    <3>1. s \in State
      BY <1>1 DEF State
    <3>2. Update(a, s) /\ focus' = focus
      BY <1>4, <2>1 DEF ToggleFloating
    <3>3. s.ws = o.ws /\ s.floating = FALSE /\ s.full = o.full
      BY <1>1 DEF State
    <3> HIDE DEF s
    <3>4. /\ live' \in [Open -> State] /\ live'[a] = s
          /\ \A b \in Open \ {a} : live'[b] = live[b]
      BY <1>1, <3>1, <3>2, UpdateTyped
    <3>5. QED BY <1>1, <1>4, <2>1, <3>2, <3>3, <3>4 DEF Effect, FocusEffect
  <2>2. CASE ~o.floating
    <3>1. PICK g \in Geometry :
             Update(a, [o EXCEPT !.floating = TRUE, !.at = g, !.size = g])
      BY <1>4, <2>2 DEF ToggleFloating
    <3> DEFINE s == [o EXCEPT !.floating = TRUE, !.at = g, !.size = g]
    <3>2. s \in State
      <4>1. g # Layout
        BY DEF Geometry, Layout
      <4>2. /\ s.floating = TRUE /\ s.at = g /\ s.size = g /\ s.ws = o.ws
            /\ s.full = o.full /\ s.pinned = o.pinned
        BY <1>1 DEF State
      <4>3. s \in [ws : Workspace, floating : BOOLEAN, at : {Layout} \union Geometry,
                    size : {Layout} \union Geometry, full : 0..1, pinned : BOOLEAN]
        BY <1>1 DEF State
      <4> HIDE DEF s
      <4>4. QED BY <4>1, <4>2, <4>3 DEF State
    <3>3. Update(a, s) /\ focus' = focus
      BY <1>4, <2>2, <3>1 DEF ToggleFloating
    <3>4. s.ws = o.ws /\ s.floating = TRUE /\ s.full = o.full /\ s.pinned = o.pinned
      BY <1>1 DEF State
    <3> HIDE DEF s
    <3>5. /\ live' \in [Open -> State] /\ live'[a] = s
          /\ \A b \in Open \ {a} : live'[b] = live[b]
      BY <1>1, <3>2, <3>3, UpdateTyped
    <3>6. QED BY <1>1, <1>4, <2>2, <3>3, <3>4, <3>5 DEF Effect, FocusEffect
  <2>3. QED BY <2>1, <2>2
<1>5. CASE x.kind = "place" /\ Place(a, x.to)
  <2>1. CASE o.floating
    <3> DEFINE s == [o EXCEPT !.at = x.to]
    <3>1. s \in State
      BY <1>1, <1>2, <1>5, <2>1 DEF State, Geometry, Layout
    <3>2. Update(a, s) /\ focus' = focus
      BY <1>5, <2>1 DEF Place
    <3>3. /\ s.ws = o.ws /\ s.floating = o.floating /\ s.at = x.to /\ s.size = o.size
          /\ s.full = o.full /\ s.pinned = o.pinned
      BY <1>1 DEF State
    <3> HIDE DEF s
    <3>4. /\ live' \in [Open -> State] /\ live'[a] = s
          /\ \A b \in Open \ {a} : live'[b] = live[b]
      BY <1>1, <3>1, <3>2, UpdateTyped
    <3>5. QED BY <1>1, <1>5, <3>2, <3>3, <3>4 DEF Effect, FocusEffect
  <2>2. CASE ~o.floating
    <3>1. live' = live /\ focus' = focus
      BY <1>5, <2>2 DEF Place
    <3>2. QED BY <1>1, <1>5, <2>2, <3>1 DEF Effect, FocusEffect
  <2>3. QED BY <2>1, <2>2
<1>6. CASE x.kind = "resize" /\ Resize(a, x.to)
  <2>1. CASE o.floating
    <3> DEFINE s == [o EXCEPT !.size = x.to]
    <3>1. s \in State
      BY <1>1, <1>2, <1>6, <2>1 DEF State, Geometry, Layout
    <3>2. Update(a, s) /\ focus' = focus
      BY <1>6, <2>1 DEF Resize
    <3>3. /\ s.ws = o.ws /\ s.floating = o.floating /\ s.at = o.at /\ s.size = x.to
          /\ s.full = o.full /\ s.pinned = o.pinned
      BY <1>1 DEF State
    <3> HIDE DEF s
    <3>4. /\ live' \in [Open -> State] /\ live'[a] = s
          /\ \A b \in Open \ {a} : live'[b] = live[b]
      BY <1>1, <3>1, <3>2, UpdateTyped
    <3>5. QED BY <1>1, <1>6, <3>2, <3>3, <3>4 DEF Effect, FocusEffect
  <2>2. CASE ~o.floating
    <3>1. live' = live /\ focus' = focus
      BY <1>6, <2>2 DEF Resize
    <3>2. QED BY <1>1, <1>6, <2>2, <3>1 DEF Effect, FocusEffect
  <2>3. QED BY <2>1, <2>2
<1>7. CASE x.kind = "fullscreen" /\ SetFullscreen(a, x.to)
  <2> DEFINE s == [o EXCEPT !.full = x.to]
  <2>1. s \in State
    BY <1>1, <1>2, <1>7 DEF State
  <2>2. Update(a, s) /\ focus' = focus
    BY <1>7 DEF SetFullscreen
  <2>3. /\ s.ws = o.ws /\ s.floating = o.floating /\ s.at = o.at /\ s.size = o.size
        /\ s.full = x.to /\ s.pinned = o.pinned
    BY <1>1 DEF State
  <2> HIDE DEF s
  <2>4. /\ live' \in [Open -> State] /\ live'[a] = s
        /\ \A b \in Open \ {a} : live'[b] = live[b]
    BY <1>1, <2>1, <2>2, UpdateTyped
  <2>5. QED BY <1>1, <1>7, <2>2, <2>3, <2>4 DEF Effect, FocusEffect
<1>8. CASE x.kind = "pin" /\ TogglePin(a)
  <2> DEFINE s == [o EXCEPT !.pinned = ~o.pinned]
  <2>1. s \in State
    BY <1>1, <1>8 DEF State, TogglePin
  <2>2. Update(a, s) /\ focus' = focus
    BY <1>1, <1>8 DEF TogglePin, State
  <2>3. /\ s.ws = o.ws /\ s.floating = o.floating /\ s.at = o.at /\ s.size = o.size
        /\ s.full = o.full /\ s.pinned # o.pinned
    BY <1>1 DEF State
  <2> HIDE DEF s
  <2>4. /\ live' \in [Open -> State] /\ live'[a] = s
        /\ \A b \in Open \ {a} : live'[b] = live[b]
    BY <1>1, <2>1, <2>2, UpdateTyped
  <2>5. QED BY <1>1, <1>8, <2>2, <2>3, <2>4 DEF Effect, FocusEffect
<1>9. CASE x.kind = "focus" /\ Focus(a)
  BY <1>1, <1>9 DEF Focus, Effect, FocusEffect
<1>10. QED BY <1>3, <1>4, <1>5, <1>6, <1>7, <1>8, <1>9 DEF Dispatch

-----------------------------------------------------------------------------
(* The inductive invariant of the restore.                                 *)

Restoring == job \in Job

\* While the plan is carried out, it is on course.
Course ==
    Restoring /\ job.pc = "apply" /\ Undisturbed =>
        /\ OnCourse(job.todo, job.target, live)
        /\ FocusOnCourse(Range(job.todo), job.target.active, live, focus, job.before)

\* Until then the desktop is as the restore found it.
StillBefore ==
    Restoring /\ job.pc \in {"pre", "plan"} /\ ~job.disturbed => job.before = desktop

\* The snapshot shows the windows of desktop d, and they are the open ones.
Shows(snap, d) == Open = DOMAIN d[1] /\ Depicts(snap, d[1])

\* What is saved shows what was found.
SavedShows ==
    Restoring =>
        /\ job.pc = "pre" => ~job.saved
        /\ job.saved /\ ~job.disturbed => Shows(store[job.pre], job.before)

TrailShows ==
    trail # NoTrail =>
        /\ trail.before \in Desktop /\ Open = DOMAIN trail.before[1]
        /\ store[trail.pre] = None \/ Depicts(store[trail.pre], trail.before[1])

\* A restore that takes another back goes to what that one found.
OriginShows ==
    Restoring /\ ~job.disturbed /\ job.origin # <<>> => Shows(job.target, job.origin)

RestoreInv ==
    RestoreTyped /\ Course /\ StillBefore /\ SavedShows /\ TrailShows /\ OriginShows

LEMMA NotRestoring == NoRestore \notin Job /\ NoRestore.pc = "idle"
BY DEF NoRestore, Job

LEMMA DesktopIs ==
    ASSUME DesktopTyped
    PROVE  desktop \in Desktop /\ desktop[1] = live /\ desktop[2] = focus
BY DEF DesktopTyped, Desktop, desktop

\* What is saved and found is of its type.
LEMMA NamesAndNone ==
    /\ Saved \in Name
    /\ \A t \in 1..MaxSeconds : PreName(t) \in Name
    /\ None \in Snapshot
    /\ NoTrail \in [pre : Name, before : Desktop \union {<<>>}]
    /\ 1 \in 1..MaxSeconds
<1>1. <<>> \in Seq(SavedWindow)
  OBVIOUS
<1>2. None \in Snapshot
  BY <1>1 DEF None, Snapshot
<1>3. 1 \in 1..MaxSeconds
  BY SnapshotAssumption DEF SnapshotAssumption
<1>4. QED BY <1>2, <1>3 DEF Name, NoTrail

LEMMA InitHolds ==
    ASSUME RestoreInit
    PROVE  RestoreInv
<1>1. DesktopTyped
  BY SnapshotAssumption DEF RestoreInit, SnapshotAssumption, DesktopTyped, Open
<1>2. store \in [Name -> Snapshot]
  BY NamesAndNone DEF RestoreInit
<1>3. RestoreTyped
  BY <1>1, <1>2, NamesAndNone DEF RestoreInit, RestoreTyped
<1>4. ~Restoring /\ trail = NoTrail
  BY NotRestoring DEF RestoreInit, Restoring
<1>5. QED BY <1>3, <1>4 DEF RestoreInv, Course, StillBefore, SavedShows, TrailShows, OriginShows

\* The handlers of a client that is not restoring change only the files.
LEMMA SnapshotSaveStep ==
    ASSUME RestoreInv, SnapshotSave
    PROVE  RestoreInv'
<1>1. /\ DesktopTyped /\ store \in [Name -> Snapshot] /\ second \in 1..MaxSeconds
      /\ trail \in [pre : Name, before : Desktop \union {<<>>}] /\ TrailShows
  BY DEF RestoreInv, RestoreTyped
<1>2. PICK snap \in Captures : Write(Saved, snap)
  BY DEF SnapshotSave
<1>3. snap \in Snapshot
  BY <1>1, <1>2, CaptureDepicts
<1>4. job' = NoRestore /\ second' = second /\ live' = live /\ focus' = focus
  BY DEF SnapshotSave, desktop
<1>5. DesktopTyped'
  BY <1>1, <1>4 DEF DesktopTyped, Open
<1>6. store' \in [Name -> Snapshot] /\ trail' \in [pre : Name, before : Desktop \union {<<>>}]
  BY <1>1, <1>2, <1>3, NamesAndNone DEF Write
<1>7. RestoreTyped'
  BY <1>1, <1>4, <1>5, <1>6 DEF RestoreTyped
<1>8. TrailShows'
  <2>1. SUFFICES ASSUME trail' # NoTrail PROVE trail' = trail /\ store'[trail.pre] = store[trail.pre]
    BY <1>1, <1>4 DEF TrailShows, Open
  <2>2. QED BY <1>1, <1>2, <2>1, NamesAndNone DEF Write
<1>9. ~Restoring'
  BY <1>4, NotRestoring DEF Restoring
<1>10. QED BY <1>7, <1>8, <1>9 DEF RestoreInv, Course, StillBefore, SavedShows, OriginShows

LEMMA SnapshotDeleteStep ==
    ASSUME RestoreInv, NEW n \in Name, SnapshotDelete(n)
    PROVE  RestoreInv'
<1>1. /\ DesktopTyped /\ store \in [Name -> Snapshot] /\ second \in 1..MaxSeconds
      /\ trail \in [pre : Name, before : Desktop \union {<<>>}] /\ TrailShows
  BY DEF RestoreInv, RestoreTyped
<1>2. /\ job' = NoRestore /\ second' = second /\ live' = live /\ focus' = focus
      /\ trail' = trail /\ store' = [store EXCEPT ![n] = None]
  BY DEF SnapshotDelete, desktop
<1>3. DesktopTyped'
  BY <1>1, <1>2 DEF DesktopTyped, Open
<1>4. store' \in [Name -> Snapshot]
  BY <1>1, <1>2, NamesAndNone
<1>5. RestoreTyped'
  BY <1>1, <1>2, <1>3, <1>4 DEF RestoreTyped
<1>6. TrailShows'
  <2>1. trail.pre \in Name
    BY <1>1
  <2>2. store'[trail.pre] = None \/ store'[trail.pre] = store[trail.pre]
    BY <1>1, <1>2, <2>1
  <2>3. QED BY <1>1, <1>2, <2>2 DEF TrailShows, Open
<1>7. ~Restoring'
  BY <1>2, NotRestoring DEF Restoring
<1>8. QED BY <1>5, <1>6, <1>7 DEF RestoreInv, Course, StillBefore, SavedShows, OriginShows

LEMMA RestoreLoadStep ==
    ASSUME RestoreInv, NEW n \in Name, RestoreLoad(n)
    PROVE  RestoreInv'
<1>1. /\ DesktopTyped /\ store \in [Name -> Snapshot] /\ second \in 1..MaxSeconds
      /\ trail \in [pre : Name, before : Desktop \union {<<>>}] /\ TrailShows
  BY DEF RestoreInv, RestoreTyped
<1>2. /\ second' = second /\ live' = live /\ focus' = focus /\ trail' = trail /\ store' = store
      /\ store[n] # None
      /\ job' = [pc |-> "pre", target |-> store[n], pre |-> n, saved |-> FALSE,
                 todo |-> <<>>, before |-> desktop, disturbed |-> FALSE, failed |-> FALSE,
                 origin |-> IF n = trail.pre THEN trail.before ELSE <<>>]
  BY DEF RestoreLoad, desktop
<1>3. DesktopTyped' /\ TrailShows'
  BY <1>1, <1>2 DEF DesktopTyped, Open, TrailShows
<1>4. job' \in Job
  <2>1. store[n] \in Snapshot /\ desktop \in Desktop /\ trail.before \in Desktop \union {<<>>}
    BY <1>1, DesktopIs
  <2>2. <<>> \in Seq(Action)
    OBVIOUS
  <2>3. QED BY <1>2, <2>1, <2>2 DEF Job
<1>5. RestoreTyped'
  BY <1>1, <1>2, <1>3, <1>4 DEF RestoreTyped
<1>6. /\ job'.pc = "pre" /\ job'.before = desktop /\ ~job'.saved /\ job'.target = store[n]
      /\ job'.origin = IF n = trail.pre THEN trail.before ELSE <<>>
  BY <1>2
<1>7. Course' /\ StillBefore' /\ SavedShows'
  BY <1>2, <1>6 DEF Course, StillBefore, SavedShows, desktop
<1>8. OriginShows'
  <2>1. SUFFICES ASSUME job'.origin # <<>> PROVE Shows(job.target, job.origin)'
    BY DEF OriginShows
  <2>2. n = trail.pre /\ job'.origin = trail.before /\ trail # NoTrail
    BY <1>6, <2>1 DEF NoTrail
  <2>3. Open = DOMAIN trail.before[1] /\ Depicts(store[n], trail.before[1])
    BY <1>1, <1>2, <2>2 DEF TrailShows
  <2>4. QED BY <1>2, <1>6, <2>2, <2>3 DEF Shows, Open
<1>9. QED BY <1>3, <1>5, <1>7, <1>8 DEF RestoreInv

\* The fields of the restore that is in progress.
LEMMA JobFields ==
    ASSUME job \in Job
    PROVE  /\ job.pc \in {"pre", "plan", "apply"} /\ job.target \in Snapshot /\ job.pre \in Name
           /\ job.saved \in BOOLEAN /\ job.todo \in Seq(Action) /\ job.before \in Desktop
           /\ job.disturbed \in BOOLEAN /\ job.failed \in BOOLEAN
           /\ job.origin \in Desktop \union {<<>>}
BY DEF Job

LEMMA SavePreStep ==
    ASSUME RestoreInv, SavePre
    PROVE  RestoreInv'
<1>1. /\ DesktopTyped /\ store \in [Name -> Snapshot] /\ second \in 1..MaxSeconds
      /\ trail \in [pre : Name, before : Desktop \union {<<>>}] /\ TrailShows
      /\ StillBefore /\ OriginShows /\ SavedShows
  BY DEF RestoreInv, RestoreTyped
<1>2. job \in Job /\ job.pc = "pre"
  BY NotRestoring DEF RestoreInv, RestoreTyped, SavePre
<1>3. second' = second /\ live' = live /\ focus' = focus
  BY DEF SavePre, desktop
<1>4. DesktopTyped' /\ desktop' = desktop
  BY <1>1, <1>3 DEF DesktopTyped, Open, desktop
<1>5. PreName(second) \in Name
  BY <1>1, NamesAndNone
<1>6. ASSUME NEW snap \in Captures, Write(PreName(second), snap),
             job' = [job EXCEPT !.pc = "plan", !.pre = PreName(second), !.saved = TRUE]
      PROVE  RestoreInv'
  <2>1. snap \in Snapshot /\ Depicts(snap, live)
    BY <1>1, CaptureDepicts
  <2>2. job' \in Job
    BY <1>2, <1>5, <1>6 DEF Job
  <2>3. /\ job'.pc = "plan" /\ job'.pre = PreName(second) /\ job'.before = job.before
        /\ job'.disturbed = job.disturbed /\ job'.target = job.target /\ job'.origin = job.origin
    BY <1>2, <1>6 DEF Job
  <2>4. store' \in [Name -> Snapshot] /\ store'[PreName(second)] = snap
    BY <1>1, <1>5, <1>6, <2>1 DEF Write
  <2>5. trail' \in [pre : Name, before : Desktop \union {<<>>}]
    BY <1>1, <1>6, NamesAndNone DEF Write
  <2>6. RestoreTyped'
    BY <1>1, <1>3, <1>4, <2>2, <2>4, <2>5 DEF RestoreTyped
  <2>7. TrailShows'
    <3>1. SUFFICES ASSUME trail' # NoTrail PROVE trail' = trail /\ store'[trail.pre] = store[trail.pre]
      BY <1>1, <1>3 DEF TrailShows, Open
    <3>2. QED BY <1>1, <1>5, <1>6, <3>1 DEF Write
  <2>8. Course' /\ StillBefore' /\ OriginShows'
    BY <1>1, <1>2, <1>3, <1>4, <2>3
       DEF Course, StillBefore, OriginShows, Restoring, Shows, Open
  <2>9. SavedShows'
    <3>1. SUFFICES ASSUME ~job'.disturbed PROVE Shows(store[job.pre], job.before)'
      BY <2>3 DEF SavedShows
    <3>2. job.before = desktop /\ job.before[1] = live
      BY <1>1, <1>2, <2>3, <3>1, DesktopIs DEF StillBefore, Restoring
    <3>3. QED BY <1>3, <2>1, <2>3, <2>4, <3>2 DEF Shows, Open
  <2>10. QED BY <2>6, <2>7, <2>8, <2>9 DEF RestoreInv
<1>7. ASSUME job' = [job EXCEPT !.pc = "plan", !.pre = PreName(second)],
             store' = store, trail' = trail
      PROVE  RestoreInv'
  <2>1. job' \in Job
    BY <1>2, <1>5, <1>7 DEF Job
  <2>2. /\ job'.pc = "plan" /\ job'.before = job.before /\ job'.saved = job.saved
        /\ job'.disturbed = job.disturbed /\ job'.target = job.target /\ job'.origin = job.origin
    BY <1>2, <1>7 DEF Job
  <2>3. RestoreTyped'
    BY <1>1, <1>3, <1>4, <1>7, <2>1 DEF RestoreTyped
  <2>4. Course' /\ StillBefore' /\ OriginShows' /\ TrailShows'
    BY <1>1, <1>2, <1>3, <1>4, <1>7, <2>2
       DEF Course, StillBefore, OriginShows, TrailShows, Restoring, Shows, Open
  <2>5. SavedShows'
    BY <1>1, <1>2, <2>2 DEF SavedShows, Restoring
  <2>6. QED BY <2>3, <2>4, <2>5 DEF RestoreInv
<1>8. QED BY <1>6, <1>7 DEF SavePre

LEMMA CaptureFailsStep ==
    ASSUME RestoreInv, CaptureFails
    PROVE  RestoreInv'
<1>1. /\ job' = NoRestore /\ second' = second /\ live' = live /\ focus' = focus
      /\ trail' = trail /\ store' = store
  BY DEF CaptureFails, desktop
<1>2. RestoreTyped' /\ TrailShows'
  BY <1>1 DEF RestoreInv, RestoreTyped, DesktopTyped, TrailShows, Open
<1>3. ~Restoring'
  BY <1>1, NotRestoring DEF Restoring
<1>4. QED BY <1>2, <1>3 DEF RestoreInv, Course, StillBefore, SavedShows, OriginShows

LEMMA PlanStep ==
    ASSUME RestoreInv, Plan
    PROVE  RestoreInv'
<1>1. /\ DesktopTyped /\ store \in [Name -> Snapshot] /\ second \in 1..MaxSeconds
      /\ trail \in [pre : Name, before : Desktop \union {<<>>}] /\ TrailShows
      /\ StillBefore /\ OriginShows /\ SavedShows
  BY DEF RestoreInv, RestoreTyped
<1>2. job \in Job /\ job.pc = "plan"
  BY NotRestoring DEF RestoreInv, RestoreTyped, Plan
<1>3. /\ second' = second /\ live' = live /\ focus' = focus /\ trail' = trail /\ store' = store
      /\ job' = [job EXCEPT !.pc = "apply", !.todo = DiffAgainst(job.target, live, focus)]
  BY DEF Plan, desktop
<1> DEFINE s == DiffAgainst(job.target, live, focus)
           ws == job.target.windows
           a == job.target.active
<1>4. /\ Open \in SUBSET Address /\ live \in [Open -> State] /\ Nobody \notin Address
      /\ job.target \in Snapshot
  BY <1>1, <1>2, JobFields, SnapshotAssumption DEF SnapshotAssumption, DesktopTyped
<1>5. /\ s \in Seq(Action) /\ InOrder(s)
      /\ \A x \in Range(s) :
            /\ x.kind # "resize"
            /\ IF x.kind = "focus" THEN x.addr = a ELSE Justified(x, ws, live, Len(ws))
      /\ CoversAll(Range(s), ws, live, Len(ws))
      /\ a # focus /\ a \in Open => Has(Range(s), "focus", a)
  BY <1>4, DiffIsPlan
<1> HIDE DEF s
<1>6. /\ job'.pc = "apply" /\ job'.before = job.before /\ job'.saved = job.saved
      /\ job'.disturbed = job.disturbed /\ job'.target = job.target /\ job'.origin = job.origin
      /\ job'.pre = job.pre /\ job'.todo = s
  BY <1>2, <1>3 DEF Job, s
<1>7. job' \in Job
  BY <1>2, <1>3, <1>5 DEF Job, s
<1>8. RestoreTyped'
  BY <1>1, <1>3, <1>7 DEF RestoreTyped, DesktopTyped, Open
<1>9. StillBefore' /\ SavedShows' /\ TrailShows' /\ OriginShows'
  BY <1>1, <1>2, <1>3, <1>6
     DEF StillBefore, OriginShows, TrailShows, SavedShows, Restoring, Shows, Open
<1>10. Course'
  <2>1. SUFFICES ASSUME ~job.disturbed
                 PROVE  /\ OnCourse(s, job.target, live)
                        /\ FocusOnCourse(Range(s), a, live, focus, job.before)
    BY <1>3, <1>6 DEF Course, Undisturbed
  <2>2. s # <<>> => \A x \in Range(Tail(s)) : x.kind # "resize"
    BY <1>5, HeadAndTail
  <2>3. OnCourse(s, job.target, live)
    BY <1>5, <2>2 DEF OnCourse
  <2>4. job.before = desktop /\ job.before[1] = live /\ job.before[2] = focus
    BY <1>1, <1>2, <2>1, DesktopIs DEF StillBefore, Restoring
  <2>5. FocusOnCourse(Range(s), a, live, focus, job.before)
    BY <1>5, <2>4 DEF FocusOnCourse, Open
  <2>6. QED BY <2>3, <2>5
<1>11. QED BY <1>8, <1>9, <1>10 DEF RestoreInv

LEMMA RestTyped ==
    ASSUME NEW h \in Action
    PROVE  Rest(h) \in Seq(Action)
<1> DEFINE c == [kind |-> "resize", addr |-> h.addr, to |-> h.size]
<1>1. CASE h.kind = "place"
  <2>1. h.size \in Geometry /\ h.addr \in Address
    BY <1>1, KindOfAction
  <2>2. c \in Action
    BY <2>1 DEF Action
  <2>3. Rest(h) = <<c>>
    BY <1>1 DEF Rest
  <2> HIDE DEF c
  <2>4. QED BY <2>2, <2>3
<1>2. CASE h.kind # "place"
  BY <1>2 DEF Rest
<1>3. QED BY <1>1, <1>2

LEMMA ApplyStep ==
    ASSUME RestoreInv, Apply
    PROVE  RestoreInv'
<1>1. /\ DesktopTyped /\ store \in [Name -> Snapshot] /\ second \in 1..MaxSeconds
      /\ trail \in [pre : Name, before : Desktop \union {<<>>}] /\ TrailShows
      /\ Course /\ OriginShows /\ SavedShows
  BY DEF RestoreInv, RestoreTyped
<1>2. job \in Job /\ job.pc = "apply" /\ job.todo # <<>>
  BY NotRestoring DEF RestoreInv, RestoreTyped, Apply
<1>3. second' = second /\ trail' = trail /\ store' = store
  BY DEF Apply
<1> DEFINE s == job.todo
           h == Head(s)
<1>4. s \in Seq(Action) /\ h \in Action /\ Tail(s) \in Seq(Action) /\ Rest(h) \in Seq(Action)
  <2>1. s \in Seq(Action)
    BY <1>2, JobFields
  <2>2. h \in Range(s) /\ Tail(s) \in Seq(Action)
    BY <1>2, <2>1, HeadAndTail
  <2>3. h \in Action
    BY <2>1, <2>2 DEF Range
  <2>4. QED BY <2>1, <2>2, <2>3, RestTyped
<1>5. /\ Open \in SUBSET Address /\ live \in [Open -> State] /\ Nobody \notin Address
      /\ job.target \in Snapshot /\ DOMAIN live = Open
  BY <1>1, <1>2, JobFields, SnapshotAssumption DEF SnapshotAssumption, DesktopTyped
<1>6. ASSUME Dispatch(h)
      PROVE  /\ h.addr \in Open /\ live' \in [Open -> State]
             /\ focus' \in Open \union {Nobody}
             /\ \A b \in Open \ {h.addr} : live'[b] = live[b]
             /\ Effect(h, live[h.addr], live'[h.addr])
             /\ FocusEffect(h, live[h.addr], focus, focus')
  BY <1>1, <1>4, <1>6, DispatchEffect
<1>7. ASSUME Dispatch(h) \/ desktop' = desktop
      PROVE  Open' = Open /\ DesktopTyped'
  <2>1. live' \in [Open -> State] /\ focus' \in Open \union {Nobody}
    BY <1>1, <1>6, <1>7 DEF desktop, DesktopTyped
  <2>2. Open' = Open
    BY <2>1 DEF Open
  <2>3. QED BY <1>1, <2>1, <2>2 DEF DesktopTyped
<1>8. ASSUME NEW t \in Seq(Action), NEW failed \in BOOLEAN,
             job' = [job EXCEPT !.todo = t, !.failed = failed],
             Dispatch(h) \/ desktop' = desktop,
             Course'
      PROVE  RestoreInv'
  <2>1. job' \in Job
    BY <1>2, <1>8 DEF Job
  <2>2. /\ job'.pc = "apply" /\ job'.before = job.before /\ job'.saved = job.saved
        /\ job'.disturbed = job.disturbed /\ job'.target = job.target
        /\ job'.origin = job.origin /\ job'.pre = job.pre
    BY <1>2, <1>8 DEF Job
  <2>3. Open' = Open /\ DesktopTyped'
    BY <1>7, <1>8
  <2>4. RestoreTyped'
    BY <1>1, <1>3, <2>1, <2>3 DEF RestoreTyped
  <2>5. StillBefore' /\ SavedShows' /\ TrailShows' /\ OriginShows'
    BY <1>1, <1>2, <1>3, <2>2, <2>3
       DEF StillBefore, OriginShows, TrailShows, SavedShows, Restoring, Shows
  <2>6. QED BY <1>8, <2>4, <2>5 DEF RestoreInv
<1>9. CASE Dispatch(h) /\ job' = [job EXCEPT !.todo = Rest(h) \o Tail(s)]
  <2> DEFINE t == Rest(h) \o Tail(s)
  <2>1. t \in Seq(Action)
    BY <1>4
  <2>2. job' = [job EXCEPT !.todo = t, !.failed = job.failed] /\ job.failed \in BOOLEAN
    BY <1>2, <1>9, JobFields DEF Job
  <2>3. /\ job'.pc = "apply" /\ job'.before = job.before /\ job'.todo = t
        /\ job'.disturbed = job.disturbed /\ job'.target = job.target /\ job'.failed = job.failed
    BY <1>2, <1>9 DEF Job
  <2>4. Course'
    <3>1. SUFFICES ASSUME Undisturbed
                   PROVE  /\ OnCourse(t, job.target, live')
                          /\ FocusOnCourse(Range(t), job.target.active, live', focus', job.before)
      BY <2>3 DEF Course, Undisturbed
    <3>2. /\ OnCourse(s, job.target, live)
          /\ FocusOnCourse(Range(s), job.target.active, live, focus, job.before)
      BY <1>1, <1>2, <3>1 DEF Course, Restoring
    <3>3. /\ h.addr \in Open /\ live' \in [Open -> State]
          /\ \A b \in Open \ {h.addr} : live'[b] = live[b]
          /\ Effect(h, live[h.addr], live'[h.addr])
          /\ FocusEffect(h, live[h.addr], focus, focus')
      BY <1>6, <1>9
    <3> DEFINE l == live
               r == live'
               f == focus
               g == focus'
               open == Open
               snap == job.target
               before == job.before
    <3>4. /\ snap \in Snapshot /\ open \in SUBSET Address /\ Nobody \notin Address
          /\ l \in [open -> State] /\ r \in [open -> State] /\ OnCourse(s, snap, l) /\ s # <<>>
          /\ Head(s).addr \in open /\ Effect(Head(s), l[Head(s).addr], r[Head(s).addr])
          /\ \A b \in open \ {Head(s).addr} : r[b] = l[b]
          /\ FocusOnCourse(Range(s), snap.active, l, f, before)
          /\ FocusEffect(Head(s), l[Head(s).addr], f, g)
      BY <1>2, <1>5, <3>2, <3>3
    <3> HIDE DEF l, r, f, g, open, snap, before, s
    <3>5. OnCourse(Rest(Head(s)) \o Tail(s), snap, r)
      BY <3>4, OnCourseStep
    <3>6. FocusOnCourse(Range(Rest(Head(s)) \o Tail(s)), snap.active, r, g, before)
      BY <3>4, FocusStep
    <3>7. QED BY <3>5, <3>6 DEF r, g, snap, before
  <2> HIDE DEF t
  <2>5. QED BY <1>8, <1>9, <2>1, <2>2, <2>4
<1>10. CASE /\ Dispatch(h) \/ desktop' = desktop
            /\ job' = [job EXCEPT !.todo = Tail(s), !.failed = TRUE]
  <2>1. Course'
    BY <1>2, <1>10 DEF Course, Undisturbed, Job
  <2>2. QED BY <1>4, <1>8, <1>10, <2>1
<1>11. QED BY <1>9, <1>10 DEF Apply

LEMMA AnswerStep ==
    ASSUME RestoreInv, Answer
    PROVE  RestoreInv'
<1>1. /\ DesktopTyped /\ store \in [Name -> Snapshot] /\ second \in 1..MaxSeconds
      /\ trail \in [pre : Name, before : Desktop \union {<<>>}] /\ SavedShows
  BY DEF RestoreInv, RestoreTyped
<1>2. job \in Job
  BY NotRestoring DEF RestoreInv, RestoreTyped, Answer
<1>3. /\ job' = NoRestore /\ second' = second /\ live' = live /\ focus' = focus /\ store' = store
      /\ trail' = IF job.disturbed \/ job.failed \/ ~job.saved THEN NoTrail
                  ELSE [pre |-> job.pre, before |-> job.before]
  BY DEF Answer, desktop
<1>4. job.pre \in Name /\ job.before \in Desktop
  BY <1>2, JobFields
<1>5. RestoreTyped'
  <2>1. DesktopTyped'
    BY <1>1, <1>3 DEF DesktopTyped, Open
  <2>2. trail' \in [pre : Name, before : Desktop \union {<<>>}]
    BY <1>3, <1>4, NamesAndNone
  <2>3. QED BY <1>1, <1>3, <2>1, <2>2 DEF RestoreTyped
<1>6. TrailShows'
  <2>1. SUFFICES ASSUME trail' # NoTrail
                 PROVE  /\ trail'.before \in Desktop /\ Open = DOMAIN trail'.before[1]
                        /\ Depicts(store[trail'.pre], trail'.before[1])
    BY <1>3 DEF TrailShows, Open
  <2>2. /\ ~job.disturbed /\ job.saved /\ trail'.pre = job.pre /\ trail'.before = job.before
    BY <1>3, <2>1
  <2>3. QED BY <1>1, <1>2, <1>4, <2>2 DEF SavedShows, Restoring, Shows
<1>7. ~Restoring'
  BY <1>3, NotRestoring DEF Restoring
<1>8. QED BY <1>5, <1>6, <1>7 DEF RestoreInv, Course, StillBefore, SavedShows, OriginShows

LEMMA TickStep ==
    ASSUME RestoreInv, Tick
    PROVE  RestoreInv'
<1>1. /\ job' = job /\ second' = second + 1 /\ live' = live /\ focus' = focus
      /\ trail' = trail /\ store' = store /\ second < MaxSeconds
  BY DEF Tick, desktop
<1>2. second' \in 1..MaxSeconds
  BY <1>1, SnapshotAssumption DEF RestoreInv, RestoreTyped, SnapshotAssumption
<1>3. RestoreTyped'
  BY <1>1, <1>2 DEF RestoreInv, RestoreTyped, DesktopTyped, Open
<1>4. Course' /\ StillBefore' /\ SavedShows' /\ TrailShows' /\ OriginShows'
  BY <1>1 DEF RestoreInv, Course, Undisturbed, StillBefore, SavedShows, TrailShows, OriginShows,
              Restoring, Shows, Open, desktop
<1>5. QED BY <1>3, <1>4 DEF RestoreInv

LEMMA UserStep ==
    ASSUME RestoreInv, User
    PROVE  RestoreInv'
<1>1. /\ DesktopTyped /\ store \in [Name -> Snapshot] /\ second \in 1..MaxSeconds
      /\ SavedShows
  BY DEF RestoreInv, RestoreTyped
<1>2. /\ second' = second /\ store' = store /\ trail' = NoTrail
      /\ job' = IF job = NoRestore THEN NoRestore ELSE [job EXCEPT !.disturbed = TRUE]
  BY DEF User
<1>3. /\ Open \in SUBSET Address /\ IsFiniteSet(Open) /\ live \in [Open -> State]
      /\ focus \in Open \union {Nobody} /\ DOMAIN live = Open
  BY <1>1 DEF DesktopTyped
<1>4. DesktopTyped'
  <2>1. ASSUME live' \in [Open -> State], focus' \in Open \union {Nobody} PROVE DesktopTyped'
    <3>1. Open' = Open
      BY <2>1 DEF Open
    <3>2. QED BY <1>3, <2>1, <3>1 DEF DesktopTyped
  <2>2. ASSUME NEW a \in Open, NEW ws \in Workspace, MoveSilently(a, ws) PROVE DesktopTyped'
    <3>1. [live[a] EXCEPT !.ws = ws] \in State
      BY <1>3 DEF State
    <3>2. live' \in [Open -> State]
      BY <1>3, <2>2, <3>1 DEF MoveSilently, Update
    <3>3. QED BY <1>3, <2>1, <2>2, <3>2 DEF MoveSilently, FocusMovesOn
  <2>3. ASSUME NEW a \in Open, ToggleFloating(a) PROVE DesktopTyped'
    <3> DEFINE x == [kind |-> "float", addr |-> a]
    <3>1. x \in Action /\ Dispatch(x)
      BY <1>3, <2>3 DEF Action, Dispatch
    <3>2. QED BY <1>1, <2>1, <3>1, DispatchEffect
  <2>4. ASSUME NEW a \in Open, TogglePin(a) PROVE DesktopTyped'
    <3> DEFINE x == [kind |-> "pin", addr |-> a]
    <3>1. x \in Action /\ Dispatch(x)
      BY <1>3, <2>4 DEF Action, Dispatch
    <3>2. QED BY <1>1, <2>1, <3>1, DispatchEffect
  <2>5. ASSUME NEW a \in Open, SetFullscreen(a, 1 - live[a].full) PROVE DesktopTyped'
    <3> DEFINE x == [kind |-> "fullscreen", addr |-> a, to |-> 1 - live[a].full]
    <3>1. live[a].full \in 0..1
      BY <1>3 DEF State
    <3>2. 1 - live[a].full \in 0..1
      BY <3>1
    <3>3. x \in Action /\ Dispatch(x)
      BY <1>3, <2>5, <3>2 DEF Action, Dispatch
    <3>4. QED BY <1>1, <2>1, <3>3, DispatchEffect
  <2>6. ASSUME NEW a \in Open, live' = [b \in Open \ {a} |-> live[b]],
               IF a = focus THEN FocusMovesOn ELSE UNCHANGED focus
        PROVE  DesktopTyped'
    <3>1. Open' = Open \ {a} /\ live' \in [Open \ {a} -> State]
      BY <1>3, <2>6 DEF Open
    <3>2. IsFiniteSet(Open \ {a})
      BY <1>3, FS_RemoveElement
    <3>3. focus' \in (Open \ {a}) \union {Nobody}
      BY <1>3, <2>6 DEF FocusMovesOn
    <3>4. QED BY <1>3, <3>1, <3>2, <3>3 DEF DesktopTyped
  <2>7. ASSUME NEW a \in Address \ Open, NEW s \in State, focus' = a,
               live' = [b \in Open \union {a} |-> IF b = a THEN s ELSE live[b]]
        PROVE  DesktopTyped'
    <3> DEFINE both == Open \union {a}
    <3>1. Open' = both
      BY <2>7 DEF Open
    <3>2. live' \in [both -> State]
      BY <1>3, <2>7
    <3>3. IsFiniteSet(both) /\ both \in SUBSET Address
      BY <1>3, FS_AddElement
    <3>4. focus' \in both \union {Nobody}
      BY <2>7
    <3> HIDE DEF both
    <3>5. QED BY <3>1, <3>2, <3>3, <3>4 DEF DesktopTyped
  <2>8. QED
    <3>1. CASE \E a \in Open :
                 \/ \E ws \in Workspace \ {live[a].ws} : MoveSilently(a, ws)
                 \/ ToggleFloating(a)
                 \/ TogglePin(a)
                 \/ SetFullscreen(a, 1 - live[a].full)
      BY <2>2, <2>3, <2>4, <2>5, <3>1
    <3>2. CASE \E a \in Open :
                 /\ live' = [b \in Open \ {a} |-> live[b]]
                 /\ IF a = focus THEN FocusMovesOn ELSE UNCHANGED focus
      BY <2>6, <3>2
    <3>3. CASE \E a \in Address \ Open, s \in State :
                 /\ ~s.floating /\ s.full = 0
                 /\ live' = [b \in Open \union {a} |-> IF b = a THEN s ELSE live[b]]
                 /\ focus' = a
      BY <2>7, <3>3
    <3>4. QED BY <3>1, <3>2, <3>3 DEF User
<1>5. job' = NoRestore \/ (job' \in Job /\ job'.disturbed)
  BY <1>2 DEF RestoreInv, RestoreTyped, Job
<1>6. RestoreTyped'
  BY <1>1, <1>2, <1>4, <1>5, NamesAndNone DEF RestoreTyped
<1>7. Course' /\ StillBefore' /\ OriginShows'
  BY <1>5, NotRestoring DEF Course, Undisturbed, StillBefore, OriginShows, Restoring
<1>8. SavedShows'
  <2>1. SUFFICES ASSUME job' \in Job, job'.pc = "pre" PROVE ~job'.saved
    BY <1>5, NotRestoring DEF SavedShows, Restoring
  <2>2. job \in Job /\ job' = [job EXCEPT !.disturbed = TRUE]
    BY <1>2, <2>1, NotRestoring DEF RestoreInv, RestoreTyped
  <2>3. job.pc = "pre" /\ job'.saved = job.saved
    BY <2>1, <2>2 DEF Job
  <2>4. QED BY <1>1, <2>2, <2>3 DEF SavedShows, Restoring
<1>9. TrailShows'
  BY <1>2 DEF TrailShows
<1>10. QED BY <1>6, <1>7, <1>8, <1>9 DEF RestoreInv

LEMMA RestoreStutters ==
    ASSUME RestoreInv, UNCHANGED restoreVars
    PROVE  RestoreInv'
BY DEF restoreVars, desktop, RestoreInv, RestoreTyped, DesktopTyped, Course, Undisturbed, StillBefore,
       SavedShows, TrailShows, OriginShows, Restoring, Shows, Open

\* The invariant holds initially and every step keeps it.
LEMMA RestoreInvariant == RestoreSpec => []RestoreInv
<1>1. RestoreInit => RestoreInv
  BY InitHolds
<1>2. RestoreInv /\ [RestoreNext]_restoreVars => RestoreInv'
  <2>1. SUFFICES ASSUME RestoreInv, [RestoreNext]_restoreVars PROVE RestoreInv'
    OBVIOUS
  <2>2. CASE RestoreNext
    BY <2>1, <2>2, SnapshotSaveStep, SnapshotDeleteStep, RestoreLoadStep, SavePreStep,
       CaptureFailsStep, PlanStep, ApplyStep, AnswerStep, TickStep, UserStep DEF RestoreNext
  <2>3. CASE UNCHANGED restoreVars
    BY <2>1, <2>3, RestoreStutters
  <2>4. QED BY <2>1, <2>2, <2>3
<1>3. QED BY <1>1, <1>2, PTL DEF RestoreSpec

-----------------------------------------------------------------------------
(* What a restore restores.                                                *)

\* When all is dispatched, nothing of the plan is left to do.
LEMMA WhenApplied ==
    ASSUME RestoreInv, Applied, Undisturbed
    PROVE  /\ job \in Job
           /\ Len(job.target.windows) \in Nat
           /\ \A i \in 1..Len(job.target.windows), a \in Open :
                 Matched(job.target.windows, Open, i, a) =>
                     Agrees(job.target.windows[i], live[a])
           /\ FocusOnCourse({}, job.target.active, live, focus, job.before)
<1>1. job \in Job
  BY NotRestoring DEF RestoreInv, RestoreTyped, Applied
<1>2. job.pc = "apply" /\ job.todo = <<>>
  BY DEF Applied
<1>3. Range(job.todo) = {}
  <2>1. DOMAIN <<>> = {}
    OBVIOUS
  <2>2. QED BY <1>2, <2>1 DEF Range
<1>4. /\ OnCourse(job.todo, job.target, live)
      /\ FocusOnCourse(Range(job.todo), job.target.active, live, focus, job.before)
  BY <1>1, <1>2 DEF RestoreInv, Course, Restoring
<1>5. CoversAll({}, job.target.windows, live, Len(job.target.windows))
  BY <1>3, <1>4 DEF OnCourse
<1>6. ASSUME NEW w, NEW l, NEW a, Covers({}, a, w, l)
      PROVE  Agrees(w, l)
  BY <1>6 DEF Covers, Has, Agrees
<1>7. job.target.windows \in Seq(SavedWindow)
  BY <1>1, JobFields DEF Snapshot
<1>8. Len(job.target.windows) \in Nat
  BY <1>7
<1>9. QED BY <1>1, <1>3, <1>4, <1>5, <1>6, <1>8 DEF CoversAll, Open

\* The restore matches the windows of its target to open ones.
LEMMA MatchesAreOpen ==
    ASSUME RestoreInv, job \in Job
    PROVE  \A i \in 1..Len(job.target.windows) :
              Matching(job.target.windows, Open)[i] \in Open \union {Nobody}
<1>1. job.target \in Snapshot /\ Open \in SUBSET Address /\ Nobody \notin Address
  BY JobFields, SnapshotAssumption DEF RestoreInv, RestoreTyped, DesktopTyped, SnapshotAssumption
<1> DEFINE M == Matching(job.target.windows, Open)
<1>2. M \in Seq(Open \union {Nobody}) /\ Len(M) = Len(job.target.windows)
  BY <1>1, MatchingOfSnapshot
<1> HIDE DEF M
<1>3. \A i \in 1..Len(M) : M[i] \in Open \union {Nobody}
  BY <1>2
<1>4. QED BY <1>2, <1>3 DEF M

\* An undisturbed restore puts every window it matched back as the snapshot
\* had it (diff_against, apply_diff).
THEOREM LayoutIsRestored == RestoreSpec => []LayoutRestored
<1>1. ASSUME RestoreInv PROVE LayoutRestored
  <2>1. SUFFICES ASSUME Applied, Undisturbed,
                        NEW i \in 1..Len(job.target.windows),
                        Matching(job.target.windows, Open)[i] # Nobody
                 PROVE  Agrees(job.target.windows[i],
                               live[Matching(job.target.windows, Open)[i]])
    BY DEF LayoutRestored
  <2>2. job \in Job
    BY <1>1, <2>1, WhenApplied
  <2>3. Matching(job.target.windows, Open)[i] \in Open
    BY <1>1, <2>1, <2>2, MatchesAreOpen
  <2>4. QED BY <1>1, <2>1, <2>3, WhenApplied DEF Matched
<1>2. QED BY <1>1, RestoreInvariant, PTL

\* The focus is back where it was in the snapshot, unless the restore itself
\* moved the window that had it (diff_against's last action).
THEOREM FocusIsRestored == RestoreSpec => []FocusRestored
<1>1. ASSUME RestoreInv PROVE FocusRestored
  <2>1. SUFFICES ASSUME Applied, Undisturbed, job.target.active \in Open
                 PROVE  \/ focus = job.target.active
                        \/ /\ job.before[2] = job.target.active
                           /\ live[job.target.active].ws # job.before[1][job.target.active].ws
    BY DEF FocusRestored
  <2>2. FocusOnCourse({}, job.target.active, live, focus, job.before)
    BY <1>1, <2>1, WhenApplied
  <2>3. QED BY <2>1, <2>2 DEF FocusOnCourse, Has, Open
<1>2. QED BY <1>1, RestoreInvariant, PTL

\* Two states of a window are the same if a restore sees no difference.
LEMMA AgreeingStates ==
    ASSUME NEW s \in State, NEW o \in State, NEW w \in SavedWindow, Agrees(w, s),
           \A f \in {"ws", "floating", "at", "size", "full", "pinned"} : w[f] = o[f]
    PROVE  s = o
<1>1. /\ w.ws = o.ws /\ w.floating = o.floating /\ w.at = o.at /\ w.size = o.size
      /\ w.full = o.full /\ w.pinned = o.pinned
  OBVIOUS
<1>2. /\ s \in [ws : Workspace, floating : BOOLEAN, at : {Layout} \union Geometry,
                size : {Layout} \union Geometry, full : 0..1, pinned : BOOLEAN]
      /\ o \in [ws : Workspace, floating : BOOLEAN, at : {Layout} \union Geometry,
                size : {Layout} \union Geometry, full : 0..1, pinned : BOOLEAN]
  BY DEF State
<1>3. /\ ~s.floating => s.at = Layout /\ s.size = Layout /\ ~s.pinned
      /\ ~o.floating => o.at = Layout /\ o.size = Layout /\ ~o.pinned
      /\ s.floating \in BOOLEAN /\ s.pinned \in BOOLEAN /\ o.pinned \in BOOLEAN
  BY StateFields
<1>4. s.ws = o.ws /\ s.floating = o.floating /\ s.full = o.full
  BY <1>1 DEF Agrees
<1>5. s.at = o.at /\ s.size = o.size /\ s.pinned = o.pinned
  BY <1>1, <1>3, <1>4 DEF Agrees
<1>6. QED BY <1>2, <1>4, <1>5

\* A restore that takes another back ends with the desktop that one found:
\* its target lists those windows, they are the open ones, and each is matched
\* to itself (snapshot_restore's pre-restore snapshot).
THEOREM RestoreIsReversible == RestoreSpec => []Reversible
<1>1. ASSUME RestoreInv PROVE Reversible
  <2>1. SUFFICES ASSUME Applied, Undisturbed, job.origin # <<>>
                 PROVE  live = job.origin[1]
    BY DEF Reversible
  <2> DEFINE ws == job.target.windows
             old == job.origin[1]
  <2>2. /\ job \in Job /\ Len(ws) \in Nat
        /\ \A i \in 1..Len(ws), a \in Open :
              Matched(ws, Open, i, a) => Agrees(ws[i], live[a])
    BY <1>1, <2>1, WhenApplied
  <2>3. ws \in Seq(SavedWindow) /\ job.origin \in Desktop
    BY <2>1, <2>2, JobFields DEF Snapshot
  <2>4. Open = DOMAIN old /\ Depicts(job.target, old)
    BY <1>1, <2>1, <2>2 DEF RestoreInv, OriginShows, Restoring, Undisturbed, Shows
  <2>5. PICK D \in SUBSET Address : old \in [D -> State]
    BY <2>3 DEF Desktop
  <2>6. old \in [Open -> State] /\ live \in [Open -> State] /\ Nobody \notin Open
    BY <1>1, <2>4, <2>5, SnapshotAssumption
       DEF RestoreInv, RestoreTyped, DesktopTyped, SnapshotAssumption
  <2>7. /\ \A i \in 1..Len(ws) :
              /\ ws[i].addr \in Open
              /\ \A f \in {"ws", "floating", "at", "size", "full", "pinned"} :
                    ws[i][f] = old[ws[i].addr][f]
        /\ \A i, j \in 1..Len(ws) : ws[i].addr = ws[j].addr => i = j
        /\ \A a \in Open : \E i \in 1..Len(ws) : ws[i].addr = a
    BY <2>4 DEF Depicts
  <2> HIDE DEF ws, old
  <2>8. \A i \in 1..Len(ws) : Matching(ws, Open)[i] = ws[i].addr
    BY <2>3, <2>6, <2>7, MatchingIsIdentity
  <2>9. ASSUME NEW a \in Open PROVE live[a] = old[a]
    <3>1. PICK i \in 1..Len(ws) : ws[i].addr = a
      BY <2>7
    <3>2. Matched(ws, Open, i, a)
      BY <2>6, <2>8, <3>1 DEF Matched
    <3>3. Agrees(ws[i], live[a]) /\ ws[i] \in SavedWindow
      BY <2>2, <2>3, <3>2
    <3>4. \A f \in {"ws", "floating", "at", "size", "full", "pinned"} : ws[i][f] = old[a][f]
      BY <2>7, <3>1
    <3>5. live[a] \in State /\ old[a] \in State
      BY <2>6
    <3>6. QED BY <3>3, <3>4, <3>5, AgreeingStates
  <2>10. QED BY <2>6, <2>9 DEF old
<1>2. QED BY <1>1, RestoreInvariant, PTL

-----------------------------------------------------------------------------
(* One connection to the accessibility bus.                                *)

Dropping == {c \in Client : req[c].pc = "drop"}

\* A connection to this bus is the cached one, or was dropped, and each drop
\* was decided on: those not carried out yet are in Dropping.
ConnectInv ==
    /\ DOMAIN req = Client
    /\ \A c \in Client : "pc" \in DOMAIN req[c]
    /\ made \in Nat /\ unavail \in Nat
    /\ bus.gen \in Nat \ {0}
    /\ lock # Unlocked => lock \in Client /\ cached = NoConn
    /\ \A c \in Client : req[c].pc = "connect" => lock = c
    /\ IF cached = NoConn THEN made + Cardinality(Dropping) <= unavail
       ELSE made + Cardinality(Dropping) <= unavail + 1

\* There are finitely many pending drops.
LEMMA DroppingFinite == IsFiniteSet(Dropping) /\ Cardinality(Dropping) \in Nat
<1>1. Dropping \in SUBSET Client
  BY DEF Dropping
<1>2. IsFiniteSet(Dropping)
  BY <1>1, FS_Subset, TreeAssumption
<1>3. QED BY <1>2, FS_CardinalityType

\* Before the first request nothing is connected.
LEMMA ConnectInit == A11yInit => ConnectInv
<1> SUFFICES ASSUME A11yInit PROVE ConnectInv
  OBVIOUS
<1>1. Dropping = {}
  BY DEF A11yInit, Done, Dropping
<1>2. Cardinality(Dropping) = 0
  BY <1>1, FS_EmptySet
<1>3. QED BY <1>2 DEF A11yInit, Done, ConnectInv, NoConn, Unlocked

\* A step of one request that neither connects nor drops.
LEMMA ConnectCalm ==
  ASSUME ConnectInv, NEW c \in Client,
         DOMAIN req' = Client,
         \A d \in Client \ {c} : req'[d] = req[d],
         "pc" \in DOMAIN req'[c], 
         req[c].pc # "drop", req'[c].pc \notin {"drop", "connect"},
         UNCHANGED <<made, unavail, bus, lock, cached>>
  PROVE  ConnectInv'
<1>1. Dropping' = Dropping
  BY DEF Dropping
<1>2. QED BY <1>1 DEF ConnectInv

\* An error taken for the absence of the bus, not at the connect itself.
LEMMA ConnectFail ==
  ASSUME ConnectInv, NEW c \in Client, req[c].pc # "drop",
         req' = [req EXCEPT ![c].pc = "drop"], unavail' = unavail + 1,
         UNCHANGED <<made, bus, cached>>,
         lock' = lock \/ (lock' = Unlocked /\ lock = c)
  PROVE  ConnectInv'
<1>1. /\ DOMAIN req' = Client
      /\ \A d \in Client : "pc" \in DOMAIN req'[d]
      /\ \A d \in Client : req'[d].pc = IF d = c THEN "drop" ELSE req[d].pc
  BY DEF ConnectInv
<1>2. Dropping' = Dropping \union {c} /\ c \notin Dropping
  BY <1>1 DEF Dropping
<1>3. Cardinality(Dropping') = Cardinality(Dropping) + 1
  BY <1>2, DroppingFinite, FS_AddElement
<1>4. \A d \in Client : req'[d].pc = "connect" => lock' = d
  BY <1>1 DEF ConnectInv
<1>5. QED BY <1>1, <1>3, <1>4, DroppingFinite DEF ConnectInv

\* Bus and applications change no request's place.
LEMMA ConnectDisturbed ==
  ASSUME ConnectInv, req' = Disturbed
  PROVE  /\ DOMAIN req' = Client
         /\ \A d \in Client : "pc" \in DOMAIN req'[d] /\ req'[d].pc = req[d].pc
         /\ Dropping' = Dropping
<1>1. /\ DOMAIN req' = Client
      /\ \A d \in Client : "pc" \in DOMAIN req'[d] /\ req'[d].pc = req[d].pc
  BY DEF ConnectInv, Disturbed
<1>2. QED BY <1>1 DEF Dropping

\* Every step keeps count of connections and drops.
LEMMA ConnectStep == ConnectInv /\ [A11yNext]_a11yVars => ConnectInv'
<1> SUFFICES ASSUME ConnectInv, [A11yNext]_a11yVars PROVE ConnectInv'
  OBVIOUS
<1> USE DEF world
<1>1. ASSUME NEW c \in Client, NEW ask \in Asks, Submit(c, ask) PROVE ConnectInv'
  BY <1>1, ConnectCalm DEF Submit, ConnectInv, Done
<1>2. ASSUME NEW c \in Client, NoFocus(c) PROVE ConnectInv'
  BY <1>2, ConnectCalm DEF NoFocus, ConnectInv, Done
<1>3. ASSUME NEW c \in Client, Take(c) PROVE ConnectInv'
  <2>1. CASE cached = NoConn
    <3>1. /\ DOMAIN req' = Client
          /\ \A d \in Client : "pc" \in DOMAIN req'[d]
          /\ \A d \in Client : req'[d].pc = IF d = c THEN "connect" ELSE req[d].pc
      BY <1>3, <2>1 DEF Take, ConnectInv
    <3>2. Dropping' = Dropping
      BY <3>1, <1>3 DEF Dropping, Take
    <3>3. \A d \in Client : req'[d].pc = "connect" => d = c
      BY <3>1, <1>3, TreeAssumption DEF Take, ConnectInv
    <3>4. QED BY <1>3, <2>1, <3>1, <3>2, <3>3 DEF Take, ConnectInv
  <2>2. CASE cached # NoConn
    BY <1>3, <2>2, ConnectCalm DEF Take, ConnectInv
  <2>3. QED BY <2>1, <2>2
<1>4. ASSUME NEW c \in Client, Connect(c) PROVE ConnectInv'
  <2>1. lock = c /\ cached = NoConn /\ req[c].pc = "connect"
    BY <1>4, TreeAssumption DEF Connect, ConnectInv
  <2>2. CASE Fail(c, "unavailable") /\ UNCHANGED <<cached, made>>
    BY <1>4, <2>1, <2>2, ConnectFail DEF Connect, Fail
  <2>3. CASE /\ cached' = bus.gen /\ made' = made + 1
             /\ req' = [req EXCEPT ![c].pc = "find", ![c].conn = bus.gen]
             /\ UNCHANGED unavail
    <3>1. /\ DOMAIN req' = Client
          /\ \A d \in Client : "pc" \in DOMAIN req'[d]
          /\ \A d \in Client : req'[d].pc = IF d = c THEN "find" ELSE req[d].pc
      BY <2>3 DEF ConnectInv
    <3>2. Dropping' = Dropping
      BY <3>1, <2>1 DEF Dropping
    <3>3. \A d \in Client : req'[d].pc # "connect"
      BY <3>1, <2>1 DEF ConnectInv
    <3>4. cached' # NoConn /\ made' + Cardinality(Dropping') <= unavail' + 1
      BY <2>1, <2>3, <3>2, DroppingFinite DEF ConnectInv, NoConn
    <3>5. QED BY <1>4, <2>3, <3>1, <3>3, <3>4 DEF Connect, ConnectInv
  <2>4. QED BY <1>4, <2>2, <2>3 DEF Connect
<1>5. ASSUME NEW c \in Client, DropConn(c) PROVE ConnectInv'
  <2>1. /\ DOMAIN req' = Client
        /\ \A d \in Client : "pc" \in DOMAIN req'[d]
        /\ \A d \in Client : req'[d].pc = IF d = c THEN "done" ELSE req[d].pc
    BY <1>5 DEF ConnectInv, DropConn, Done
  <2>2. Dropping' = Dropping \ {c} /\ c \in Dropping
    BY <2>1, <1>5 DEF Dropping, DropConn
  <2>3. Cardinality(Dropping') = Cardinality(Dropping) - 1
    BY <2>2, DroppingFinite, FS_RemoveElement
  <2>4. \A d \in Client : req'[d].pc # "connect"
    BY <2>1, <1>5, TreeAssumption DEF ConnectInv, DropConn
  <2>5. QED BY <1>5, <2>1, <2>3, <2>4, DroppingFinite DEF DropConn, ConnectInv
<1>6. ASSUME NEW c \in Client, Find(c) PROVE ConnectInv'
  BY <1>6, ConnectCalm DEF Find, Fail, ConnectInv, Done
<1>7. ASSUME NEW c \in Client, Proxy(c) PROVE ConnectInv'
  <2>1. CASE Fail(c, "unavailable")
    <3>1. req' = [req EXCEPT ![c].pc = "drop"] /\ unavail' = unavail + 1
      BY <2>1 DEF Fail
    <3>2. /\ req[c].pc # "drop" /\ UNCHANGED <<made, bus, cached>>
          /\ lock' = lock
      BY <1>7 DEF Proxy
    <3>3. QED BY <3>1, <3>2, ConnectFail
  <2>2. CASE req' = [req EXCEPT ![c].pc = "match"] /\ UNCHANGED unavail
    BY <1>7, <2>2, ConnectCalm DEF Proxy, ConnectInv
  <2>3. QED BY <1>7, <2>1, <2>2 DEF Proxy
<1>8. ASSUME NEW c \in Client, Match(c) PROVE ConnectInv'
  <2>1. req[c].pc = "match" /\ UNCHANGED <<made, unavail, bus, lock, cached>>
    BY <1>8 DEF Match, Fail
  <2>2. CASE req' = [req EXCEPT ![c] = Done("no_app")]
    BY <2>1, <2>2, ConnectCalm DEF ConnectInv, Done
  <2>3. ASSUME NEW root, NEW stack,
               req' = [req EXCEPT ![c].pc = "walk", ![c].calm = TRUE, ![c].root = root,
                                  ![c].stack = stack]
        PROVE  ConnectInv'
    BY <2>1, <2>3, ConnectCalm DEF ConnectInv
  <2>4. QED BY <1>8, <2>2, <2>3 DEF Match, Fail
<1>9. ASSUME NEW c \in Client, Visit(c) PROVE ConnectInv'
  <2>1. req[c].pc = "walk" /\ UNCHANGED <<made, unavail, bus, lock, cached>>
    BY <1>9 DEF Visit
  <2>2. /\ DOMAIN req' = Client
        /\ \A d \in Client \ {c} : req'[d] = req[d]
        /\ "pc" \in DOMAIN req'[c] /\ req'[c].pc \in {"walk", "children"}
    <3>1. PICK r : /\ req' = [req EXCEPT ![c] = r]
                   /\ "pc" \in DOMAIN r /\ r.pc \in {"walk", "children"}
      BY <1>9 DEF Visit, ConnectInv
    <3>2. QED BY <3>1 DEF ConnectInv
  <2>3. QED BY <2>1, <2>2, ConnectCalm
<1>10. ASSUME NEW c \in Client, Children(c) PROVE ConnectInv'
  BY <1>10, ConnectCalm DEF Children, ConnectInv
<1>11. ASSUME NEW c \in Client, AnswerWalk(c) PROVE ConnectInv'
  BY <1>11, ConnectCalm DEF AnswerWalk, ConnectInv, Done
<1>12. CASE BusStops
  BY <1>12, ConnectDisturbed DEF BusStops, ConnectInv
<1>13. CASE BusStarts
  <2>1. Dropping' = Dropping /\ unavail' = Cardinality(Dropping)
    BY <1>13 DEF BusStarts, Dropping
  <2>2. QED BY <1>13, <2>1, DroppingFinite DEF BusStarts, ConnectInv
<1>14. CASE Change
  BY <1>14, ConnectDisturbed DEF Change, ConnectInv
<1>15. CASE UNCHANGED a11yVars
  BY <1>15 DEF a11yVars, ConnectInv, Dropping
<1>16. QED
  BY <1>1, <1>2, <1>3, <1>4, <1>5, <1>6, <1>7, <1>8, <1>9, <1>10, <1>11, <1>12, <1>13,
     <1>14, <1>15 DEF A11yNext, Step

\* A bus is connected to once, and once more at most for every failure taken
\* for its absence (server.rs a11y_conn, a11y_error_response).
THEOREM OneConnection == A11ySpec => []ConnectsOnce
<1>1. ConnectInv => ConnectsOnce
  BY DroppingFinite DEF ConnectInv, ConnectsOnce
<1>2. QED BY <1>1, ConnectInit, ConnectStep, PTL DEF A11ySpec

-----------------------------------------------------------------------------
(* The walk of a tree, whatever becomes of it.                             *)

Fields == {"pc", "ask", "conn", "root", "stack", "out", "calm", "outcome"}
Listing == Seq([node : Node, depth : Nat, known : BOOLEAN])

\* What WalkBounded says of one list.
Bounded(out, cap) ==
    /\ Len(out) <= cap
    /\ \A i \in 1..Len(out) : out[i].depth <= MaxDepth
    /\ \A i \in 2..Len(out) : out[i].depth <= out[i - 1].depth + 1

\* The deeper entries of a stack are nearer to its top.
Deepens(stack) == \A i, j \in 1..Len(stack) : i <= j => stack[i].depth <= stack[j].depth

\* No entry is more than one level below the element listed last.
Follows(stack, out) ==
    out # <<>> => \A i \in 1..Len(stack) : stack[i].depth <= out[Len(out)].depth + 1

\* What a walk keeps to: in between listing an element and reading its children
\* its entry is on top.
Walking(r) ==
    /\ r.stack \in Seq(Entry) /\ Deepens(r.stack)
    /\ r.out \in Listing /\ Bounded(r.out, r.ask.cap)
    /\ Follows(r.stack, r.out)
    /\ r.pc = "children" =>
          /\ r.stack # <<>> /\ r.out # <<>>
          /\ r.stack[Len(r.stack)].depth = r.out[Len(r.out)].depth

WalkReq(r) ==
    /\ DOMAIN r = Fields
    /\ r.pc # "done" => r.ask.cap \in Nat \ {0}
    /\ IF r.pc \in {"walk", "children"} THEN Walking(r)
       ELSE r.pc # "done" => r.out = <<>>

WalkInv ==
    /\ DOMAIN req = Client
    /\ tree \in Trees
    /\ \A c \in Client : WalkReq(req[c])

\* A request that is answered claims nothing.
LEMMA DoneReq == \A outcome : WalkReq(Done(outcome))
BY DEF WalkReq, Done, Fields

\* Before the first request nothing is walked.
LEMMA WalkInit == A11yInit => WalkInv
BY DoneReq DEF A11yInit, WalkInv

\* An entry that is taken off.
LEMMA FrontOfStack ==
  ASSUME NEW stack \in Seq(Entry), stack # <<>>
  PROVE  /\ Front(stack) \in Seq(Entry)
         /\ Len(Front(stack)) = Len(stack) - 1
         /\ \A i \in 1..Len(stack) - 1 : Front(stack)[i] = stack[i]
<1>1. Len(stack) \in Nat \ {0}
  BY EmptySeq
<1>2. \A i \in 1..Len(stack) - 1 : stack[i] \in Entry
  BY <1>1, ElementOfSeq
<1> DEFINE n == Len(stack) - 1
<1>3. n \in Nat /\ n - 1 + 1 = n /\ \A i \in 1..n : 1 + i - 1 = i
  BY <1>1
<1>4. /\ SubSeq(stack, 1, n) \in Seq(Entry)
      /\ Len(SubSeq(stack, 1, n)) = IF 1 <= n THEN n - 1 + 1 ELSE 0
      /\ \A i \in 1..n - 1 + 1 : SubSeq(stack, 1, n)[i] = stack[1 + i - 1]
  BY <1>2, <1>3, SubSeqProperties
<1> HIDE DEF n
<1>5. /\ Len(SubSeq(stack, 1, n)) = n
      /\ \A i \in 1..n : SubSeq(stack, 1, n)[i] = stack[i]
  BY <1>3, <1>4
<1>6. QED BY <1>4, <1>5 DEF n, Front

\* An element that is listed, from the top of the stack.
LEMMA Lists ==
  ASSUME NEW stack \in Seq(Entry), stack # <<>>, Deepens(stack),
         NEW out \in Listing, NEW cap \in Nat, Bounded(out, cap), Follows(stack, out),
         Len(out) < cap, NEW known \in BOOLEAN,
         stack[Len(stack)].depth <= MaxDepth
  PROVE  LET new == Append(out, Item(stack[Len(stack)], known))
         IN  /\ new \in Listing /\ Bounded(new, cap) /\ Follows(stack, new)
             /\ new # <<>> /\ stack[Len(stack)].depth = new[Len(new)].depth
<1> DEFINE top == stack[Len(stack)]
           new == Append(out, Item(top, known))
           n == Len(out)
<1>1. Len(stack) \in Nat \ {0} /\ n \in Nat
  BY EmptySeq, LenProperties DEF Listing
<1>2. \A i \in 1..Len(stack) : stack[i] \in Entry
  BY ElementOfSeq
<1>3. top \in Entry /\ \A i \in 1..Len(stack) : stack[i].depth <= top.depth
  BY <1>1, <1>2 DEF Deepens
<1>4. /\ Item(top, known) \in [node : Node, depth : Nat, known : BOOLEAN]
      /\ Item(top, known).depth = top.depth
  BY <1>3 DEF Item, Entry
<1>5. /\ new \in Listing /\ new # <<>> /\ Len(new) = n + 1
      /\ \A i \in 1..n : new[i] = out[i]
      /\ new[n + 1].depth = top.depth
  BY <1>4, AppendProperties DEF Listing
<1> HIDE DEF new
<1>6. Follows(stack, new)
  BY <1>1, <1>2, <1>3, <1>5 DEF Follows, Entry
<1>7. Bounded(new, cap)
  <2>1. Len(new) <= cap
    BY <1>1, <1>5
  <2>2. \A i \in 1..Len(new) : new[i].depth <= MaxDepth
    BY <1>1, <1>5 DEF Bounded
  <2>3. ASSUME NEW i \in 2..Len(new) PROVE new[i].depth <= new[i - 1].depth + 1
    <3>1. CASE i = n + 1
      BY <1>1, <1>5, <3>1 DEF Follows
    <3>2. CASE i <= n
      BY <1>1, <1>5, <3>2 DEF Bounded
    <3>3. QED BY <1>1, <1>5, <3>1, <3>2
  <2>4. QED BY <2>1, <2>2, <2>3 DEF Bounded
<1>8. QED BY <1>5, <1>6, <1>7 DEF new

\* A stack that has lost its top.
LEMMA StaysDeepening ==
  ASSUME NEW stack \in Seq(Entry), stack # <<>>, Deepens(stack),
         NEW out, Follows(stack, out)
  PROVE  Front(stack) \in Seq(Entry) /\ Deepens(Front(stack)) /\ Follows(Front(stack), out)
<1>1. Len(stack) \in Nat \ {0}
  BY EmptySeq
<1> DEFINE rest == Front(stack)
<1>2. /\ rest \in Seq(Entry) /\ Len(rest) = Len(stack) - 1
      /\ \A i \in 1..Len(stack) - 1 : rest[i] = stack[i]
  BY FrontOfStack
<1> HIDE DEF rest
<1>3. \A i \in 1..Len(rest) : i \in 1..Len(stack) /\ rest[i] = stack[i]
  BY <1>1, <1>2
<1>4. Deepens(rest)
  BY <1>3 DEF Deepens
<1>5. Follows(rest, out)
  BY <1>3 DEF Follows
<1>6. QED BY <1>2, <1>4, <1>5 DEF rest

\* The children of the element listed last, in any order, take its place.
LEMMA Descends ==
  ASSUME NEW stack \in Seq(Entry), stack # <<>>, Deepens(stack),
         NEW kids \in Seq(Node),
         NEW out \in Listing, out # <<>>,
         stack[Len(stack)].depth = out[Len(out)].depth, Follows(stack, out)
  PROVE  LET pushed == Pushed([i \in 1..Len(kids) |->
                          [node |-> kids[i], depth |-> stack[Len(stack)].depth + 1]])
             new == Front(stack) \o pushed
         IN  new \in Seq(Entry) /\ Deepens(new) /\ Follows(new, out)
<1> DEFINE d == stack[Len(stack)].depth
           entries == [i \in 1..Len(kids) |-> [node |-> kids[i], depth |-> d + 1]]
           rest == Front(stack)
           pushed == Pushed(entries)
           new == rest \o pushed
           n == Len(kids)
<1>1. Len(stack) \in Nat \ {0} /\ n \in Nat
  BY EmptySeq, LenProperties
<1>2. \A i \in 1..Len(stack) : stack[i] \in Entry /\ stack[i].depth \in Nat
  <2>1. \A i \in 1..Len(stack) : stack[i] \in Entry
    BY ElementOfSeq
  <2>2. QED BY <2>1 DEF Entry
<1>3. d \in Nat /\ \A i \in 1..Len(stack) : stack[i].depth <= d
  BY <1>1, <1>2 DEF Deepens
<1>4. /\ rest \in Seq(Entry)
      /\ Len(rest) = Len(stack) - 1
      /\ \A i \in 1..Len(rest) : rest[i] = stack[i]
  BY FrontOfStack
<1>5. \A i \in 1..n : kids[i] \in Node
  BY ElementOfSeq
<1> HIDE DEF d
<1>6. /\ entries \in [1..n -> Entry]
      /\ \A i \in 1..n : entries[i].depth = d + 1
  BY <1>3, <1>5 DEF Entry
<1>7. entries \in Seq(Entry) /\ Len(entries) = n
  BY <1>1, <1>6
<1> HIDE DEF entries
<1>8. /\ pushed \in Seq(Entry) /\ Len(pushed) = n
      /\ \A i \in 1..n : pushed[i].depth = d + 1
  <2>1. pushed = [i \in 1..n |-> entries[n - i + 1]]
    BY <1>7 DEF Pushed, Reverse
  <2>2. \A i \in 1..n : n - i + 1 \in 1..n
    BY <1>1
  <2>3. pushed \in [1..n -> Entry]
    BY <2>1, <2>2, <1>6
  <2>4. pushed \in Seq(Entry) /\ Len(pushed) = n
    BY <1>1, <2>3
  <2>5. QED BY <1>6, <2>1, <2>2, <2>4
<1> HIDE DEF rest, pushed
<1>9. /\ new \in Seq(Entry) /\ Len(new) = Len(rest) + n
      /\ \A i \in 1..Len(rest) + n :
            new[i] = IF i <= Len(rest) THEN rest[i] ELSE pushed[i - Len(rest)]
  <2>1. rest \in Seq(Entry) /\ pushed \in Seq(Entry) /\ Len(pushed) = n
    BY <1>4, <1>8
  <2>2. /\ rest \o pushed \in Seq(Entry)
        /\ Len(rest \o pushed) = Len(rest) + Len(pushed)
        /\ \A i \in 1..Len(rest) + Len(pushed) :
              (rest \o pushed)[i] = IF i <= Len(rest) THEN rest[i] ELSE pushed[i - Len(rest)]
    <3>1. ASSUME NEW a \in Seq(Entry), NEW b \in Seq(Entry)
          PROVE  /\ a \o b \in Seq(Entry)
                 /\ Len(a \o b) = Len(a) + Len(b)
                 /\ \A i \in 1..Len(a) + Len(b) :
                       (a \o b)[i] = IF i <= Len(a) THEN a[i] ELSE b[i - Len(a)]
      BY ConcatProperties
    <3>2. QED BY <2>1, <3>1
  <2>3. QED BY <2>1, <2>2
<1>10. \A i \in 1..Len(new) :
          new[i].depth = IF i <= Len(rest) THEN stack[i].depth ELSE d + 1
  BY <1>1, <1>4, <1>8, <1>9
<1> HIDE DEF new
<1>11. Deepens(new)
  <2>1. ASSUME NEW i \in 1..Len(new), NEW j \in 1..Len(new), i <= j
        PROVE  new[i].depth <= new[j].depth
    <3>1. CASE j <= Len(rest)
      BY <1>1, <1>4, <1>9, <1>10, <2>1, <3>1 DEF Deepens
    <3>2. CASE j > Len(rest)
      <4>1. new[j].depth = d + 1
        BY <1>10, <3>2
      <4>2. CASE i <= Len(rest)
        <5>1. i \in 1..Len(stack) /\ new[i].depth = stack[i].depth
          BY <1>1, <1>4, <1>10, <4>2
        <5>2. QED BY <1>2, <1>3, <4>1, <5>1
      <4>3. CASE i > Len(rest)
        BY <1>3, <1>10, <4>1, <4>3
      <4>4. QED BY <1>1, <1>4, <4>2, <4>3
    <3>3. QED BY <1>1, <1>4, <1>9, <3>1, <3>2
  <2>2. QED BY <2>1 DEF Deepens
<1>12. Follows(new, out)
  BY <1>1, <1>2, <1>3, <1>4, <1>9, <1>10 DEF Follows, d
<1>13. QED BY <1>9, <1>11, <1>12 DEF new, pushed, rest, entries, d

\* A step of one request; the world keeps to its trees.
LEMMA WalkOne ==
  ASSUME WalkInv, NEW c \in Client, NEW r, WalkReq(r),
         req' = [req EXCEPT ![c] = r], tree' = tree
  PROVE  WalkInv'
BY DEF WalkInv

\* The same for a step that takes the request on to another place outside the walk.
LEMMA WalkElsewhere ==
  ASSUME WalkInv, NEW c \in Client, req[c].pc \notin {"walk", "children", "done"},
         DOMAIN req' = Client, \A d \in Client \ {c} : req'[d] = req[d],
         DOMAIN req'[c] = Fields, req'[c].ask = req[c].ask, req'[c].out = req[c].out,
         req'[c].pc \notin {"walk", "children"}, tree' = tree
  PROVE  WalkInv'
<1>1. WalkReq(req'[c])
  BY DEF WalkInv, WalkReq
<1>2. QED BY <1>1 DEF WalkInv

\* Every step keeps every walk within its bounds.
LEMMA WalkStep == WalkInv /\ [A11yNext]_a11yVars => WalkInv'
<1> SUFFICES ASSUME WalkInv, [A11yNext]_a11yVars PROVE WalkInv'
  OBVIOUS
<1> USE DEF world
<1>1. ASSUME NEW c \in Client, NEW ask \in Asks, Submit(c, ask) PROVE WalkInv'
  <2> DEFINE r == [Done("none") EXCEPT !.pc = "conn", !.ask = ask]
  <2>1. ask.cap \in Nat \ {0}
    BY TreeAssumption
  <2>2. WalkReq(r)
    BY <2>1 DEF WalkReq, Done, Fields
  <2>3. QED BY <1>1, <2>2, WalkOne DEF Submit
<1>2. ASSUME NEW c \in Client, NoFocus(c) PROVE WalkInv'
  BY <1>2, WalkOne, DoneReq DEF NoFocus
<1>3. ASSUME NEW c \in Client, NEW kind,
             req[c].pc \notin {"walk", "children", "done"}, Fail(c, kind), tree' = tree
      PROVE  WalkInv'
  <2>1. CASE kind = "unavailable"
    <3>1. WalkReq([req[c] EXCEPT !.pc = "drop"])
      BY <1>3 DEF WalkReq, WalkInv, Fields
    <3>2. QED BY <1>3, <2>1, <3>1, WalkOne DEF Fail
  <2>2. CASE kind # "unavailable"
    BY <1>3, <2>2, WalkOne, DoneReq DEF Fail
  <2>3. QED BY <2>1, <2>2
<1>4. ASSUME NEW c \in Client, Take(c) PROVE WalkInv'
  BY <1>4, WalkElsewhere DEF Take, WalkInv, WalkReq, Fields
<1>5. ASSUME NEW c \in Client, Connect(c) PROVE WalkInv'
  <2>1. CASE Fail(c, "unavailable")
    BY <1>3, <1>5, <2>1 DEF Connect
  <2>2. CASE req' = [req EXCEPT ![c].pc = "find", ![c].conn = bus.gen]
    BY <1>5, <2>2, WalkElsewhere DEF Connect, WalkInv, WalkReq, Fields
  <2>3. QED BY <1>5, <2>1, <2>2 DEF Connect
<1>6. ASSUME NEW c \in Client, DropConn(c) PROVE WalkInv'
  BY <1>6, WalkOne, DoneReq DEF DropConn
<1>7. ASSUME NEW c \in Client, Find(c) PROVE WalkInv'
  <2>1. WalkReq([req[c] EXCEPT !.pc = "proxy"])
    BY <1>7 DEF WalkReq, WalkInv, Fields, Find
  <2>2. QED BY <1>3, <1>7, <2>1, WalkOne DEF Find
<1>8. ASSUME NEW c \in Client, Proxy(c) PROVE WalkInv'
  <2>1. WalkReq([req[c] EXCEPT !.pc = "match"])
    BY <1>8 DEF WalkReq, WalkInv, Fields, Proxy
  <2>2. QED BY <1>3, <1>8, <2>1, WalkOne DEF Proxy
<1>9. ASSUME NEW c \in Client, Match(c) PROVE WalkInv'
  <2>1. CASE req' = [req EXCEPT ![c] = Done("no_app")]
    BY <1>9, <2>1, WalkOne, DoneReq DEF Match
  <2>2. ASSUME NEW root \in Node,
               req' = [req EXCEPT ![c].pc = "walk", ![c].calm = TRUE, ![c].root = root,
                                  ![c].stack = <<[node |-> root, depth |-> 0]>>]
        PROVE  WalkInv'
    <3> DEFINE r == req'[c]
    <3>1. <<[node |-> root, depth |-> 0]>> \in Seq(Entry)
      BY DEF Entry
    <3>2. /\ DOMAIN req' = Client /\ \A d \in Client \ {c} : req'[d] = req[d]
          /\ DOMAIN r = Fields /\ r.pc = "walk" /\ r.ask = req[c].ask
          /\ r.out = req[c].out /\ r.stack = <<[node |-> root, depth |-> 0]>>
      BY <2>2 DEF WalkReq, WalkInv, Fields
    <3>3. r.out = <<>> /\ r.ask.cap \in Nat \ {0}
      BY <1>9, <3>2 DEF WalkReq, WalkInv, Match
    <3> HIDE DEF r
    <3>4. Walking(r)
      BY <3>1, <3>2, <3>3 DEF Walking, Deepens, Bounded, Follows, Listing
    <3>5. WalkReq(r)
      BY <3>2, <3>3, <3>4 DEF WalkReq
    <3>6. tree' = tree
      BY <1>9 DEF Match
    <3>7. QED BY <3>2, <3>5, <3>6 DEF WalkInv, r
  <2>3. \A i \in 1..Len(Roots) : Roots[i].root \in Node
    <3>1. \A i \in 1..Len(Roots) : Roots[i] \in [root : Node, pid : STRING]
      BY TreeAssumption, ElementOfSeq
    <3>2. QED BY <3>1
  <2>4. QED BY <1>9, <2>1, <2>2, <2>3 DEF Match, Fail
<1>10. ASSUME NEW c \in Client, Visit(c) PROVE WalkInv'
  <2> DEFINE q == req[c]
             top == q.stack[Len(q.stack)]
             r == req'[c]
  <2>1. /\ q.pc = "walk" /\ q.stack # <<>> /\ ~Full(q) /\ tree' = tree
        /\ WalkReq(q) /\ Walking(q) /\ q.ask.cap \in Nat \ {0}
    BY <1>10 DEF Visit, WalkInv, WalkReq
  <2>2. /\ DOMAIN req' = Client /\ \A d \in Client \ {c} : req'[d] = req[d]
        /\ DOMAIN r = Fields /\ r.ask = q.ask
        /\ \/ r.pc = "walk" /\ r.stack = Front(q.stack) /\ r.out = q.out
           \/ /\ top.depth <= MaxDepth /\ r.pc = "children" /\ r.stack = q.stack
              /\ r.out = Append(q.out, Item(top, Reads(c, top.node)))
    <3>1. CASE req' = [req EXCEPT ![c].stack = Front(@)]
      BY <2>1, <3>1 DEF WalkInv, WalkReq, Fields
    <3>2. CASE /\ top.depth <= MaxDepth
               /\ req' = [req EXCEPT ![c].pc = "children",
                             ![c].out = Append(@, Item(top, Reads(c, top.node)))]
      BY <2>1, <3>2 DEF WalkInv, WalkReq, Fields
    <3>3. QED BY <1>10, <3>1, <3>2 DEF Visit
  <2> HIDE DEF r
  <2>3. CASE r.pc = "walk" /\ r.stack = Front(q.stack) /\ r.out = q.out
    <3>1. /\ r.stack \in Seq(Entry) /\ Deepens(r.stack) /\ Follows(r.stack, r.out)
      BY <2>1, <2>3, StaysDeepening DEF Walking
    <3>2. Walking(r)
      BY <2>1, <2>2, <2>3, <3>1 DEF Walking
    <3>3. WalkReq(r)
      BY <2>1, <2>2, <2>3, <3>2 DEF WalkReq
    <3>4. QED BY <2>1, <2>2, <3>3 DEF WalkInv, r
  <2>4. CASE /\ top.depth <= MaxDepth /\ r.pc = "children" /\ r.stack = q.stack
             /\ r.out = Append(q.out, Item(top, Reads(c, top.node)))
    <3>1. Reads(c, top.node) \in BOOLEAN
      BY DEF Reads, Alive
    <3>2. Len(q.out) < q.ask.cap
      <4>1. Len(q.out) \in Nat
        BY <2>1, LenProperties DEF Walking, Listing
      <4>2. QED BY <4>1, <2>1 DEF Full
    <3>3. /\ q.stack \in Seq(Entry) /\ Deepens(q.stack)
          /\ q.out \in Listing /\ Bounded(q.out, q.ask.cap) /\ Follows(q.stack, q.out)
      BY <2>1 DEF Walking
    <3>4. /\ r.out \in Listing /\ Bounded(r.out, q.ask.cap) /\ Follows(q.stack, r.out)
          /\ r.out # <<>> /\ q.stack[Len(q.stack)].depth = r.out[Len(r.out)].depth
      <4> DEFINE known == Reads(c, top.node)
                 new == Append(q.out, Item(top, known))
      <4> HIDE DEF q, known
      <4>1. known \in BOOLEAN /\ q.ask.cap \in Nat /\ q.stack # <<>> /\ top.depth <= MaxDepth
        BY <2>1, <2>4, <3>1 DEF known
      <4>2. /\ new \in Listing /\ Bounded(new, q.ask.cap) /\ Follows(q.stack, new)
            /\ new # <<>> /\ q.stack[Len(q.stack)].depth = new[Len(new)].depth
        BY <3>2, <3>3, <4>1, Lists
      <4>3. r.out = new
        BY <2>4 DEF known
      <4>4. QED BY <4>2, <4>3
    <3>5. Walking(r)
      BY <2>1, <2>2, <2>4, <3>3, <3>4 DEF Walking
    <3>6. WalkReq(r)
      BY <2>1, <2>2, <2>4, <3>5 DEF WalkReq
    <3>7. QED BY <2>1, <2>2, <3>6 DEF WalkInv, r
  <2>5. QED BY <2>2, <2>3, <2>4
<1>11. ASSUME NEW c \in Client, Children(c) PROVE WalkInv'
  <2> DEFINE q == req[c]
             top == q.stack[Len(q.stack)]
             kids == IF Reads(c, top.node) THEN tree[top.node] ELSE <<>>
             entries == [i \in 1..Len(kids) |-> [node |-> kids[i], depth |-> top.depth + 1]]
             r == req'[c]
  <2>1. /\ q.pc = "children" /\ tree' = tree /\ tree \in Trees
        /\ WalkReq(q) /\ Walking(q) /\ q.ask.cap \in Nat \ {0}
    BY <1>11 DEF Children, WalkInv, WalkReq
  <2>2. req' = [req EXCEPT ![c].pc = "walk", ![c].stack = Front(@) \o Pushed(entries)]
    BY <1>11 DEF Children
  <2>3. kids \in Seq(Node)
    BY <2>1, TreeAssumption DEF Reads
  <2> HIDE DEF kids
  <2>4. /\ DOMAIN req' = Client /\ \A d \in Client \ {c} : req'[d] = req[d]
        /\ DOMAIN r = Fields /\ r.ask = q.ask /\ r.pc = "walk" /\ r.out = q.out
        /\ r.stack = Front(q.stack) \o Pushed(entries)
    BY <2>1, <2>2 DEF WalkInv, WalkReq, Fields
  <2>5. /\ q.stack \in Seq(Entry) /\ Deepens(q.stack) /\ q.stack # <<>>
        /\ q.out \in Listing /\ q.out # <<>> /\ Follows(q.stack, q.out)
        /\ q.stack[Len(q.stack)].depth = q.out[Len(q.out)].depth
    BY <2>1 DEF Walking
  <2> HIDE DEF r, q
  <2>6. r.stack \in Seq(Entry) /\ Deepens(r.stack) /\ Follows(r.stack, q.out)
    BY <2>3, <2>4, <2>5, Descends
  <2>7. Walking(r)
    BY <2>1, <2>4, <2>6 DEF Walking
  <2>8. WalkReq(r)
    BY <2>1, <2>4, <2>7 DEF WalkReq
  <2>9. QED BY <2>1, <2>4, <2>8 DEF WalkInv, r
<1>12. ASSUME NEW c \in Client, AnswerWalk(c) PROVE WalkInv'
  <2> DEFINE r == [Done("ok") EXCEPT
                     !.out = IF req[c].ask.wanted = Node THEN req[c].out
                             ELSE Hits(req[c].out, req[c].ask.wanted),
                     !.root = req[c].root, !.ask = req[c].ask, !.calm = req[c].calm]
  <2>1. WalkReq(r)
    BY DEF WalkReq, Done, Fields
  <2>2. QED BY <1>12, <2>1, WalkOne DEF AnswerWalk
<1>13. ASSUME req' = Disturbed, tree' \in Trees PROVE WalkInv'
  <2>1. ASSUME NEW c \in Client PROVE WalkReq([req[c] EXCEPT !.calm = FALSE])
    <3> DEFINE r == [req[c] EXCEPT !.calm = FALSE]
    <3>1. /\ DOMAIN r = Fields /\ r.pc = req[c].pc /\ r.ask = req[c].ask
          /\ r.out = req[c].out /\ r.stack = req[c].stack
          /\ WalkReq(req[c])
      BY DEF WalkInv, WalkReq, Fields
    <3> HIDE DEF r
    <3>2. WalkReq(r)
      BY <3>1 DEF WalkReq, Walking
    <3>3. QED BY <3>2 DEF r
  <2>2. QED BY <1>13, <2>1 DEF WalkInv, Disturbed
<1>14. CASE BusStops
  BY <1>13, <1>14 DEF BusStops, WalkInv
<1>15. CASE BusStarts
  BY <1>15 DEF BusStarts, WalkInv
<1>16. CASE Change
  BY <1>13, <1>16 DEF Change
<1>17. CASE UNCHANGED a11yVars
  BY <1>17 DEF a11yVars, WalkInv
<1>18. QED
  BY <1>1, <1>2, <1>4, <1>5, <1>6, <1>7, <1>8, <1>9, <1>10, <1>11, <1>12, <1>14, <1>15,
     <1>16, <1>17 DEF A11yNext, Step

\* However the tree changes under it, a walk's list stays within the cap and the
\* depth and descends one level at a time (A11y::walk).
THEOREM WalkStaysBounded == A11ySpec => []WalkBounded
<1>1. WalkInv => WalkBounded
  BY DEF WalkInv, WalkReq, Walking, Bounded, WalkBounded
<1>2. QED BY <1>1, WalkInit, WalkStep, PTL DEF A11ySpec

-----------------------------------------------------------------------------
(* What a tree and a stack stand for.                                      *)

\* An element that a calm walk lists, and an entry of its stack.
Shown == [node : Node, depth : Nat, known : {TRUE}]
Reachable(t) == [node : DOMAIN t \union {Null}, depth : 0..MaxDepth + 1]

\* The preorder of a tree is the node and then those of its children.
LEMMA PreorderIs ==
    ASSUME NEW t \in Trees
    PROVE  /\ \A d \in 0..MaxDepth + 1, n \in Node : Preorder(t, d, n) \in Seq(Shown)
           /\ \A d \in 0..MaxDepth + 1, n \in Node :
                 (d > MaxDepth \/ n \notin DOMAIN t) => Preorder(t, d, n) = <<>>
           /\ \A d \in 0..MaxDepth, n \in DOMAIN t :
                 Preorder(t, d, n) =
                     <<[node |-> n, depth |-> d, known |-> TRUE]>>
                     \o FlattenSeq([i \in 1..Len(t[n]) |-> Preorder(t, d + 1, t[n][i])])
<1> DEFINE K == MaxDepth + 1
           L == [Node -> Seq(Shown)]
           Listed(k, m, g) == <<[node |-> m, depth |-> MaxDepth + 1 - k, known |-> TRUE]>>
                              \o FlattenSeq([i \in 1..Len(t[m]) |-> g[t[m][i]]])
           Level(k, g) == [m \in Node |-> IF k = 0 \/ m \notin DOMAIN t THEN <<>>
                                          ELSE Listed(k, m, g)]
           base == [m \in Node |-> <<>>]
           step == [p \in (1..K) \X L |-> Level(p[1], p[2])]
<1>1. /\ MaxDepth \in Nat /\ K \in Nat /\ DOMAIN t \subseteq Node
      /\ \A m \in DOMAIN t : t[m] \in Seq(Node)
  BY TreeAssumption
<1>2. <<>> \in Seq(Shown) /\ base \in L
  OBVIOUS
<1>3. ASSUME NEW k \in 0..K, NEW m \in DOMAIN t, NEW g \in L
      PROVE  Listed(k, m, g) \in Seq(Shown)
  <2> DEFINE item == [node |-> m, depth |-> MaxDepth + 1 - k, known |-> TRUE]
             parts == [i \in 1..Len(t[m]) |-> g[t[m][i]]]
  <2>1. item \in Shown
    BY <1>1 DEF Shown
  <2>2. <<item>> \in Seq(Shown)
    BY <2>1
  <2>3. parts \in Seq(Seq(Shown))
    <3>1. t[m] \in Seq(Node) /\ Len(t[m]) \in Nat
      BY <1>1
    <3>2. \A i \in 1..Len(t[m]) : t[m][i] \in Node
      BY <3>1, ElementOfSeq
    <3>3. \A i \in 1..Len(t[m]) : g[t[m][i]] \in Seq(Shown)
      BY <3>2
    <3>4. QED BY <3>1, <3>3
  <2> HIDE DEF item, parts
  <2>4. FlattenSeq(parts) \in Seq(Shown)
    BY <2>3, FlattenJoin
  <2>5. <<item>> \o FlattenSeq(parts) \in Seq(Shown)
    BY <2>2, <2>4, ConcatProperties
  <2>6. QED BY <2>5 DEF item, parts
<1> HIDE DEF Listed
<1>4. ASSUME NEW k \in 0..K, NEW g \in L PROVE Level(k, g) \in L
  BY <1>2, <1>3
<1>5. step \in Steps(K, L)
  <2>1. \A p \in (1..K) \X L : Level(p[1], p[2]) \in L
    BY <1>4
  <2> HIDE DEF Level, L
  <2>2. QED BY <2>1 DEF Steps
<1>6. PICK f : Runs(f, K, L, base, step)
  <2> HIDE DEF K, L, base, step
  <2>1. QED BY <1>1, <1>2, <1>5, StepsExist
<1>7. /\ f \in [0..K -> L] /\ f[0] = base
      /\ \A k \in 1..K : f[k] = Level(k, f[k - 1])
  <2>1. f \in [0..K -> L] /\ f[0] = base /\ \A k \in 1..K : f[k] = step[<<k, f[k - 1]>>]
    BY <1>6 DEF Runs
  <2>2. \A k \in 1..K : <<k, f[k - 1]>> \in (1..K) \X L
    <3>1. \A k \in 1..K : k - 1 \in 0..K
      BY <1>1
    <3> HIDE DEF L, K, base, step
    <3>2. QED BY <2>1, <3>1
  <2>3. \A k \in 1..K : step[<<k, f[k - 1]>>] = Level(k, f[k - 1])
    <3> HIDE DEF Level, L, K
    <3>1. QED BY <2>2
  <2>4. QED BY <2>1, <2>3
<1> DEFINE Solves(g) ==
      g = [k \in 0..MaxDepth + 1 |->
             [m \in Node |->
                IF k = 0 \/ m \notin DOMAIN t THEN <<>>
                ELSE <<[node |-> m, depth |-> MaxDepth + 1 - k, known |-> TRUE]>>
                     \o FlattenSeq([i \in 1..Len(t[m]) |-> g[k - 1][t[m][i]]])]]
<1>8. \A g : Solves(g) <=> g = [k \in 0..K |-> Level(k, g[k - 1])]
  BY DEF Listed
<1> DEFINE below == CHOOSE g : Solves(g)
<1>9. \A d, n : Preorder(t, d, n) = below[MaxDepth + 1 - d][n]
  BY DEF Preorder
<1> HIDE DEF Solves
<1>10. Solves(f)
  <2>1. \A k \in 0..K : f[k] = Level(k, f[k - 1])
    <3>1. f[0] = Level(0, f[0 - 1])
      BY <1>7
    <3>2. \A k \in 0..K : k = 0 \/ k \in 1..K
      BY <1>1
    <3> HIDE DEF Level
    <3>3. QED BY <1>7, <3>1, <3>2
  <2>2. f = [k \in 0..K |-> f[k]]
    BY <1>7
  <2> HIDE DEF Level, K
  <2>3. f = [k \in 0..K |-> Level(k, f[k - 1])]
    BY <2>1, <2>2
  <2>4. QED BY <1>8, <2>3
<1>11. Solves(below)
  BY <1>10
<1> HIDE DEF below
<1>12. \A k \in 0..K : below[k] = f[k]
  <2> DEFINE S == {k \in 0..K : below[k] = f[k]}
  <2>1. \A k \in 0..K : below[k] = Level(k, below[k - 1])
    <3> HIDE DEF Level
    <3>1. QED BY <1>8, <1>11
  <2>2. 0 \in S
    BY <1>1, <1>7, <2>1
  <2>3. ASSUME NEW k \in 1..K, k - 1 \in S PROVE k \in S
    <3>1. k \in 0..K /\ below[k - 1] = f[k - 1]
      BY <2>3
    <3> HIDE DEF Level
    <3>2. QED BY <1>7, <2>1, <3>1
  <2> HIDE DEF S, K
  <2>4. \A k \in 0..K : k \in S
    BY <1>1, <2>2, <2>3, UpTo
  <2>5. QED BY <2>4 DEF S
<1>13. \A d \in 0..K : \A n : K - d \in 0..K /\ Preorder(t, d, n) = f[K - d][n]
  BY <1>1, <1>9, <1>12
<1>14. ASSUME NEW d \in 0..K, NEW n \in Node PROVE Preorder(t, d, n) \in Seq(Shown)
  <2>1. f[K - d] \in L
    BY <1>7, <1>13
  <2>2. QED BY <1>13, <2>1
<1>15. ASSUME NEW d \in 0..K, NEW n \in Node, d > MaxDepth \/ n \notin DOMAIN t
       PROVE  Preorder(t, d, n) = <<>>
  <2>1. CASE d > MaxDepth
    <3>1. K - d = 0
      BY <1>1, <2>1
    <3>2. QED BY <1>7, <1>13, <3>1
  <2>2. CASE d <= MaxDepth /\ n \notin DOMAIN t
    <3>1. K - d \in 1..K
      BY <1>1, <2>2
    <3>2. f[K - d] = Level(K - d, f[(K - d) - 1])
      BY <1>7, <3>1
    <3>3. QED BY <1>13, <2>2, <3>2
  <2>3. QED BY <1>1, <1>15, <2>1, <2>2
<1>16. ASSUME NEW d \in 0..MaxDepth, NEW n \in DOMAIN t
       PROVE  Preorder(t, d, n) =
                <<[node |-> n, depth |-> d, known |-> TRUE]>>
                \o FlattenSeq([i \in 1..Len(t[n]) |-> Preorder(t, d + 1, t[n][i])])
  <2>1. d \in 0..K /\ d + 1 \in 0..K /\ K - d \in 1..K /\ K - (d + 1) = (K - d) - 1
        /\ MaxDepth + 1 - (K - d) = d /\ n \in Node
    BY <1>1
  <2>2. f[K - d] = Level(K - d, f[(K - d) - 1])
    BY <1>7, <2>1
  <2>3. Preorder(t, d, n) = Listed(K - d, n, f[(K - d) - 1])
    BY <1>13, <2>1, <2>2
  <2>4. \A m : Preorder(t, d + 1, m) = f[(K - d) - 1][m]
    BY <1>13, <2>1
  <2>5. QED BY <2>1, <2>3, <2>4 DEF Listed
<1>17. QED BY <1>14, <1>15, <1>16

\* What the entries of a list stand for, one after the other.
Stand(t, entries) == [i \in 1..Len(entries) |-> Preorder(t, entries[i].depth, entries[i].node)]

LEMMA StandTyped ==
    ASSUME NEW t \in Trees, NEW s \in Seq(Reachable(t))
    PROVE  /\ Stand(t, s) \in Seq(Seq(Shown)) /\ Len(Stand(t, s)) = Len(s) /\ Len(s) \in Nat
           /\ \A i \in 1..Len(s) : Stand(t, s)[i] = Preorder(t, s[i].depth, s[i].node)
<1>1. Len(s) \in Nat /\ \A i \in 1..Len(s) : s[i] \in Reachable(t)
  BY ElementOfSeq
<1>2. \A e \in Reachable(t) : e.depth \in 0..MaxDepth + 1 /\ e.node \in Node
  BY TreeAssumption DEF Reachable
<1>3. \A i \in 1..Len(s) : Preorder(t, s[i].depth, s[i].node) \in Seq(Shown)
  BY <1>1, <1>2, PreorderIs
<1>4. QED BY <1>1, <1>3 DEF Stand

\* A reversed list.
LEMMA Reversed ==
    ASSUME NEW V, NEW s \in Seq(V)
    PROVE  /\ Reverse(s) \in Seq(V) /\ Len(Reverse(s)) = Len(s)
           /\ \A i \in 1..Len(s) : Reverse(s)[i] = s[Len(s) + 1 - i]
<1>1. Len(s) \in Nat /\ \A i \in 1..Len(s) : s[i] \in V
  BY ElementOfSeq
<1>2. \A i \in 1..Len(s) : (Len(s) - i) + 1 = Len(s) + 1 - i /\ Len(s) + 1 - i \in 1..Len(s)
  BY <1>1
<1>3. QED BY <1>1, <1>2 DEF Reverse

\* What is pending is what the reversed stack stands for.
LEMMA PendingIs ==
    ASSUME NEW t \in Trees, NEW s \in Seq(Reachable(t))
    PROVE  Pending(t, s) = FlattenSeq(Stand(t, Reverse(s)))
<1>1. /\ Len(Reverse(s)) = Len(s) /\ Len(s) \in Nat
      /\ \A i \in 1..Len(s) : Reverse(s)[i] = s[Len(s) + 1 - i]
  BY Reversed
<1> DEFINE p == [i \in 1..Len(s) |->
                    LET e == s[Len(s) + 1 - i] IN Preorder(t, e.depth, e.node)]
<1>2. p = Stand(t, Reverse(s))
  BY <1>1 DEF Stand
<1>3. Pending(t, s) = FlattenSeq(p)
  BY DEF Pending
<1>4. QED BY <1>2, <1>3

\* Reversing what was reversed behind s.
LEMMA ReversedJoin ==
    ASSUME NEW V, NEW s \in Seq(V), NEW e \in Seq(V)
    PROVE  Reverse(s \o Reverse(e)) = e \o Reverse(s)
<1> DEFINE r == Reverse(s)
           q == Reverse(e)
           u == s \o q
           v == Reverse(u)
<1>1. /\ r \in Seq(V) /\ Len(r) = Len(s)
      /\ \A i \in 1..Len(s) : r[i] = s[Len(s) + 1 - i]
  BY Reversed
<1>2. /\ q \in Seq(V) /\ Len(q) = Len(e)
      /\ \A i \in 1..Len(e) : q[i] = e[Len(e) + 1 - i]
  BY Reversed
<1> HIDE DEF q, r
<1>0. q \in Seq(V)
  BY <1>2
<1>3. /\ u \in Seq(V) /\ Len(u) = Len(s) + Len(q) /\ Len(s) \in Nat /\ Len(q) \in Nat
      /\ \A i \in 1..Len(s) : u[i] = s[i]
      /\ \A i \in 1..Len(q) : u[Len(s) + i] = q[i]
  BY <1>0, ConcatIs
<1> HIDE DEF u
<1>4. /\ v \in Seq(V) /\ Len(v) = Len(u)
      /\ \A i \in 1..Len(u) : v[i] = u[Len(u) + 1 - i]
  BY <1>3, Reversed
<1> HIDE DEF v
<1>5. ASSUME NEW i \in 1..Len(e) PROVE v[i] = e[i]
  <2> DEFINE k == Len(e) + 1 - i
  <2>1. /\ i \in 1..Len(u) /\ k \in 1..Len(q) /\ Len(u) + 1 - i = Len(s) + k
        /\ Len(e) + 1 - k = i /\ k \in 1..Len(e)
    BY <1>2, <1>3
  <2>2. v[i] = u[Len(s) + k]
    BY <1>4, <2>1
  <2> HIDE DEF k
  <2>3. u[Len(s) + k] = q[k] /\ q[k] = e[i]
    BY <1>2, <1>3, <2>1
  <2>4. QED BY <2>2, <2>3
<1>6. ASSUME NEW i \in 1..Len(r) PROVE v[Len(e) + i] = r[i]
  <2> DEFINE k == Len(s) + 1 - i
  <2>1. Len(e) + i \in 1..Len(u) /\ k \in 1..Len(s) /\ Len(u) + 1 - (Len(e) + i) = k
    BY <1>1, <1>2, <1>3
  <2>2. v[Len(e) + i] = u[k] /\ r[i] = s[k]
    BY <1>1, <1>4, <2>1
  <2> HIDE DEF k
  <2>3. QED BY <1>3, <2>1, <2>2
<1>7. Len(v) = Len(e) + Len(r)
  BY <1>1, <1>2, <1>3, <1>4
<1>8. v = e \o r
  BY <1>1, <1>4, <1>5, <1>6, <1>7, IsConcat
<1>9. QED BY <1>8 DEF v, u, q, r

LEMMA StandJoin ==
    ASSUME NEW t \in Trees, NEW e \in Seq(Reachable(t)), NEW r \in Seq(Reachable(t))
    PROVE  Stand(t, e \o r) = Stand(t, e) \o Stand(t, r)
<1> DEFINE j == e \o r
<1>1. /\ j \in Seq(Reachable(t)) /\ Len(j) = Len(e) + Len(r)
      /\ Len(e) \in Nat /\ Len(r) \in Nat
      /\ \A i \in 1..Len(e) : j[i] = e[i]
      /\ \A i \in 1..Len(r) : j[Len(e) + i] = r[i]
  BY ConcatIs
<1> HIDE DEF j
<1>2. /\ Stand(t, e) \in Seq(Seq(Shown)) /\ Len(Stand(t, e)) = Len(e)
      /\ \A i \in 1..Len(e) : Stand(t, e)[i] = Preorder(t, e[i].depth, e[i].node)
  BY StandTyped
<1>3. /\ Stand(t, r) \in Seq(Seq(Shown)) /\ Len(Stand(t, r)) = Len(r)
      /\ \A i \in 1..Len(r) : Stand(t, r)[i] = Preorder(t, r[i].depth, r[i].node)
  BY StandTyped
<1>4. /\ Stand(t, j) \in Seq(Seq(Shown)) /\ Len(Stand(t, j)) = Len(j)
      /\ \A i \in 1..Len(j) : Stand(t, j)[i] = Preorder(t, j[i].depth, j[i].node)
  BY <1>1, StandTyped
<1> DEFINE a == Stand(t, e)
           b == Stand(t, r)
           w == Stand(t, j)
<1>5. \A i \in 1..Len(e) : w[i] = a[i]
  <2>1. \A i \in 1..Len(e) : i \in 1..Len(j)
    BY <1>1
  <2>2. QED BY <1>1, <1>2, <1>4, <2>1
<1>6. \A i \in 1..Len(r) : w[Len(e) + i] = b[i]
  <2>1. \A i \in 1..Len(r) : Len(e) + i \in 1..Len(j)
    BY <1>1
  <2>2. QED BY <1>1, <1>3, <1>4, <2>1
<1>7. /\ a \in Seq(Seq(Shown)) /\ b \in Seq(Seq(Shown)) /\ w \in Seq(Seq(Shown))
      /\ Len(a) = Len(e) /\ Len(b) = Len(r) /\ Len(w) = Len(a) + Len(b)
      /\ \A i \in 1..Len(a) : w[i] = a[i]
      /\ \A i \in 1..Len(b) : w[Len(a) + i] = b[i]
  BY <1>1, <1>2, <1>3, <1>4, <1>5, <1>6
<1> HIDE DEF a, b, w
<1>8. w = a \o b
  BY <1>7, IsConcat
<1>9. QED BY <1>8 DEF a, b, w, j

\* What is pushed comes before what the stack held.
LEMMA PushedFirst ==
    ASSUME NEW t \in Trees, NEW s \in Seq(Reachable(t)), NEW e \in Seq(Reachable(t))
    PROVE  /\ s \o Pushed(e) \in Seq(Reachable(t))
           /\ FlattenSeq(Stand(t, e)) \in Seq(Shown) /\ Pending(t, s) \in Seq(Shown)
           /\ Pending(t, s \o Pushed(e)) = FlattenSeq(Stand(t, e)) \o Pending(t, s)
<1> DEFINE r == Reverse(s)
<1>1. r \in Seq(Reachable(t)) /\ Reverse(e) \in Seq(Reachable(t))
  BY Reversed
<1>2. s \o Reverse(e) \in Seq(Reachable(t))
  BY <1>1, ConcatIs
<1>3. Reverse(s \o Reverse(e)) = e \o r
  BY ReversedJoin
<1> HIDE DEF r
<1>4. Stand(t, e \o r) = Stand(t, e) \o Stand(t, r)
  BY <1>1, StandJoin
<1>5. Stand(t, e) \in Seq(Seq(Shown)) /\ Stand(t, r) \in Seq(Seq(Shown))
  BY <1>1, StandTyped
<1>6. /\ FlattenSeq(Stand(t, e)) \in Seq(Shown) /\ FlattenSeq(Stand(t, r)) \in Seq(Shown)
      /\ FlattenSeq(Stand(t, e) \o Stand(t, r))
         = FlattenSeq(Stand(t, e)) \o FlattenSeq(Stand(t, r))
  BY <1>5, FlattenJoin
<1>7. /\ Pending(t, s \o Reverse(e)) = FlattenSeq(Stand(t, Reverse(s \o Reverse(e))))
      /\ Pending(t, s) = FlattenSeq(Stand(t, r))
  BY <1>2, PendingIs DEF r
<1>8. QED BY <1>2, <1>3, <1>4, <1>6, <1>7 DEF Pushed

LEMMA PendingTyped ==
    ASSUME NEW t \in Trees, NEW s \in Seq(Reachable(t))
    PROVE  Pending(t, s) \in Seq(Shown)
<1>1. Reverse(s) \in Seq(Reachable(t))
  BY Reversed
<1>2. Stand(t, Reverse(s)) \in Seq(Seq(Shown))
  BY <1>1, StandTyped
<1>3. QED BY <1>2, PendingIs, FlattenJoin

\* Of an empty stack nothing is pending.
LEMMA NothingPending == \A t : Pending(t, <<>>) = <<>>
<1>1. \A t : [i \in 1..0 |-> LET e == <<>>[0 + 1 - i] IN Preorder(t, e.depth, e.node)] = <<>>
  OBVIOUS
<1>2. \A t : Pending(t, <<>>) = FlattenSeq(<<>>)
  BY <1>1 DEF Pending
<1>3. FlattenSeq(<<>>) = <<>>
  BY FlattenNone
<1>4. QED BY <1>2, <1>3

\* What is on top comes first.
LEMMA TopFirst ==
    ASSUME NEW t \in Trees, NEW s \in Seq(Reachable(t)), s # <<>>
    PROVE  /\ Front(s) \in Seq(Reachable(t)) /\ s[Len(s)] \in Reachable(t)
           /\ Preorder(t, s[Len(s)].depth, s[Len(s)].node) \in Seq(Shown)
           /\ Pending(t, Front(s)) \in Seq(Shown)
           /\ Pending(t, s) = Preorder(t, s[Len(s)].depth, s[Len(s)].node) \o Pending(t, Front(s))
<1> DEFINE R == Reachable(t)
           top == s[Len(s)]
           one == <<top>>
<1>1. Len(s) \in Nat \ {0} /\ \A i \in 1..Len(s) : s[i] \in R
  BY EmptySeq, ElementOfSeq
<1>2. top \in R /\ one \in Seq(R) /\ Len(one) = 1 /\ one[1] = top
  BY <1>1
<1>3. /\ Front(s) \in Seq(R) /\ Len(Front(s)) = Len(s) - 1
      /\ \A i \in 1..Len(s) - 1 : Front(s)[i] = s[i]
  <2> DEFINE n == Len(s) - 1
  <2>1. n \in Nat /\ n - 1 + 1 = n /\ \A i \in 1..n : 1 + i - 1 = i /\ s[i] \in R
    BY <1>1
  <2>2. /\ SubSeq(s, 1, n) \in Seq(R)
        /\ Len(SubSeq(s, 1, n)) = IF 1 <= n THEN n - 1 + 1 ELSE 0
        /\ \A i \in 1..n - 1 + 1 : SubSeq(s, 1, n)[i] = s[1 + i - 1]
    BY <2>1, SubSeqProperties
  <2> HIDE DEF n
  <2>3. Len(SubSeq(s, 1, n)) = n /\ \A i \in 1..n : SubSeq(s, 1, n)[i] = s[i]
    BY <2>1, <2>2
  <2>4. QED BY <2>2, <2>3 DEF n, Front
<1>4. Pushed(one) = one
  <2>1. \A i \in 1..1 : (1 - i) + 1 = i
    OBVIOUS
  <2>2. one = [i \in 1..1 |-> one[i]]
    BY <1>2
  <2> HIDE DEF one
  <2>3. QED BY <1>2, <2>1, <2>2 DEF Pushed, Reverse
<1> HIDE DEF one, top
<1>5. Front(s) \o one = s
  <2> DEFINE f == Front(s)
  <2>1. f \in Seq(R) /\ Len(f) = Len(s) - 1 /\ \A i \in 1..Len(f) : s[i] = f[i]
    BY <1>1, <1>3
  <2> HIDE DEF f
  <2>2. Len(s) = Len(f) + Len(one) /\ \A i \in 1..Len(one) : s[Len(f) + i] = one[i]
    BY <1>1, <1>2, <2>1 DEF top
  <2>3. s = f \o one
    BY <1>2, <2>1, <2>2, IsConcat
  <2>4. QED BY <2>3 DEF f
<1>6. /\ FlattenSeq(Stand(t, one)) \in Seq(Shown) /\ Pending(t, Front(s)) \in Seq(Shown)
      /\ Pending(t, s) = FlattenSeq(Stand(t, one)) \o Pending(t, Front(s))
  <2> DEFINE f == Front(s)
  <2>1. f \in Seq(Reachable(t)) /\ one \in Seq(Reachable(t)) /\ s = f \o Pushed(one)
    BY <1>2, <1>3, <1>4, <1>5
  <2> HIDE DEF f
  <2>2. /\ FlattenSeq(Stand(t, one)) \in Seq(Shown) /\ Pending(t, f) \in Seq(Shown)
        /\ Pending(t, f \o Pushed(one)) = FlattenSeq(Stand(t, one)) \o Pending(t, f)
    BY <2>1, PushedFirst
  <2>3. QED BY <2>1, <2>2 DEF f
<1>7. Stand(t, one) = <<Preorder(t, top.depth, top.node)>>
  BY <1>2 DEF Stand
<1>8. Preorder(t, top.depth, top.node) \in Seq(Shown)
  <2>1. top.depth \in 0..MaxDepth + 1 /\ top.node \in Node
    BY <1>2, TreeAssumption DEF Reachable
  <2>2. QED BY <2>1, PreorderIs
<1>9. FlattenSeq(Stand(t, one)) = Preorder(t, top.depth, top.node)
  BY <1>7, <1>8, FlattenOne
<1>10. QED BY <1>2, <1>3, <1>6, <1>8, <1>9 DEF top

-----------------------------------------------------------------------------
(* The walk of a tree that nobody disturbs.                                *)

\* The entries pushed for the children of the one on top.
Kids(t, top) ==
    [i \in 1..Len(t[top.node]) |-> [node |-> t[top.node][i], depth |-> top.depth + 1]]

\* A walk over tree t lists it in document order.
OnOrder(t, r) ==
    LET all == Preorder(t, 0, r.root)
        top == r.stack[Len(r.stack)]
    IN  /\ r.stack \in Seq(Reachable(t)) /\ r.out \in Seq(Shown)
        /\ r.pc = "walk" => r.out \o Pending(t, r.stack) = all
        /\ r.pc = "children" =>
              /\ r.stack # <<>> /\ top.node \in DOMAIN t /\ top.depth <= MaxDepth
              /\ r.out \o Pending(t, Front(r.stack) \o Pushed(Kids(t, top))) = all

\* And its answer is what it promises.
Answered(t, r) ==
    LET all == Preorder(t, 0, r.root)
        shown == SubSeq(all, 1, IF Len(all) < r.ask.cap THEN Len(all) ELSE r.ask.cap)
    IN  r.out = Among(shown, {e \in Range(shown) : e.node \in r.ask.wanted})

OrderReq(t, r) == IF r.pc = "done" THEN Answered(t, r) ELSE OnOrder(t, r)

\* A walk that nothing has disturbed still reaches the bus, and keeps to the order.
OrderInv ==
    \A c \in Client : req[c].calm =>
        /\ req[c].pc \in {"walk", "children", "done"}
        /\ req[c].pc # "done" => Alive(req[c].conn)
        /\ Complete(tree) => OrderReq(tree, req[c])

\* The children of an entry stand for what the preorder has behind it.
LEMMA KidsAre ==
    ASSUME NEW t \in Trees, Complete(t), NEW top \in Reachable(t),
           top.node \in DOMAIN t, top.depth <= MaxDepth
    PROVE  /\ Kids(t, top) \in Seq(Reachable(t))
           /\ FlattenSeq(Stand(t, Kids(t, top))) \in Seq(Shown)
           /\ Preorder(t, top.depth, top.node) =
                <<[node |-> top.node, depth |-> top.depth, known |-> TRUE]>>
                \o FlattenSeq(Stand(t, Kids(t, top)))
<1> DEFINE n == top.node
           d == top.depth
           kids == Kids(t, top)
<1>1. t[n] \in Seq(Node) /\ Len(t[n]) \in Nat /\ MaxDepth \in Nat /\ n \in DOMAIN t
  BY TreeAssumption
<1>2. d \in 0..MaxDepth /\ d + 1 \in 0..MaxDepth + 1
  BY <1>1 DEF Reachable
<1>3. \A i \in 1..Len(t[n]) : t[n][i] \in DOMAIN t \union {Null}
  <2>1. Range(t[n]) \subseteq DOMAIN t \union {Null}
    BY <1>1 DEF Complete
  <2>2. \A i \in 1..Len(t[n]) : t[n][i] \in Range(t[n])
    BY <1>1 DEF Range
  <2>3. QED BY <2>1, <2>2
<1>4. /\ kids \in Seq(Reachable(t)) /\ Len(kids) = Len(t[n])
      /\ \A i \in 1..Len(t[n]) : kids[i].node = t[n][i] /\ kids[i].depth = d + 1
  BY <1>1, <1>2, <1>3 DEF Kids, Reachable
<1>5. Stand(t, kids) = [i \in 1..Len(t[n]) |-> Preorder(t, d + 1, t[n][i])]
  <2> HIDE DEF kids, n, d
  <2>1. QED BY <1>4 DEF Stand
<1>6. Preorder(t, d, n) = <<[node |-> n, depth |-> d, known |-> TRUE]>>
                          \o FlattenSeq([i \in 1..Len(t[n]) |-> Preorder(t, d + 1, t[n][i])])
  BY <1>1, <1>2, PreorderIs
<1>7. FlattenSeq(Stand(t, kids)) \in Seq(Shown)
  <2> HIDE DEF kids
  <2>1. Stand(t, kids) \in Seq(Seq(Shown))
    BY <1>4, StandTyped
  <2>2. QED BY <2>1, FlattenJoin
<1>8. QED BY <1>4, <1>5, <1>6, <1>7

\* An entry that is dropped stood for nothing.
LEMMA DroppedInOrder ==
    ASSUME NEW t \in Trees, NEW s \in Seq(Reachable(t)), s # <<>>,
           s[Len(s)].depth > MaxDepth \/ s[Len(s)].node \notin DOMAIN t
    PROVE  Front(s) \in Seq(Reachable(t)) /\ Pending(t, Front(s)) = Pending(t, s)
<1> DEFINE top == s[Len(s)]
<1>1. /\ Front(s) \in Seq(Reachable(t)) /\ top \in Reachable(t)
      /\ Pending(t, Front(s)) \in Seq(Shown)
      /\ Pending(t, s) = Preorder(t, top.depth, top.node) \o Pending(t, Front(s))
  BY TopFirst
<1>2. top.depth \in 0..MaxDepth + 1 /\ top.node \in Node
  BY <1>1, TreeAssumption DEF Reachable
<1>3. Preorder(t, top.depth, top.node) = <<>>
  BY <1>2, PreorderIs
<1>4. <<>> \o Pending(t, Front(s)) = Pending(t, Front(s))
  BY <1>1, ConcatEmptySeq
<1>5. QED BY <1>1, <1>3, <1>4

\* An element that is listed is the next one; its children come next.
LEMMA ListedInOrder ==
    ASSUME NEW t \in Trees, Complete(t), NEW s \in Seq(Reachable(t)), s # <<>>,
           s[Len(s)].depth <= MaxDepth, s[Len(s)].node # Null, NEW out \in Seq(Shown)
    PROVE  LET top == s[Len(s)]
               new == Append(out, Item(top, TRUE))
           IN  /\ top.node \in DOMAIN t /\ new \in Seq(Shown)
               /\ new \o Pending(t, Front(s) \o Pushed(Kids(t, top))) = out \o Pending(t, s)
<1> DEFINE top == s[Len(s)]
           item == Item(top, TRUE)
           new == Append(out, item)
           rest == Pending(t, Front(s))
           below == FlattenSeq(Stand(t, Kids(t, top)))
<1>1. /\ Front(s) \in Seq(Reachable(t)) /\ top \in Reachable(t)
      /\ rest \in Seq(Shown)
      /\ Pending(t, s) = Preorder(t, top.depth, top.node) \o rest
  BY TopFirst
<1>2. top.node \in DOMAIN t /\ item \in Shown
  BY <1>1, TreeAssumption DEF Reachable, Shown, Item
<1> HIDE DEF top
<1>3. /\ Kids(t, top) \in Seq(Reachable(t)) /\ below \in Seq(Shown)
      /\ Preorder(t, top.depth, top.node) = <<item>> \o below
  BY <1>1, <1>2, KidsAre DEF Item, top
<1>4. Pending(t, Front(s) \o Pushed(Kids(t, top))) = below \o rest
  BY <1>1, <1>3, PushedFirst
<1>5. new = out \o <<item>> /\ <<item>> \in Seq(Shown) /\ new \in Seq(Shown)
  <2> HIDE DEF item
  <2>1. QED BY <1>2, AppendIsConcat
<1> HIDE DEF item, new, rest, below
<1>6. new \o (below \o rest) = out \o Pending(t, s)
  <2> DEFINE one == <<item>>
             first == Preorder(t, top.depth, top.node)
             all == Pending(t, s)
  <2>1. /\ one \in Seq(Shown) /\ below \in Seq(Shown) /\ rest \in Seq(Shown)
        /\ new = out \o one /\ first = one \o below /\ all = first \o rest
    BY <1>1, <1>3, <1>5
  <2> HIDE DEF one, first, all
  <2> DEFINE after == below \o rest
  <2>2. after \in Seq(Shown)
    BY <2>1, ConcatIs
  <2>3. all = one \o after
    BY <2>1, ConcatAssociative
  <2> HIDE DEF after
  <2>4. new \o after = out \o (one \o after)
    BY <2>1, <2>2, ConcatAssociative
  <2>5. new \o after = out \o all
    BY <2>3, <2>4
  <2>6. QED BY <2>5 DEF after, all
<1>7. QED BY <1>2, <1>4, <1>5, <1>6 DEF top, new, item

\* The elements that a query of wanted nodes matches; one of all nodes matches all.
LEMMA WantedInOrder ==
    ASSUME NEW out \in Seq(Shown), NEW wanted
    PROVE  Among(out, {e \in Range(out) : e.node \in wanted})
           = IF wanted = Node THEN out ELSE Hits(out, wanted)
<1>1. Len(out) \in Nat /\ \A i \in 1..Len(out) : out[i] \in Shown
  BY ElementOfSeq
<1>2. \A i \in 1..Len(out) : out[i] \in Range(out) /\ out[i].known /\ out[i].node \in Node
  <2>1. \A i \in 1..Len(out) : out[i] \in Range(out)
    BY <1>1 DEF Range
  <2>2. \A x \in Shown : x.known /\ x.node \in Node
    BY DEF Shown
  <2>3. QED BY <1>1, <2>1, <2>2
<1>3. Hits(out, wanted) = Among(out, {e \in Range(out) : e.node \in wanted})
  BY <1>2 DEF Hits, Among
<1>4. ASSUME wanted = Node
      PROVE  Among(out, {e \in Range(out) : e.node \in wanted}) = out
  <2>1. Among(out, {e \in Range(out) : e.node \in wanted})
          = FlattenSeq([i \in 1..Len(out) |-> <<out[i]>>])
    BY <1>2, <1>4 DEF Among
  <2>2. QED BY <2>1, FlattenSingles
<1>5. QED BY <1>3, <1>4

\* What the walk has listed when it ends is a beginning of all, up to the cap.
LEMMA CutInOrder ==
    ASSUME NEW out \in Seq(Shown), NEW rest \in Seq(Shown),
           NEW all, out \o rest = all,
           NEW cap \in Nat, Len(out) <= cap, rest = <<>> \/ Len(out) >= cap
    PROVE  SubSeq(all, 1, IF Len(all) < cap THEN Len(all) ELSE cap) = out
<1> DEFINE n == IF Len(all) < cap THEN Len(all) ELSE cap
           shown == SubSeq(all, 1, n)
<1>1. /\ all \in Seq(Shown) /\ Len(all) = Len(out) + Len(rest)
      /\ Len(out) \in Nat /\ Len(rest) \in Nat
      /\ \A i \in 1..Len(out) : all[i] = out[i]
  BY ConcatIs
<1>2. n = Len(out) /\ n \in Nat
  <2>1. rest = <<>> => Len(rest) = 0
    OBVIOUS
  <2>2. QED BY <1>1, <2>1
<1> HIDE DEF n
<1>3. \A i \in 1..n : all[1 + i - 1] = out[i] /\ out[i] \in Shown /\ all[i] \in Shown
  BY <1>1, <1>2, ElementOfSeq
<1>4. /\ shown \in Seq(Shown) /\ Len(shown) = n /\ \A i \in 1..n : shown[i] = all[i]
  BY <1>1, <1>2, <1>3, PrefixIs
<1> HIDE DEF shown
<1>5. shown = out
  BY <1>1, <1>2, <1>4, SeqEqual
<1>6. QED BY <1>5 DEF shown, n

\* A walk that starts has the whole tree before it.
LEMMA StartOrder ==
    ASSUME NEW t \in Trees, NEW r, r.pc = "walk", r.root \in DOMAIN t, r.out = <<>>,
           r.stack = <<[node |-> r.root, depth |-> 0]>>
    PROVE  OrderReq(t, r)
<1> DEFINE e == [node |-> r.root, depth |-> 0]
           one == <<e>>
           all == Preorder(t, 0, r.root)
<1>1. 0 \in 0..MaxDepth + 1 /\ r.root \in Node
  BY TreeAssumption
<1>2. e \in Reachable(t)
  BY <1>1 DEF Reachable
<1>3. one \in Seq(Reachable(t)) /\ Len(one) = 1 /\ one[1] = e
  BY <1>2
<1>4. all \in Seq(Shown)
  BY <1>1, PreorderIs
<1>5. Pending(t, one) = FlattenSeq(<<all>>)
  <2>1. [i \in 1..1 |-> LET x == one[1 + 1 - i] IN Preorder(t, x.depth, x.node)] = <<all>>
    OBVIOUS
  <2> HIDE DEF one, all
  <2>2. QED BY <1>3, <2>1 DEF Pending
<1> HIDE DEF e, one, all
<1>6. FlattenSeq(<<all>>) = all
  BY <1>4, FlattenOne
<1>7. <<>> \in Seq(Shown) /\ <<>> \o all = all
  BY <1>4, ConcatEmptySeq
<1>8. r.stack = one
  BY DEF one, e
<1>9. QED BY <1>3, <1>5, <1>6, <1>7, <1>8 DEF OrderReq, OnOrder, all

\* What is dropped from the stack was not in the tree.
LEMMA DropOrder ==
    ASSUME NEW t \in Trees, NEW q, NEW r, OrderReq(t, q), q.pc = "walk", q.stack # <<>>,
           \/ q.stack[Len(q.stack)].depth > MaxDepth
           \/ q.stack[Len(q.stack)].node \notin DOMAIN t,
           r.pc = "walk", r.root = q.root, r.out = q.out, r.stack = Front(q.stack)
    PROVE  OrderReq(t, r)
<1>1. /\ q.stack \in Seq(Reachable(t)) /\ q.out \in Seq(Shown)
      /\ q.out \o Pending(t, q.stack) = Preorder(t, 0, q.root)
  BY DEF OrderReq, OnOrder
<1> DEFINE s == q.stack
<1> HIDE DEF s
<1>2. Front(s) \in Seq(Reachable(t)) /\ Pending(t, Front(s)) = Pending(t, s)
  BY <1>1, DroppedInOrder DEF s
<1>3. QED BY <1>1, <1>2 DEF OrderReq, OnOrder, s

\* An entry of a walk that may be listed is in the tree.
LEMMA TopInTree ==
    ASSUME NEW t \in Trees, NEW q, OrderReq(t, q), q.pc = "walk", q.stack # <<>>,
           q.stack[Len(q.stack)].node # Null
    PROVE  q.stack[Len(q.stack)].node \in DOMAIN t
<1>1. q.stack \in Seq(Reachable(t))
  BY DEF OrderReq, OnOrder
<1>2. q.stack[Len(q.stack)] \in Reachable(t)
  BY <1>1, TopFirst
<1>3. QED BY <1>2 DEF Reachable

\* What is listed is what the tree has next.
LEMMA ListOrder ==
    ASSUME NEW t \in Trees, Complete(t), NEW q, NEW r, OrderReq(t, q), q.pc = "walk",
           q.stack # <<>>, q.stack[Len(q.stack)].depth <= MaxDepth,
           q.stack[Len(q.stack)].node # Null,
           r.pc = "children", r.root = q.root, r.stack = q.stack,
           r.out = Append(q.out, Item(q.stack[Len(q.stack)], TRUE))
    PROVE  OrderReq(t, r)
<1> DEFINE s == q.stack
           out == q.out
           top == s[Len(s)]
           new == Append(out, Item(top, TRUE))
<1>1. /\ s \in Seq(Reachable(t)) /\ out \in Seq(Shown)
      /\ out \o Pending(t, s) = Preorder(t, 0, q.root)
  BY DEF OrderReq, OnOrder
<1>2. s # <<>> /\ s[Len(s)].depth <= MaxDepth /\ s[Len(s)].node # Null /\ r.stack = s /\ r.out = new
  OBVIOUS
<1> HIDE DEF s, out
<1>3. /\ top.node \in DOMAIN t /\ new \in Seq(Shown)
      /\ new \o Pending(t, Front(s) \o Pushed(Kids(t, top))) = out \o Pending(t, s)
  BY <1>1, <1>2, ListedInOrder
<1> HIDE DEF new
<1>4. QED BY <1>1, <1>2, <1>3 DEF OrderReq, OnOrder

\* Its children come where they were expected.
LEMMA ChildrenOrder ==
    ASSUME NEW t \in Trees, Complete(t), NEW q, NEW r, OrderReq(t, q), q.pc = "children",
           r.pc = "walk", r.root = q.root, r.out = q.out,
           r.stack = Front(q.stack) \o Pushed(Kids(t, q.stack[Len(q.stack)]))
    PROVE  OrderReq(t, r)
<1> DEFINE s == q.stack
           top == s[Len(s)]
           kids == Kids(t, top)
<1>1. /\ s \in Seq(Reachable(t)) /\ q.out \in Seq(Shown) /\ s # <<>>
      /\ top.node \in DOMAIN t /\ top.depth <= MaxDepth
      /\ q.out \o Pending(t, Front(s) \o Pushed(kids)) = Preorder(t, 0, q.root)
  BY DEF OrderReq, OnOrder
<1>2. r.stack = Front(s) \o Pushed(kids)
  OBVIOUS
<1> HIDE DEF s
<1>3. Front(s) \in Seq(Reachable(t)) /\ top \in Reachable(t)
  BY <1>1, TopFirst
<1> HIDE DEF top
<1>4. kids \in Seq(Reachable(t))
  BY <1>1, <1>3, KidsAre
<1> HIDE DEF kids
<1>5. Front(s) \o Pushed(kids) \in Seq(Reachable(t))
  BY <1>3, <1>4, PushedFirst
<1>6. QED BY <1>1, <1>2, <1>5 DEF OrderReq, OnOrder

\* The answer is a beginning of the tree.
LEMMA AnswerOrder ==
    ASSUME NEW t \in Trees, NEW q, NEW r, OrderReq(t, q), q.pc = "walk",
           q.ask.cap \in Nat, Len(q.out) <= q.ask.cap, q.stack = <<>> \/ Full(q),
           r.pc = "done", r.root = q.root, r.ask = q.ask,
           r.out = IF q.ask.wanted = Node THEN q.out ELSE Hits(q.out, q.ask.wanted)
    PROVE  OrderReq(t, r)
<1> DEFINE out == q.out
           rest == Pending(t, q.stack)
           all == Preorder(t, 0, q.root)
           cap == q.ask.cap
           wanted == q.ask.wanted
           shown == SubSeq(all, 1, IF Len(all) < cap THEN Len(all) ELSE cap)
<1>1. out \in Seq(Shown) /\ out \o rest = all /\ q.stack \in Seq(Reachable(t))
  BY DEF OrderReq, OnOrder
<1>2. rest \in Seq(Shown)
  <2> DEFINE s == q.stack
  <2>1. s \in Seq(Reachable(t))
    BY <1>1
  <2> HIDE DEF s
  <2>2. Pending(t, s) \in Seq(Shown)
    BY <2>1, PendingTyped
  <2>3. QED BY <2>2 DEF s
<1>3. rest = <<>> \/ Len(out) >= cap
  <2>1. CASE q.stack = <<>>
    BY <2>1, NothingPending
  <2>2. CASE Full(q)
    BY <2>2 DEF Full
  <2>3. QED BY <2>1, <2>2
<1>4. cap \in Nat /\ Len(out) <= cap
  OBVIOUS
<1>5. r.out = IF wanted = Node THEN out ELSE Hits(out, wanted)
  OBVIOUS
<1> HIDE DEF out, rest, all, cap, wanted
<1>6. shown = out
  BY <1>1, <1>2, <1>3, <1>4, CutInOrder
<1> HIDE DEF shown
<1>7. Among(out, {e \in Range(out) : e.node \in wanted}) = r.out
  BY <1>1, <1>5, WantedInOrder
<1>8. r.out = Among(shown, {e \in Range(shown) : e.node \in wanted})
  BY <1>6, <1>7
<1>9. QED BY <1>8 DEF OrderReq, Answered, all, cap, wanted, shown

\* Before the first request nothing is walked.
LEMMA OrderInit == A11yInit => OrderInv
BY DEF A11yInit, Done, OrderInv

\* A step of one request, whose walk is undisturbed only on its order.
LEMMA OrderOne ==
  ASSUME WalkInv, OrderInv, NEW c \in Client, NEW r, req' = [req EXCEPT ![c] = r],
         tree' = tree, bus' = bus,
         r.calm => /\ r.pc \in {"walk", "children", "done"}
                   /\ r.pc # "done" => Alive(r.conn)
                   /\ Complete(tree) => OrderReq(tree, r)
  PROVE  OrderInv'
BY DEF OrderInv, WalkInv, Alive

\* The same for a step outside the walk.
LEMMA OrderElsewhere ==
  ASSUME WalkInv, OrderInv, NEW c \in Client, req[c].pc \notin {"walk", "children", "done"},
         NEW r, req' = [req EXCEPT ![c] = r], tree' = tree, bus' = bus,
         r.calm = req[c].calm
  PROVE  OrderInv'
<1>1. ~req[c].calm
  BY DEF OrderInv
<1>2. QED BY <1>1, OrderOne

\* An answer without elements claims nothing.
LEMMA OrderDone ==
  ASSUME WalkInv, OrderInv, NEW c \in Client, NEW outcome,
         req' = [req EXCEPT ![c] = Done(outcome)], tree' = tree, bus' = bus
  PROVE  OrderInv'
<1>1. ~Done(outcome).calm
  BY DEF Done
<1>2. QED BY <1>1, OrderOne

\* Every step of a walk keeps to the order.
LEMMA OrderStep == WalkInv /\ OrderInv /\ [A11yNext]_a11yVars => OrderInv'
<1> SUFFICES ASSUME WalkInv, OrderInv, [A11yNext]_a11yVars PROVE OrderInv'
  OBVIOUS
<1> USE DEF world
<1>1. ASSUME NEW c \in Client, NEW ask \in Asks, Submit(c, ask) PROVE OrderInv'
  <2> DEFINE r == [Done("none") EXCEPT !.pc = "conn", !.ask = ask]
  <2>1. ~r.calm
    BY DEF Done
  <2>2. req' = [req EXCEPT ![c] = r] /\ tree' = tree /\ bus' = bus
    BY <1>1 DEF Submit
  <2> HIDE DEF r
  <2>3. QED BY <2>1, <2>2, OrderOne
<1>2. ASSUME NEW c \in Client, NoFocus(c) PROVE OrderInv'
  BY <1>2, OrderDone DEF NoFocus
<1>3. ASSUME NEW c \in Client, NEW kind,
             req[c].pc \notin {"walk", "children", "done"}, Fail(c, kind),
             tree' = tree, bus' = bus
      PROVE  OrderInv'
  <2>1. CASE kind = "unavailable"
    <3> DEFINE r == [req[c] EXCEPT !.pc = "drop"]
    <3>1. r.calm = req[c].calm /\ req' = [req EXCEPT ![c] = r]
      BY <1>3, <2>1 DEF Fail, WalkInv, WalkReq, Fields
    <3> HIDE DEF r
    <3>2. QED BY <1>3, <3>1, OrderElsewhere
  <2>2. CASE kind # "unavailable"
    BY <1>3, <2>2, OrderDone DEF Fail
  <2>3. QED BY <2>1, <2>2
<1>4. ASSUME NEW c \in Client, Take(c) PROVE OrderInv'
  <2>1. CASE cached = NoConn
    <3> DEFINE r == [req[c] EXCEPT !.pc = "connect"]
    <3>1. /\ r.calm = req[c].calm /\ req' = [req EXCEPT ![c] = r]
          /\ req[c].pc = "conn" /\ tree' = tree /\ bus' = bus
      BY <1>4, <2>1 DEF Take, WalkInv, WalkReq, Fields
    <3> HIDE DEF r
    <3>2. QED BY <3>1, OrderElsewhere
  <2>2. CASE cached # NoConn
    <3> DEFINE r == [req[c] EXCEPT !.pc = "find", !.conn = cached]
    <3>1. /\ r.calm = req[c].calm /\ req' = [req EXCEPT ![c] = r]
          /\ req[c].pc = "conn" /\ tree' = tree /\ bus' = bus
      BY <1>4, <2>2 DEF Take, WalkInv, WalkReq, Fields
    <3> HIDE DEF r
    <3>2. QED BY <3>1, OrderElsewhere
  <2>3. QED BY <2>1, <2>2
<1>5. ASSUME NEW c \in Client, Connect(c) PROVE OrderInv'
  <2>1. CASE Fail(c, "unavailable")
    BY <1>3, <1>5, <2>1 DEF Connect
  <2>2. CASE req' = [req EXCEPT ![c].pc = "find", ![c].conn = bus.gen]
    <3> DEFINE r == [req[c] EXCEPT !.pc = "find", !.conn = bus.gen]
    <3>1. /\ r.calm = req[c].calm /\ req' = [req EXCEPT ![c] = r]
          /\ req[c].pc = "connect" /\ tree' = tree /\ bus' = bus
      BY <1>5, <2>2 DEF Connect, WalkInv, WalkReq, Fields
    <3> HIDE DEF r
    <3>2. QED BY <3>1, OrderElsewhere
  <2>3. QED BY <1>5, <2>1, <2>2 DEF Connect
<1>6. ASSUME NEW c \in Client, DropConn(c) PROVE OrderInv'
  BY <1>6, OrderDone DEF DropConn
<1>7. ASSUME NEW c \in Client, Find(c) PROVE OrderInv'
  <2>1. CASE Fail(c, "bus")
    BY <1>3, <1>7, <2>1 DEF Find
  <2>2. CASE req' = [req EXCEPT ![c].pc = "proxy"]
    <3> DEFINE r == [req[c] EXCEPT !.pc = "proxy"]
    <3>1. /\ r.calm = req[c].calm /\ req' = [req EXCEPT ![c] = r]
          /\ req[c].pc = "find" /\ tree' = tree /\ bus' = bus
      BY <1>7, <2>2 DEF Find, WalkInv, WalkReq, Fields
    <3> HIDE DEF r
    <3>2. QED BY <3>1, OrderElsewhere
  <2>3. QED BY <1>7, <2>1, <2>2 DEF Find
<1>8. ASSUME NEW c \in Client, Proxy(c) PROVE OrderInv'
  <2>1. CASE Fail(c, "unavailable")
    BY <1>3, <1>8, <2>1 DEF Proxy
  <2>2. CASE req' = [req EXCEPT ![c].pc = "match"]
    <3> DEFINE r == [req[c] EXCEPT !.pc = "match"]
    <3>1. /\ r.calm = req[c].calm /\ req' = [req EXCEPT ![c] = r]
          /\ req[c].pc = "proxy" /\ tree' = tree /\ bus' = bus
      BY <1>8, <2>2 DEF Proxy, WalkInv, WalkReq, Fields
    <3> HIDE DEF r
    <3>2. QED BY <3>1, OrderElsewhere
  <2>3. QED BY <1>8, <2>1, <2>2 DEF Proxy
<1>9. ASSUME NEW c \in Client, Match(c) PROVE OrderInv'
  <2>1. CASE Fail(c, "no_app")
    BY <1>3, <1>9, <2>1 DEF Match
  <2>2. ASSUME NEW root \in DOMAIN tree, Alive(req[c].conn),
               req' = [req EXCEPT ![c].pc = "walk", ![c].calm = TRUE, ![c].root = root,
                                  ![c].stack = <<[node |-> root, depth |-> 0]>>]
        PROVE  OrderInv'
    <3> DEFINE r == [req[c] EXCEPT !.pc = "walk", !.calm = TRUE, !.root = root,
                                   !.stack = <<[node |-> root, depth |-> 0]>>]
    <3>1. /\ req' = [req EXCEPT ![c] = r] /\ tree' = tree /\ bus' = bus
          /\ r.pc = "walk" /\ r.root = root /\ r.out = <<>> /\ r.conn = req[c].conn
          /\ r.stack = <<[node |-> root, depth |-> 0]>>
      BY <1>9, <2>2 DEF Match, WalkInv, WalkReq, Fields
    <3> HIDE DEF r
    <3>2. OrderReq(tree, r)
      BY <3>1, StartOrder DEF WalkInv
    <3>3. QED BY <2>2, <3>1, <3>2, OrderOne
  <2>3. QED BY <1>9, <2>1, <2>2 DEF Match
<1>10. ASSUME NEW c \in Client, Visit(c) PROVE OrderInv'
  <2> DEFINE q == req[c]
             top == q.stack[Len(q.stack)]
  <2>1. /\ q.pc = "walk" /\ q.stack # <<>> /\ tree' = tree /\ bus' = bus
        /\ tree \in Trees /\ DOMAIN q = Fields
        /\ q.calm => Alive(q.conn) /\ (Complete(tree) => OrderReq(tree, q))
    BY <1>10 DEF Visit, WalkInv, WalkReq, OrderInv
  <2>2. CASE /\ top.depth > MaxDepth \/ top.node = Null \/ ~Reads(c, top.node)
             /\ req' = [req EXCEPT ![c].stack = Front(@)]
    <3> DEFINE r == [q EXCEPT !.stack = Front(@)]
    <3>1. /\ req' = [req EXCEPT ![c] = r] /\ r.pc = "walk" /\ r.root = q.root
          /\ r.out = q.out /\ r.stack = Front(q.stack) /\ r.conn = q.conn /\ r.calm = q.calm
      BY <2>1, <2>2 DEF Fields
    <3>2. q.calm => top.depth > MaxDepth \/ top.node \notin DOMAIN tree
      BY <2>1, <2>2, TreeAssumption DEF Reads
    <3> HIDE DEF r, q
    <3>3. q.calm /\ Complete(tree) => OrderReq(tree, r)
      BY <2>1, <3>1, <3>2, DropOrder
    <3>4. QED BY <2>1, <3>1, <3>3, OrderOne
  <2>3. CASE /\ top.depth <= MaxDepth /\ top.node # Null
             /\ req' = [req EXCEPT ![c].pc = "children",
                             ![c].out = Append(@, Item(top, Reads(c, top.node)))]
    <3> DEFINE r == [q EXCEPT !.pc = "children",
                              !.out = Append(@, Item(top, Reads(c, top.node)))]
    <3>1. /\ req' = [req EXCEPT ![c] = r] /\ r.pc = "children" /\ r.root = q.root
          /\ r.out = Append(q.out, Item(top, Reads(c, top.node)))
          /\ r.stack = q.stack /\ r.conn = q.conn /\ r.calm = q.calm
      BY <2>1, <2>3 DEF Fields
    <3> HIDE DEF r
    <3>2. ASSUME q.calm, Complete(tree) PROVE OrderReq(tree, r)
      <4>1. OrderReq(tree, q) /\ Alive(q.conn)
        BY <2>1, <3>2
      <4>2. top.node \in DOMAIN tree
        BY <2>1, <2>3, <4>1, TopInTree
      <4>3. Reads(c, top.node) = TRUE
        BY <4>1, <4>2 DEF Reads
      <4>4. r.out = Append(q.out, Item(top, TRUE))
        BY <3>1, <4>3
      <4> HIDE DEF q
      <4>5. QED BY <2>1, <2>3, <3>1, <3>2, <4>1, <4>4, ListOrder
    <3> HIDE DEF q
    <3>3. QED BY <2>1, <3>1, <3>2, OrderOne
  <2>4. QED BY <1>10, <2>2, <2>3 DEF Visit
<1>11. ASSUME NEW c \in Client, Children(c) PROVE OrderInv'
  <2> DEFINE q == req[c]
             top == q.stack[Len(q.stack)]
             kids == IF Reads(c, top.node) THEN tree[top.node] ELSE <<>>
             entries == [i \in 1..Len(kids) |-> [node |-> kids[i], depth |-> top.depth + 1]]
             r == [q EXCEPT !.pc = "walk", !.stack = Front(@) \o Pushed(entries)]
  <2>1. /\ q.pc = "children" /\ tree' = tree /\ bus' = bus
        /\ tree \in Trees /\ DOMAIN q = Fields
        /\ q.calm => Alive(q.conn) /\ (Complete(tree) => OrderReq(tree, q))
    BY <1>11 DEF Children, WalkInv, WalkReq, OrderInv
  <2>2. req' = [req EXCEPT ![c] = r]
    BY <1>11, <2>1 DEF Children
  <2>3. /\ r.pc = "walk" /\ r.root = q.root /\ r.out = q.out
        /\ r.stack = Front(q.stack) \o Pushed(entries) /\ r.conn = q.conn /\ r.calm = q.calm
    <3> HIDE DEF entries
    <3>1. QED BY <2>1 DEF Fields
  <2> HIDE DEF r
  <2>4. ASSUME q.calm, Complete(tree) PROVE OrderReq(tree, r)
    <3>1. OrderReq(tree, q) /\ Alive(q.conn)
      BY <2>1, <2>4
    <3>2. top.node \in DOMAIN tree
      BY <2>1, <3>1 DEF OrderReq, OnOrder
    <3>3. kids = tree[top.node]
      BY <3>1, <3>2 DEF Reads
    <3>4. entries = Kids(tree, top)
      BY <3>3 DEF Kids
    <3> HIDE DEF q, entries
    <3>5. r.stack = Front(q.stack) \o Pushed(Kids(tree, q.stack[Len(q.stack)]))
      BY <2>3, <3>4
    <3>6. QED BY <2>1, <2>3, <2>4, <3>1, <3>5, ChildrenOrder
  <2> HIDE DEF q
  <2>5. QED BY <2>1, <2>2, <2>3, <2>4, OrderOne
<1>12. ASSUME NEW c \in Client, AnswerWalk(c) PROVE OrderInv'
  <2> DEFINE q == req[c]
             r == [Done("ok") EXCEPT
                     !.out = IF q.ask.wanted = Node THEN q.out ELSE Hits(q.out, q.ask.wanted),
                     !.root = q.root, !.ask = q.ask, !.calm = q.calm]
  <2>1. /\ q.pc = "walk" /\ tree' = tree /\ bus' = bus /\ tree \in Trees
        /\ q.stack = <<>> \/ Full(q)
        /\ q.ask.cap \in Nat /\ Len(q.out) <= q.ask.cap
        /\ q.calm => (Complete(tree) => OrderReq(tree, q))
    BY <1>12 DEF AnswerWalk, WalkInv, WalkReq, Walking, Bounded, OrderInv
  <2>2. /\ req' = [req EXCEPT ![c] = r] /\ r.pc = "done" /\ r.root = q.root
        /\ r.ask = q.ask /\ r.calm = q.calm
        /\ r.out = IF q.ask.wanted = Node THEN q.out ELSE Hits(q.out, q.ask.wanted)
    BY <1>12 DEF AnswerWalk, Done
  <2> HIDE DEF q, r
  <2>3. q.calm /\ Complete(tree) => OrderReq(tree, r)
    BY <2>1, <2>2, AnswerOrder
  <2>4. QED BY <2>1, <2>2, <2>3, OrderOne
<1>13. ASSUME req' = Disturbed PROVE OrderInv'
  <2>1. \A c \in Client : ~req'[c].calm
    BY <1>13 DEF Disturbed, WalkInv, WalkReq, Fields
  <2>2. QED BY <2>1 DEF OrderInv
<1>14. CASE BusStops
  BY <1>13, <1>14 DEF BusStops
<1>15. CASE BusStarts
  <2>1. req' = req /\ tree' = tree /\ \A c \in Client : ~Alive(req[c].conn)
    BY <1>15 DEF BusStarts, Alive
  <2>2. \A c \in Client : req[c].calm => req[c].pc = "done"
    BY <2>1 DEF OrderInv
  <2>3. QED BY <2>1, <2>2 DEF OrderInv
<1>16. CASE Change
  BY <1>13, <1>16 DEF Change
<1>17. CASE UNCHANGED a11yVars
  BY <1>17 DEF a11yVars, OrderInv, Alive
<1>18. QED
  BY <1>1, <1>2, <1>4, <1>5, <1>6, <1>7, <1>8, <1>9, <1>10, <1>11, <1>12, <1>14, <1>15,
     <1>16, <1>17 DEF A11yNext, Step

\* If bus and tree stay as they are, what a walk lists and what its stack still
\* holds are together the tree in document order, cut at the depth, and its
\* answer is the beginning of that up to the cap (A11y::walk).
THEOREM WalkInDocumentOrder == A11ySpec => []WalkIsPreorder
<1>1. OrderInv => WalkIsPreorder
  BY DEF OrderInv, OrderReq, OnOrder, Answered, WalkIsPreorder
<1>2. WalkInv /\ OrderInv /\ [A11yNext]_a11yVars => (WalkInv /\ OrderInv)'
  BY WalkStep, OrderStep
<1>3. QED BY <1>1, <1>2, WalkInit, OrderInit, PTL DEF A11ySpec
=============================================================================
