--------------------------- MODULE DaemonLifecycle ---------------------------
(***************************************************************************)
(* hyprpilot-daemon/src/server.rs run(): how a daemon takes over its       *)
(* socket, serves, is told to stop and lets go of the socket again, and    *)
(* the life of its rules engine (engine.rs run()).  Several daemons share  *)
(* one socket path.  One member of Daemon is one process: it is launched   *)
(* at most once.                                                           *)
(*                                                                         *)
(* Main task and engine wait on the same tokio Notify.  notify_one wakes   *)
(* the task that has waited longest, or leaves a permit if none waits; a   *)
(* waiter that is dropped after it was woken passes the wake-up on.        *)
(***************************************************************************)
EXTENDS Naturals, Sequences, FiniteSets

CONSTANTS
    Daemon,      \* daemon processes
    HasEngine,   \* is there a rules file?
    Overlap,     \* launches may overlap another daemon's "start", its "stop"
    MayCrash,    \* may processes be killed?
    MaxStops     \* bound: Shutdown requests per daemon

ASSUME LifecycleAssumption ==
    /\ HasEngine \in BOOLEAN /\ MayCrash \in BOOLEAN
    /\ Overlap \subseteq {"start", "stop"}
    /\ MaxStops \in Nat

VARIABLES
    pc,          \* where each daemon's main task is
    sock,        \* whose socket the path names: {} or one daemon
    engine,      \* the engine task of each daemon
    notify,      \* State::shutdown of each daemon
    stops,       \* Shutdown requests answered
    signalled    \* history: did the daemon get SIGINT or SIGTERM?

vars == <<pc, sock, engine, notify, stops, signalled>>

Starting == {"check", "probe", "unlink", "bind", "setup"}
\* The listener lives from bind until main leaves its select.
Listening == {d \in Daemon : pc[d] \in {"setup", "select"}}

Stopping(d) ==
    \/ pc[d] \in {"drain", "cleanup"}
    \/ pc[d] = "select" /\ stops[d] > 0
NoneStarting == \A d \in Daemon : pc[d] \notin Starting

Go(d, label) == pc' = [pc EXCEPT ![d] = label]

-----------------------------------------------------------------------------
(* tokio::sync::Notify.                                                    *)

Quiet == [permit |-> FALSE, queue |-> <<>>, woken |-> {}]

NotifyOne(n) ==
    IF n.queue = <<>> THEN [n EXCEPT !.permit = TRUE]
    ELSE [n EXCEPT !.queue = Tail(@), !.woken = @ \union {Head(n.queue)}]

Await(n, who) ==
    IF n.permit THEN [n EXCEPT !.permit = FALSE, !.woken = @ \union {who}]
    ELSE [n EXCEPT !.queue = Append(@, who)]

Drop(n, who) ==
    IF who \in n.woken THEN NotifyOne([n EXCEPT !.woken = @ \ {who}])
    ELSE [n EXCEPT !.queue = SelectSeq(@, LAMBDA x : x # who)]

Awaits(d, who) ==
    who \in notify[d].woken \/ \E i \in 1..Len(notify[d].queue) : notify[d].queue[i] = who

-----------------------------------------------------------------------------
Init ==
    /\ pc = [d \in Daemon |-> "new"]
    /\ sock = {}
    /\ engine = [d \in Daemon |-> "none"]
    /\ notify = [d \in Daemon |-> Quiet]
    /\ stops = [d \in Daemon |-> 0]
    /\ signalled = [d \in Daemon |-> FALSE]

Launch(d) ==
    /\ pc[d] = "new"
    /\ "start" \in Overlap \/ NoneStarting
    /\ "stop" \in Overlap \/ \A e \in Daemon : ~Stopping(e)
    /\ Go(d, "check")
    /\ UNCHANGED <<sock, engine, notify, stops, signalled>>

\* socket_path.exists()
Check(d) ==
    /\ pc[d] = "check"
    /\ Go(d, IF sock = {} THEN "bind" ELSE "probe")
    /\ UNCHANGED <<sock, engine, notify, stops, signalled>>

\* Faulty variants: the answer of the peer is ignored; a daemon that gives up
\* removes the socket as one that exits does.
ProbeBlind(d) ==
    /\ pc[d] = "probe"
    /\ Go(d, "unlink")
    /\ UNCHANGED <<sock, engine, notify, stops, signalled>>

ProbeCleansUp(d) ==
    /\ pc[d] = "probe"
    /\ Go(d, IF sock \cap Listening # {} THEN "cleanup" ELSE "unlink")
    /\ UNCHANGED <<sock, engine, notify, stops, signalled>>

\* UnixStream::connect: a peer that answers is a live daemon.
Probe(d) ==
    /\ pc[d] = "probe"
    /\ Go(d, IF sock \cap Listening # {} THEN "refused" ELSE "unlink")
    /\ UNCHANGED <<sock, engine, notify, stops, signalled>>

Unlink(d) ==
    /\ pc[d] = "unlink"
    /\ sock' = {}
    /\ Go(d, "bind")
    /\ UNCHANGED <<engine, notify, stops, signalled>>

\* bind fails on a path that exists.
Bind(d) ==
    /\ pc[d] = "bind"
    /\ IF sock = {} THEN sock' = {d} /\ Go(d, "setup")
                    ELSE Go(d, "refused") /\ UNCHANGED sock
    /\ UNCHANGED <<engine, notify, stops, signalled>>

\* Connection, undo stack, input gate, cache; the engine task is spawned.
Setup(d) ==
    /\ pc[d] = "setup"
    /\ Go(d, "select")
    /\ engine' = [engine EXCEPT ![d] = IF HasEngine THEN "starting" ELSE "none"]
    /\ UNCHANGED <<sock, notify, stops, signalled>>

\* Hyprland is not there: run() returns, and leaves the socket file behind.
SetupFails(d) ==
    /\ pc[d] = "setup"
    /\ Go(d, "exited")
    /\ UNCHANGED <<sock, engine, notify, stops, signalled>>

\* signal_loop is polled for the first time; clients may be served already.
MainAwaits(d) ==
    /\ pc[d] = "select"
    /\ ~Awaits(d, "main")
    /\ notify' = [notify EXCEPT ![d] = Await(@, "main")]
    /\ UNCHANGED <<pc, sock, engine, stops, signalled>>

\* Faulty variant: notify_waiters, which leaves no permit.
ShutdownWaiters(d) ==
    /\ pc[d] \in {"select", "drain"}
    /\ "stop" \in Overlap \/ NoneStarting
    /\ stops[d] < MaxStops
    /\ stops' = [stops EXCEPT ![d] = @ + 1]
    /\ notify' = [notify EXCEPT ![d].queue = <<>>,
                                ![d].woken = @ \union {notify[d].queue[i] :
                                                    i \in 1..Len(notify[d].queue)}]
    /\ UNCHANGED <<pc, sock, engine, signalled>>

\* A client's Shutdown request is answered with "shutting_down"; the tasks of
\* connected clients outlive the select.
Shutdown(d) ==
    /\ pc[d] \in {"select", "drain"}
    /\ "stop" \in Overlap \/ NoneStarting
    /\ stops[d] < MaxStops
    /\ stops' = [stops EXCEPT ![d] = @ + 1]
    /\ notify' = [notify EXCEPT ![d] = NotifyOne(@)]
    /\ UNCHANGED <<pc, sock, engine, signalled>>

\* The select ends by shutdown.notified(); the listener is dropped with it.
MainNotified(d) ==
    /\ pc[d] = "select"
    /\ "main" \in notify[d].woken
    /\ notify' = [notify EXCEPT ![d].woken = @ \ {"main"}]
    /\ Go(d, "drain")
    /\ UNCHANGED <<sock, engine, stops, signalled>>

\* The select ends by wait_signal().
MainSignalled(d) ==
    /\ pc[d] = "select"
    /\ Awaits(d, "main")
    /\ "stop" \in Overlap \/ NoneStarting
    /\ signalled' = [signalled EXCEPT ![d] = TRUE]
    /\ notify' = [notify EXCEPT ![d] = Drop(@, "main")]
    /\ Go(d, "drain")
    /\ UNCHANGED <<sock, engine, stops>>

\* The engine's handle completes, or there is none.
Drained(d) ==
    /\ pc[d] = "drain"
    /\ engine[d] \in {"none", "done"}
    /\ Go(d, "cleanup")
    /\ UNCHANGED <<sock, engine, notify, stops, signalled>>

\* Faulty variant: the engine is awaited without a timeout.
DrainForEver(d) ==
    /\ pc[d] = "drain"
    /\ engine[d] = "done"
    /\ Go(d, "cleanup")
    /\ UNCHANGED <<sock, engine, notify, stops, signalled>>

\* The second main grants the engine is over: the engine is abandoned.
DrainTimesOut(d) ==
    /\ pc[d] = "drain"
    /\ engine[d] \notin {"none", "done"}
    /\ Go(d, "cleanup")
    /\ UNCHANGED <<sock, engine, notify, stops, signalled>>

\* remove_file(&socket_path), whatever it names by now; run() returns.
Cleanup(d) ==
    /\ pc[d] = "cleanup"
    /\ sock' = {}
    /\ engine' = [engine EXCEPT ![d] = "none"]
    /\ Go(d, "exited")
    /\ UNCHANGED <<notify, stops, signalled>>

Crash(d) ==
    /\ MayCrash
    /\ pc[d] \notin {"new", "refused", "exited"}
    /\ engine' = [engine EXCEPT ![d] = "none"]
    /\ Go(d, "exited")
    /\ UNCHANGED <<sock, notify, stops, signalled>>

-----------------------------------------------------------------------------
(* The rules engine: a select between shutdown.notified() and the next     *)
(* event, entered anew after every event.                                  *)

EngineGoes(d, to) == engine' = [engine EXCEPT ![d] = to]

EngineAwaits(d) ==
    /\ engine[d] \in {"starting", "busy"}
    /\ EngineGoes(d, "waiting")
    /\ notify' = [notify EXCEPT ![d] = Await(@, "engine")]
    /\ UNCHANGED <<pc, sock, stops, signalled>>

EngineEvent(d) ==
    /\ engine[d] = "waiting"
    /\ EngineGoes(d, "busy")
    /\ notify' = [notify EXCEPT ![d] = Drop(@, "engine")]
    /\ UNCHANGED <<pc, sock, stops, signalled>>

EngineNotified(d) ==
    /\ engine[d] = "waiting"
    /\ "engine" \in notify[d].woken
    /\ EngineGoes(d, "done")
    /\ notify' = [notify EXCEPT ![d].woken = @ \ {"engine"}]
    /\ UNCHANGED <<pc, sock, stops, signalled>>

\* The rules do not compile, or the event socket is closed or fails.
EngineFails(d) ==
    /\ engine[d] \in {"starting", "waiting"}
    /\ EngineGoes(d, "done")
    /\ notify' = [notify EXCEPT ![d] = Drop(@, "engine")]
    /\ UNCHANGED <<pc, sock, stops, signalled>>

-----------------------------------------------------------------------------
Main(d) ==
    \/ Check(d) \/ Probe(d) \/ Unlink(d) \/ Bind(d) \/ Setup(d)
    \/ MainAwaits(d) \/ MainNotified(d)
    \/ Drained(d) \/ DrainTimesOut(d) \/ Cleanup(d)

Engine(d) == EngineAwaits(d) \/ EngineEvent(d) \/ EngineNotified(d) \/ EngineFails(d)

Next ==
    \E d \in Daemon :
        \/ Launch(d) \/ Main(d) \/ Engine(d)
        \/ SetupFails(d) \/ Shutdown(d) \/ MainSignalled(d) \/ Crash(d)

Spec == Init /\ [][Next]_vars

\* The runtime polls a woken task and fires the timer of the drain; whether
\* events come is up to Hyprland, so an engine may wait for ever.
Fairness ==
    \A d \in Daemon : /\ WF_vars(Main(d))
                      /\ WF_vars(EngineAwaits(d))
                      /\ SF_vars(EngineNotified(d))

FairSpec == Spec /\ Fairness

-----------------------------------------------------------------------------
\* Type invariant of the processes, the socket path and the Notify: no task
\* waits on it twice.
TypeOK ==
    /\ pc \in [Daemon -> Starting \union
                 {"new", "refused", "select", "drain", "cleanup", "exited"}]
    /\ sock \subseteq Daemon /\ Cardinality(sock) <= 1
    /\ engine \in [Daemon -> {"none", "starting", "waiting", "busy", "done"}]
    /\ \A d \in Daemon : /\ notify[d].permit \in BOOLEAN
                         /\ notify[d].queue \in Seq({"main", "engine"})
                         /\ \A i, j \in 1..Len(notify[d].queue) :
                                notify[d].queue[i] = notify[d].queue[j] => i = j
                         /\ notify[d].woken \subseteq {"main", "engine"}
    /\ stops \in [Daemon -> 0..MaxStops]
    /\ signalled \in [Daemon -> BOOLEAN]

\* At most one daemon accepts connections (run() refuses to start beside a
\* live peer).
OneDaemon == Cardinality(Listening) <= 1

\* A daemon that serves can be reached through the socket path.
ServingIsReachable == \A d \in Daemon : pc[d] = "select" => sock = {d}

\* A daemon told to shut down by a client exits.
ShutdownHonoured == \A d \in Daemon : stops[d] > 0 ~> pc[d] = "exited"

\* ... or at least its rules engine ends: the wake-up always reaches one.
ShutdownReachesOne ==
    \A d \in Daemon : stops[d] > 0 ~> pc[d] = "exited" \/ engine[d] = "done"

\* A daemon told to stop by a signal exits, whatever its engine does.
SignalHonoured == \A d \in Daemon : signalled[d] ~> pc[d] = "exited"
=============================================================================
