----------------------------- MODULE UndoDaemon -----------------------------
(***************************************************************************)
(* hyprpilot-daemon/src/server.rs: the handlers that record an operation   *)
(* before they answer (move_to_workspace_recorded, kill_active_recorded,   *)
(* close_window_recorded) and the one that undoes it (undo, with           *)
(* apply_inverse of undo.rs).  Every client has a task of its own; a       *)
(* handler awaits Hyprland once per query or dispatch, and other tasks,    *)
(* and the user, act between two awaits.  Only the undo stack is behind a  *)
(* mutex, so here it is the atomic history of DurableStack, which          *)
(* UndoStack implements.                                                   *)
(***************************************************************************)
EXTENDS Integers, Sequences, SequencesExt

CONSTANTS
    Client,        \* connections to the daemon
    Window, Workspace, Gone, Nobody,
    Capacity,      \* UNDO_CAPACITY
    Scenarios      \* who is there and what they may do (Scenario)

Job == [op : {"move", "moveSilent", "kill", "close", "undo"},
        to : Workspace, win : Window]

\* Clients and their requests; what the user does, and whether he waits until
\* no request is being handled; whether calls to Hyprland can fail or time
\* out; and bounds: requests, acts of the user, crashes of the daemon.
Scenario == [clients : SUBSET Client, jobs : SUBSET Job,
             acts : SUBSET {"focus", "close", "open"}, polite : BOOLEAN,
             faults : BOOLEAN, request : Nat, user : Nat, crash : Nat]

ASSUME UndoDaemonAssumption ==
    /\ Capacity \in Nat \ {0}
    /\ Workspace \subseteq Int /\ Gone \notin Workspace /\ Nobody \notin Window
    /\ Scenarios \subseteq Scenario

VARIABLES
    scenario,      \* the scenario at hand
    place, focus,  \* the desktop
    stack,         \* the undo stack
    taken,         \* entries popped to be undone
    req,           \* the request each client's handler is working on
    clock,         \* history: effects of recorded operations so far
    left           \* requests, user actions and crashes still to come

desktop == <<place, focus>>
vars == <<scenario, desktop, stack, taken, req, clock, left>>

None == [win |-> Nobody]
Layout == [Window -> Workspace \union {Gone}]
Effect == [win : Window, from : Workspace, at : Nat, layout : Layout]
UndoEntry == [kind : {"spawn", "move"}, win : Window, back : Workspace,
              silent : BOOLEAN, did : Effect]

Desktop == INSTANCE Hyprland
Stack == INSTANCE DurableStack
            WITH Entry <- UndoEntry, hist <- stack, undone <- taken

\* A handler: where it is, the request, the window it read from Hyprland
\* before acting, what its dispatch did (history), the entry an undo popped.
Request(pc, job) ==
    [pc |-> pc, job |-> job, seen |-> None, effect |-> None, held |-> None]
Idle == Request("idle", None)

AllIdle == \A c \in Client : req[c] = Idle
At(c, label) == req[c].pc = label
Goto(c, label) == req' = [req EXCEPT ![c].pc = label]
Finish(c) == req' = [req EXCEPT ![c] = Idle]
Spend(what) == left[what] > 0 /\ left' = [left EXCEPT ![what] = @ - 1]

Init ==
    /\ scenario \in Scenarios
    /\ place \in [Window -> Workspace]
    /\ focus \in Window
    /\ stack = <<>>
    /\ taken = {}
    /\ req = [c \in Client |-> Idle]
    /\ clock = 0
    /\ left = [request |-> scenario.request, user |-> scenario.user, crash |-> scenario.crash]

\* handle_client reads one request; handle_request picks its handler.
Submit(c, j) ==
    /\ At(c, "idle")
    /\ Spend("request")
    /\ req' = [req EXCEPT ![c] = Request(IF j.op = "undo" THEN "pop" ELSE "query", j)]
    /\ UNCHANGED <<desktop, stack, taken, clock>>

-----------------------------------------------------------------------------
(* Recorded operations: query, dispatch, push.                             *)

\* The window a query reports or a dispatcher acts on: whichever is active at
\* that moment, unless the request names it.
Target(c) == IF req[c].job.op = "close" THEN req[c].job.win ELSE focus

\* active_window, or for close_window the first of clients() that matches.
Query(c) ==
    /\ At(c, "query")
    /\ \/ /\ Target(c) \in Desktop!Open
          /\ req' = [req EXCEPT ![c].seen = [win |-> Target(c), ws |-> place[Target(c)]],
                                ![c].pc = "dispatch"]
       \/ /\ Target(c) \notin Desktop!Open
          /\ IF req[c].job.op = "close" THEN Goto(c, "dispatch") ELSE Finish(c)
    /\ UNCHANGED <<desktop, stack, taken, clock, left>>

\* Hyprland runs the dispatcher.  If its answer is late the handler has given
\* up by then (Connection::send_raw), though the effect is there.
Dispatch(c, answered) ==
    /\ At(c, "dispatch")
    /\ answered \/ scenario.faults
    /\ Target(c) \in Desktop!Open
    /\ LET job == req[c].job
       IN  \/ job.op = "move" /\ Desktop!MoveActive(job.to, FALSE)
           \/ job.op = "moveSilent" /\ Desktop!MoveActive(job.to, TRUE)
           \/ job.op \in {"kill", "close"} /\ Desktop!CloseWindow(Target(c))
    /\ clock' = clock + 1
    /\ IF answered
       THEN req' = [req EXCEPT ![c].pc = "record",
                               ![c].effect = [win |-> Target(c), from |-> place[Target(c)],
                                              at |-> clock, layout |-> place]]
       ELSE Finish(c)
    /\ UNCHANGED <<stack, taken, left>>

\* Hyprland rejects the dispatcher: there is no window for it to act on.
Rejected(c) ==
    /\ At(c, "dispatch")
    /\ Target(c) \notin Desktop!Open
    /\ Finish(c)
    /\ UNCHANGED <<desktop, stack, taken, clock, left>>

\* Faulty variant: the prior workspace is read after the move.
InverseReadLate(c) ==
    [kind   |-> IF req[c].job.op \in {"kill", "close"} THEN "spawn" ELSE "move",
     win    |-> req[c].seen.win,
     back   |-> IF place[req[c].seen.win] = Gone THEN req[c].seen.ws
                                                 ELSE place[req[c].seen.win],
     silent |-> req[c].job.op = "moveSilent",
     did    |-> req[c].effect]

\* The inverse of what the handler believes it did, from what it read before.
InverseAction(c) ==
    [kind   |-> IF req[c].job.op \in {"kill", "close"} THEN "spawn" ELSE "move",
     win    |-> req[c].seen.win,
     back   |-> req[c].seen.ws,
     silent |-> req[c].job.op = "moveSilent",
     did    |-> req[c].effect]

\* Faulty variant: the entry is put at the wrong end.
RecordFirst(c) ==
    /\ At(c, "record")
    /\ req[c].seen # None
    /\ stack' = <<InverseAction(c)>> \o stack
    /\ Finish(c)
    /\ UNCHANGED <<desktop, taken, clock, left>>

Record(c) ==
    /\ At(c, "record")
    /\ req[c].seen # None
    /\ Stack!Record(InverseAction(c))
    /\ Finish(c)
    /\ UNCHANGED <<desktop, clock, left>>

\* No inverse: /proc/<pid>/cmdline was unreadable, or no window had matched.
NotRecorded(c) ==
    /\ At(c, "record")
    /\ req[c].job.op \in {"kill", "close"}
    /\ Finish(c)
    /\ UNCHANGED <<desktop, stack, taken, clock, left>>

-----------------------------------------------------------------------------
(* Undo: pop under the mutex, then apply the inverse without it.           *)

\* Faulty variants: the entry is read and left on the stack; the oldest
\* entry is taken.
PopPeek(c) ==
    /\ At(c, "pop")
    /\ stack # <<>>
    /\ taken' = taken \union {Last(stack)}
    /\ req' = [req EXCEPT
                 ![c].held = Last(stack),
                 ![c].pc = IF Last(stack).kind = "spawn" THEN "spawn" ELSE "refocus"]
    /\ UNCHANGED <<desktop, stack, clock, left>>

PopOldest(c) ==
    /\ At(c, "pop")
    /\ stack # <<>>
    /\ stack' = Tail(stack) /\ taken' = taken \union {Head(stack)}
    /\ req' = [req EXCEPT ![c].held = Head(stack), ![c].pc = "refocus"]
    /\ UNCHANGED <<desktop, clock, left>>

Pop(c) ==
    /\ At(c, "pop")
    /\ \/ /\ stack = <<>>
          /\ Finish(c)
          /\ UNCHANGED <<stack, taken>>
       \/ /\ Stack!TakeBack
          /\ req' = [req EXCEPT
                       ![c].held = Last(stack),
                       ![c].pc = IF Last(stack).kind = "spawn" THEN "spawn" ELSE "refocus"]
    /\ UNCHANGED <<desktop, clock, left>>

\* apply_inverse focuses the recorded window ...
Refocus(c, answered) ==
    /\ At(c, "refocus")
    /\ answered \/ scenario.faults
    /\ Desktop!FocusWindow(req[c].held.win)
    /\ IF answered THEN Goto(c, "moveback") ELSE Finish(c)
    /\ UNCHANGED <<stack, taken, clock, left>>

\* ... and then moves the active one.
MoveBack(c) ==
    /\ At(c, "moveback")
    /\ \E ws \in Desktop!Numbered(req[c].held.back) :
          Desktop!MoveActive(ws, req[c].held.silent)
    /\ Finish(c)
    /\ UNCHANGED <<stack, taken, clock, left>>

\* The captured command line runs again and opens a window of its own.
Respawn(c) ==
    /\ At(c, "spawn")
    /\ \E w \in Window, ws \in Workspace : Desktop!OpenWindow(w, ws)
    /\ Finish(c)
    /\ UNCHANGED <<stack, taken, clock, left>>

\* The inverse cannot be applied: its window is gone, or no window is active.
UndoRejected(c) ==
    /\ \/ At(c, "refocus") /\ req[c].held.win \notin Desktop!Open
       \/ At(c, "moveback") /\ focus = Nobody
       \/ At(c, "spawn") /\ Desktop!Open = Window
    /\ Finish(c)
    /\ UNCHANGED <<desktop, stack, taken, clock, left>>

-----------------------------------------------------------------------------
(* Failures and the rest of the world.                                     *)

\* Faulty variant: queries are not under the timer.
TimeOutDispatches(c) ==
    /\ scenario.faults
    /\ req[c].pc \in {"dispatch", "refocus", "moveback", "spawn"}
    /\ Finish(c)
    /\ UNCHANGED <<desktop, stack, taken, clock, left>>

\* The two seconds of send_raw run out, or the socket fails, before Hyprland
\* has done anything: the handler answers with the error.
TimeOut(c) ==
    /\ scenario.faults
    /\ req[c].pc \in {"query", "dispatch", "refocus", "moveback", "spawn"}
    /\ Finish(c)
    /\ UNCHANGED <<desktop, stack, taken, clock, left>>

\* The daemon dies and is started again: handlers are gone, the stack is not.
Crash ==
    /\ Spend("crash")
    /\ req' = [c \in Client |-> Idle]
    /\ UNCHANGED <<desktop, stack, taken, clock>>

User ==
    /\ scenario.polite => AllIdle
    /\ Spend("user")
    /\ \/ "focus" \in scenario.acts /\ \E w \in Window \ {focus} : Desktop!FocusWindow(w)
       \/ "close" \in scenario.acts /\ \E w \in Window : Desktop!CloseWindow(w)
       \/ "open" \in scenario.acts
          /\ \E w \in Window, ws \in Workspace : Desktop!OpenWindow(w, ws)
    /\ UNCHANGED <<stack, taken, req, clock>>

Handler(c) ==
    \/ Query(c)
    \/ \E answered \in BOOLEAN : Dispatch(c, answered) \/ Refocus(c, answered)
    \/ Rejected(c)
    \/ Record(c)
    \/ NotRecorded(c)
    \/ Pop(c)
    \/ MoveBack(c)
    \/ Respawn(c)
    \/ UndoRejected(c)
    \/ TimeOut(c)

Next ==
    /\ \/ \E c \in scenario.clients, j \in scenario.jobs : Submit(c, j)
       \/ \E c \in Client : Handler(c)
       \/ Crash
       \/ User
    /\ UNCHANGED scenario

Spec == Init /\ [][Next]_vars

\* The timer of send_raw fires whatever Hyprland does, and the steps that do
\* not call Hyprland are run by the scheduler; nothing is assumed of Hyprland.
Fairness ==
    \A c \in Client : /\ WF_vars(TimeOut(c) /\ UNCHANGED scenario)
                      /\ WF_vars(Pop(c) /\ UNCHANGED scenario)
                      /\ WF_vars((Record(c) \/ NotRecorded(c)) /\ UNCHANGED scenario)

FairSpec == Spec /\ Fairness

-----------------------------------------------------------------------------
\* Type invariant of the desktop, the stack and the handlers.
TypeOK ==
    /\ Desktop!DesktopTypeOK
    /\ stack \in Seq(UndoEntry) /\ taken \subseteq UndoEntry
    /\ req \in [Client ->
                  [pc     : {"idle", "query", "dispatch", "record", "pop",
                             "refocus", "moveback", "spawn"},
                   job    : scenario.jobs \union {None},
                   seen   : [win : Window, ws : Workspace] \union {None},
                   effect : Effect \union {None},
                   held   : UndoEntry \union {None}]]
    /\ clock \in Nat
    /\ left \in [{"request", "user", "crash"} -> Nat]

\* Only what Hyprland did is undoable, and nothing twice: each entry stands
\* for a dispatch that took effect, no two for the same one, and an entry
\* already popped does not come back (recorded handlers and undo).
OneEntryPerEffect ==
    /\ \A i \in 1..Len(stack) : stack[i].did # None
    /\ \A i, j \in 1..Len(stack) : stack[i].did.at = stack[j].did.at => i = j
    /\ \A i \in 1..Len(stack), e \in taken : stack[i].did.at # e.did.at

\* One client, and nobody touches the desktop while its request is handled.
Quiet == scenario.polite /\ ~scenario.faults /\ \E c \in Client : scenario.clients = {c}

\* Of one client, with a user who waits: an entry names the window the
\* operation really acted on and, for a move, the workspace that window really
\* came from (the handlers read both before they dispatch).
EntryTruthful ==
    Quiet => \A i \in 1..Len(stack) :
        LET e == stack[i]
        IN  /\ e.win = e.did.win
            /\ e.kind = "move" => e.back = e.did.from

\* Of one client: the entry undo pops first is the operation that took effect
\* last.
TopIsLatest ==
    Quiet => \A i, j \in 1..Len(stack) : i < j => stack[i].did.at < stack[j].did.at

\* Quiet, and all that happens to the desktop is moves and their undoing.
Undisturbed ==
    /\ Quiet /\ scenario.acts \subseteq {"focus"} /\ scenario.crash = 0
    /\ \A j \in scenario.jobs : j.op \in {"move", "moveSilent", "undo"}

\* Of one client that moves windows: undoing every recorded move, the latest
\* first, brings each layout of the desktop back as it was before that move.
UndoUnwinds ==
    Undisturbed /\ AllIdle =>
        \A i \in 1..Len(stack) :
            LET after == IF i = Len(stack) THEN place ELSE stack[i + 1].did.layout
            IN  \A ws \in Desktop!Numbered(stack[i].back) :
                    [after EXCEPT ![stack[i].win] = ws] = stack[i].did.layout

\* Where calls to Hyprland may run into the 2 s of send_raw, every request is
\* answered, even if Hyprland hangs.
EveryRequestAnswered ==
    \A c \in Client : scenario.faults /\ ~At(c, "idle") ~> At(c, "idle")
=============================================================================
