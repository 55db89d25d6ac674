--------------------------- MODULE SnapshotRestore ---------------------------
(***************************************************************************)
(* Snapshots of the desktop: capture, save and delete, and the restore     *)
(* handler of hyprpilot-daemon/src/server.rs, which saves a pre-restore    *)
(* snapshot, diffs the target against the live desktop (SnapshotDiff) and  *)
(* applies the diff one dispatch at a time (apply_diff) while the user     *)
(* goes on working.  What the dispatchers do to the desktop is Hyprland's  *)
(* and modelled by what snapshot.rs and dispatch.rs ask them for.  The     *)
(* queries of one capture are taken to see one state of the desktop.       *)
(***************************************************************************)
EXTENDS SnapshotDiff

CONSTANTS
    Saved,         \* the name under which the client saves a snapshot
    Start,         \* the desktop of the first state
    DiskMayFail,   \* may saving fail?
    Faults,        \* may a dispatch fail or be answered too late?
    MaxChanges, MaxSeconds   \* bounds: changes by the user and restores; seconds

Workspace == 1..2
Layout == 0          \* where the layout puts a tiled window: no floating one is there
Geometry == 1..2     \* a place, or a size
State == {s \in [ws : Workspace, floating : BOOLEAN, at : {Layout} \union Geometry,
                 size : {Layout} \union Geometry, full : 0..1, pinned : BOOLEAN] :
            IF s.floating THEN Layout \notin {s.at, s.size}
            ELSE s.at = Layout /\ s.size = Layout /\ ~s.pinned}

\* Snapshots a restore saves are named by the second it runs in.
PreName(second) == <<"_pre-restore-", second>>
Name == {Saved} \union {PreName(t) : t \in 1..MaxSeconds}

ASSUME SnapshotAssumption ==
    /\ PidOf \in [Address -> DOMAIN PidOf \union Range(PidOf)]
    /\ IdOf \in [Address -> Range(IdOf)]
    /\ Nobody \notin Address
    /\ IsFiniteSet(DOMAIN Start) /\ DOMAIN Start \subseteq Address
    /\ Start \in [DOMAIN Start -> State]
    /\ DiskMayFail \in BOOLEAN /\ Faults \in BOOLEAN
    /\ MaxChanges \in Nat /\ MaxSeconds \in Nat \ {0}

VARIABLES
    live, focus,   \* the desktop: the state of each open window; the active one
    store,         \* the snapshot files
    job,           \* the restore in progress
    second,        \* now_unix()
    left,          \* user actions and restores still to come
    trail          \* history: the last restore, if nothing has changed since and
                   \* nothing was written over the snapshot it answered with

desktop == <<live, focus>>
restoreVars == <<desktop, store, job, second, left, trail>>

Open == DOMAIN live
None == [windows |-> <<>>, active |-> Nobody]   \* no file; or nothing to restore
NoRestore == [pc |-> "idle"]
NoTrail == [pre |-> Saved, before |-> <<>>]

Window(a) == [addr |-> a, ws |-> live[a].ws, floating |-> live[a].floating,
              at |-> live[a].at, size |-> live[a].size, full |-> live[a].full, pinned |-> live[a].pinned]

\* Snapshot::capture: the windows in the order in which Hyprland lists them.
Captures ==
    {[windows |-> [i \in 1..Len(order) |-> Window(order[i])], active |-> focus] :
        order \in SetToSeqs(Open)}

RestoreInit ==
    /\ live = Start
    /\ focus \in DOMAIN Start
    /\ store = [n \in Name |-> None]
    /\ job = NoRestore
    /\ second = 1
    /\ left = MaxChanges
    /\ trail = NoTrail

-----------------------------------------------------------------------------
(* Hyprland's dispatchers; each needs the window to be there.              *)

FocusMovesOn == focus' \in (Open \ {focus}) \union {Nobody}
Update(a, s) == live' = [live EXCEPT ![a] = s]

MoveSilently(a, to) ==
    /\ Update(a, [live[a] EXCEPT !.ws = to])
    /\ IF a = focus /\ live[a].ws # to THEN FocusMovesOn ELSE UNCHANGED focus

ToggleFloating(a) ==
    /\ IF live[a].floating
       THEN Update(a, [live[a] EXCEPT !.floating = FALSE, !.at = Layout, !.size = Layout,
                                      !.pinned = FALSE])
       ELSE \E g \in Geometry :
               Update(a, [live[a] EXCEPT !.floating = TRUE, !.at = g, !.size = g])
    /\ UNCHANGED focus

\* Both do nothing to a tiled window.
Place(a, to) ==
    /\ IF live[a].floating THEN Update(a, [live[a] EXCEPT !.at = to]) ELSE UNCHANGED live
    /\ UNCHANGED focus

Resize(a, to) ==
    /\ IF live[a].floating THEN Update(a, [live[a] EXCEPT !.size = to]) ELSE UNCHANGED live
    /\ UNCHANGED focus

SetFullscreen(a, to) == Update(a, [live[a] EXCEPT !.full = to]) /\ UNCHANGED focus

TogglePin(a) ==
    /\ live[a].floating
    /\ Update(a, [live[a] EXCEPT !.pinned = ~@])
    /\ UNCHANGED focus

Focus(a) == focus' = a /\ UNCHANGED live

Dispatch(action) ==
    LET a == action.addr
    IN  /\ a \in Open
        /\ \/ action.kind = "move" /\ MoveSilently(a, action.to)
           \/ action.kind = "float" /\ ToggleFloating(a)
           \/ action.kind = "place" /\ Place(a, action.to)
           \/ action.kind = "resize" /\ Resize(a, action.to)
           \/ action.kind = "fullscreen" /\ SetFullscreen(a, action.to)
           \/ action.kind = "pin" /\ TogglePin(a)
           \/ action.kind = "focus" /\ Focus(a)

-----------------------------------------------------------------------------
(* The handlers.  The client waits for one answer before it asks again.    *)

\* A file that is written over is not the one the last restore answered with.
Write(n, snap) ==
    /\ store' = [store EXCEPT ![n] = snap]
    /\ trail' = IF n = trail.pre THEN NoTrail ELSE trail

SnapshotSave ==
    /\ job = NoRestore
    /\ \E snap \in Captures : Write(Saved, snap)
    /\ UNCHANGED <<desktop, job, second, left>>

SnapshotDelete(n) ==
    /\ job = NoRestore
    /\ store[n] # None
    /\ store' = [store EXCEPT ![n] = None]
    /\ UNCHANGED <<desktop, job, second, left, trail>>

\* snapshot_restore loads its target first; before, disturbed,
\* failed and origin are history: the desktop as the restore finds it, what
\* went wrong, and the desktop that was there before a restore it takes back.
RestoreLoad(n) ==
    /\ job = NoRestore
    /\ left > 0
    /\ store[n] # None
    /\ left' = left - 1
    /\ job' = [pc |-> "pre", target |-> store[n], pre |-> n, saved |-> FALSE,
               todo |-> <<>>, before |-> desktop, disturbed |-> FALSE, failed |-> FALSE,
               origin |-> IF n = trail.pre THEN trail.before ELSE <<>>]
    /\ UNCHANGED <<desktop, store, second, trail>>

\* Faulty variant: the pre-restore snapshot is a copy of the target's file.
SavePreOfTarget ==
    /\ job.pc = "pre"
    /\ Write(PreName(second), job.target)
    /\ job' = [job EXCEPT !.pc = "plan", !.pre = PreName(second), !.saved = TRUE]
    /\ UNCHANGED <<desktop, second, left>>

\* A pre-restore snapshot that cannot be saved is a warning in the log.
SavePre ==
    /\ job.pc = "pre"
    /\ \/ /\ \E snap \in Captures : Write(PreName(second), snap)
          /\ job' = [job EXCEPT !.pc = "plan", !.pre = PreName(second), !.saved = TRUE]
       \/ /\ DiskMayFail
          /\ job' = [job EXCEPT !.pc = "plan", !.pre = PreName(second)]
          /\ UNCHANGED <<store, trail>>
    /\ UNCHANGED <<desktop, second, left>>

\* A query fails: the restore ends with an error before it changes anything.
CaptureFails ==
    /\ Faults
    /\ job.pc \in {"pre", "plan"}
    /\ job' = NoRestore
    /\ UNCHANGED <<desktop, store, second, left, trail>>

Plan ==
    /\ job.pc = "plan"
    /\ job' = [job EXCEPT !.pc = "apply", !.todo = DiffAgainst(job.target, live, focus)]
    /\ UNCHANGED <<desktop, store, second, left, trail>>

\* What is left of the action at the head once its dispatch is answered:
\* RepositionFloating resizes the window when it has moved it.
Rest(action) ==
    IF action.kind = "place"
    THEN <<[kind |-> "resize", addr |-> action.addr, to |-> action.size]>>
    ELSE <<>>

\* Hyprland answers with an error: the window is not there, or tiled.
Refused(action) == ~ENABLED Dispatch(action)

\* Faulty variant: a window that could not be moved is not reported.
ApplyForgiving ==
    /\ job.pc = "apply"
    /\ job.todo # <<>>
    /\ LET action == Head(job.todo)
       IN  \/ /\ Dispatch(action)
              /\ job' = [job EXCEPT !.todo = Rest(action) \o Tail(@)]
           \/ /\ Faults \/ Refused(action)
              /\ job' = [job EXCEPT !.todo = Tail(@), !.failed = @ \/ action.kind # "place"]
              /\ UNCHANGED desktop
    /\ UNCHANGED <<store, second, left, trail>>

\* apply_diff notes an error and goes on with the next action.  A dispatch
\* that fails or times out may or may not have taken effect.
Apply ==
    /\ job.pc = "apply"
    /\ job.todo # <<>>
    /\ LET action == Head(job.todo)
       IN  \/ /\ Dispatch(action)
              /\ job' = [job EXCEPT !.todo = Rest(action) \o Tail(@)]
           \/ /\ Faults /\ Dispatch(action)
              /\ job' = [job EXCEPT !.todo = Tail(@), !.failed = TRUE]
           \/ /\ Faults \/ Refused(action)
              /\ job' = [job EXCEPT !.todo = Tail(@), !.failed = TRUE]
              /\ UNCHANGED desktop
    /\ UNCHANGED <<store, second, left, trail>>

Answer ==
    /\ job.pc = "apply"
    /\ job.todo = <<>>
    /\ job' = NoRestore
    /\ trail' = IF job.disturbed \/ job.failed \/ ~job.saved THEN NoTrail
                ELSE [pre |-> job.pre, before |-> job.before]
    /\ UNCHANGED <<desktop, store, second, left>>

Tick ==
    /\ second < MaxSeconds
    /\ second' = second + 1
    /\ UNCHANGED <<desktop, store, job, left, trail>>

\* The user, or a client, closes, opens or changes a window.
User ==
    /\ left > 0
    /\ left' = left - 1
    /\ trail' = NoTrail
    /\ job' = IF job = NoRestore THEN NoRestore ELSE [job EXCEPT !.disturbed = TRUE]
    /\ \/ \E a \in Open :
            \/ \E ws \in Workspace \ {live[a].ws} : MoveSilently(a, ws)
            \/ ToggleFloating(a)
            \/ TogglePin(a)
            \/ SetFullscreen(a, 1 - live[a].full)
       \/ \E a \in Open :
            /\ live' = [b \in Open \ {a} |-> live[b]]
            /\ IF a = focus THEN FocusMovesOn ELSE UNCHANGED focus
       \/ \E a \in Address \ Open, s \in State :
            /\ ~s.floating /\ s.full = 0
            /\ live' = [b \in Open \union {a} |-> IF b = a THEN s ELSE live[b]]
            /\ focus' = a
    /\ UNCHANGED <<store, second>>

RestoreNext ==
    \/ SnapshotSave
    \/ \E n \in Name : SnapshotDelete(n) \/ RestoreLoad(n)
    \/ SavePre \/ CaptureFails \/ Plan \/ Apply \/ Answer
    \/ Tick
    \/ User

RestoreSpec == RestoreInit /\ [][RestoreNext]_restoreVars

-----------------------------------------------------------------------------
IsSnapshot(s) ==
    /\ \A i \in 1..Len(s.windows) :
          /\ s.windows[i].addr \in Address
          /\ [f \in DOMAIN s.windows[i] \ {"addr"} |-> s.windows[i][f]] \in State
    /\ s.active \in Address \union {Nobody}

\* Type invariant of the desktop, the files and the restore.
RestoreTypeOK ==
    /\ Open \subseteq Address /\ \A a \in Open : live[a] \in State
    /\ focus \in Open \union {Nobody}
    /\ \A n \in Name : IsSnapshot(store[n])
    /\ job # NoRestore => /\ job.pc \in {"pre", "plan", "apply"}
                          /\ IsSnapshot(job.target)
                          /\ \A i \in 1..Len(job.todo) : job.todo[i].addr \in Address

\* The live window is as the snapshot has it, as far as a restore goes.
Agrees(w, s) ==
    /\ s.ws = w.ws /\ s.floating = w.floating /\ s.full = w.full
    /\ w.floating => s.at = w.at /\ s.size = w.size /\ s.pinned = w.pinned

Applied == job.pc = "apply" /\ job.todo = <<>>
Undisturbed == ~job.disturbed /\ ~job.failed

\* A restore whose outcomes are all ok, and that nobody disturbed, has put
\* every window it matched back as the snapshot had it: no action of the diff
\* undoes another or leaves something behind, no two windows of the snapshot
\* are matched to one, and what was done by half is reported as an error
\* (diff_against, apply_diff).
LayoutRestored ==
    Applied /\ Undisturbed =>
        LET ws == job.target.windows
            matched == Matching(ws, Open)
        IN  \A i \in 1..Len(ws) : matched[i] # Nobody => Agrees(ws[i], live[matched[i]])

\* A restore can be taken back: restoring the snapshot it answered with puts
\* every window back as the first restore found it, if both had outcomes that
\* are all ok and nobody disturbed them - even within one second, when the
\* second writes its own copy over the file it was asked for
\* (server.rs:844 "so the operation is reversible").  The exception: a snapshot
\* that some other restore of the same second has written over, which takes
\* back that restore only - or, if it failed at its second capture, none.
Reversible ==
    Applied /\ Undisturbed /\ job.origin # <<>> => live = job.origin[1]

\* A window of the snapshot that is still open is restored as itself.
AddressFirst ==
    job # NoRestore =>
        LET ws == job.target.windows
            matched == Matching(ws, Open)
        IN  \A i \in 1..Len(ws) : ws[i].addr \in Open => matched[i] = ws[i].addr

\* A restore gives the focus back to the window that had it in the snapshot.
\* The one exception: that window has the focus when the diff is made, so no
\* action restores it, and then the restore itself moves it elsewhere.
FocusRestored ==
    Applied /\ Undisturbed =>
        LET a == job.target.active
        IN  a \in Open =>
                \/ focus = a
                \/ job.before[2] = a /\ live[a].ws # job.before[1][a].ws
=============================================================================
