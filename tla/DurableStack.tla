---------------------------- MODULE DurableStack ----------------------------
(***************************************************************************)
(* What the daemon's undo stack promises: a bounded last-in-first-out      *)
(* history of reversible operations that outlives the daemon's process.    *)
(* Recording an operation and handing one back to be undone are atomic; a  *)
(* crash is invisible.  Module UndoStack, the in-memory VecDeque mirrored  *)
(* to undo.json, is shown to implement this one.                           *)
(***************************************************************************)
EXTENDS Naturals, Sequences, SequencesExt

CONSTANTS
    Entry,     \* the operations that may be recorded (UndoEntry)
    Capacity   \* how many of them are kept (UNDO_CAPACITY)

VARIABLES
    hist,      \* operations that can still be undone, oldest first
    undone     \* operations handed back to be undone

abstractVars == <<hist, undone>>

\* A history after recording e: at capacity the oldest operation makes room.
Pushed(s, e) == Append(IF Len(s) = Capacity THEN Tail(s) ELSE s, e)

AbstractInit ==
    /\ hist \in Seq(Entry)
    /\ Len(hist) <= Capacity
    /\ undone = {}

Record(e) ==
    /\ e \notin Range(hist) \union undone
    /\ hist' = Pushed(hist, e)
    /\ UNCHANGED undone

TakeBack ==
    /\ hist # <<>>
    /\ hist' = Front(hist)
    /\ undone' = undone \union {Last(hist)}

AbstractNext == TakeBack \/ \E e \in Entry : Record(e)

AbstractSpec == AbstractInit /\ [][AbstractNext]_abstractVars
=============================================================================
