----------------------------- MODULE MCUndoStack -----------------------------
(***************************************************************************)
(* Finite instances of UndoStack.                                          *)
(***************************************************************************)
EXTENDS UndoStack, TLC

CONSTANTS e1, e2, e3, e4, e5

MCEntry == {e1, e2, e3, e4, e5}

\* No file, an unreadable one, a short one, and one longer than the capacity.
MCInitialFiles == {Missing, Torn, Doc(<<e1>>), Doc(<<e1, e2, e3>>)}
=============================================================================
