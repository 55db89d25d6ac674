-------------------------- MODULE MCSnapshotRestore --------------------------
(***************************************************************************)
(* Finite instances of SnapshotRestore.  Windows w1 and w2 belong to one   *)
(* process, w3 is one w1's application opens after a restart.              *)
(***************************************************************************)
EXTENDS SnapshotRestore, TLC

CONSTANTS w1, w2, w3, pid1, pid2, editor, viewer

MCPidOf == (w1 :> pid1) @@ (w2 :> pid1) @@ (w3 :> pid2)
MCIdOf == (w1 :> editor) @@ (w2 :> viewer) @@ (w3 :> editor)

Tiled == [ws |-> 1, floating |-> FALSE, at |-> Layout, size |-> Layout, full |-> 0, pinned |-> FALSE]
Floats == [ws |-> 2, floating |-> TRUE, at |-> 1, size |-> 1, full |-> 0, pinned |-> TRUE]
MCStart == (w1 :> Tiled) @@ (w2 :> Floats)
=============================================================================
