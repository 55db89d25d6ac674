---------------------------- MODULE MCStateCache ----------------------------
(***************************************************************************)
(* Finite instances of StateCache.                                         *)
(***************************************************************************)
EXTENDS StateCache, TLC

CONSTANTS r1, r2, task

Symmetry == Permutations(Reader)
=============================================================================
