-------------------------- MODULE MCDaemonLifecycle --------------------------
(***************************************************************************)
(* Finite instances of DaemonLifecycle.                                    *)
(***************************************************************************)
EXTENDS DaemonLifecycle, TLC

CONSTANTS d1, d2, d3

Symmetry == Permutations(Daemon)
=============================================================================
