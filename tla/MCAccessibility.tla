--------------------------- MODULE MCAccessibility ---------------------------
(***************************************************************************)
(* A finite instance of Accessibility: two applications of one process, of *)
(* which one quits when the other starts.  Twin is its own child.          *)
(***************************************************************************)
EXTENDS Accessibility

MCNode == {"app", "twin", "bar", "ok", "menu", "null"}

Nested == [app |-> <<"bar", "null", "ok">>, bar |-> <<"menu">>, ok |-> <<>>, menu |-> <<>>]
Looped == [twin |-> <<"ok", "twin">>, ok |-> <<>>]

MCTrees == {Nested, Looped}
MCRoots == <<[root |-> "app", pid |-> "p1"], [root |-> "twin", pid |-> "p1"]>>

Ask(pid, cap, wanted) == [pid |-> pid, cap |-> cap, wanted |-> wanted]
MCAsks == {Ask("p1", 4, {"app", "ok", "menu"}), Ask("p1", 1, MCNode)}
=============================================================================
