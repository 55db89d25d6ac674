---------------------------- MODULE MCUndoDaemon ----------------------------
(***************************************************************************)
(* Finite instances of UndoDaemon.                                         *)
(***************************************************************************)
EXTENDS UndoDaemon, TLC

CONSTANTS c1, c2, w1, w2

MCWorkspace == 1..2
MCScratchpad == {-99, 1, 2}

JobOf(op, to, win) == [op |-> op, to |-> to, win |-> win]

\* Two clients, one request of every recorded operation, a user who opens and
\* closes windows when he likes, and a daemon that may crash.
Busy == [clients |-> {c1, c2},
         jobs |-> {JobOf("move", 2, w1), JobOf("kill", 1, w1), JobOf("close", 1, w1),
                   JobOf("undo", 1, w1)},
         acts |-> {"close", "open"}, polite |-> FALSE, faults |-> TRUE,
         request |-> 3, user |-> 1, crash |-> 1]

\* One client that moves windows, and a user who picks the window between its
\* requests.
Calm == [clients |-> {c1},
         jobs |-> {JobOf("move", 1, w1), JobOf("move", 2, w1),
                   JobOf("moveSilent", 2, w1), JobOf("undo", 1, w1)},
         acts |-> {"focus"}, polite |-> TRUE, faults |-> FALSE,
         request |-> 5, user |-> 2, crash |-> 0]

MCScenarios == {Busy, Calm}
MCCalm == {[Calm EXCEPT !.request = 1, !.user = 0]}
=============================================================================
