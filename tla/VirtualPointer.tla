---------------------------- MODULE VirtualPointer ----------------------------
(***************************************************************************)
(* hyprpilot-input/src/virtual_pointer.rs: the thread that owns the        *)
(* Wayland connection and moves the pointer for the daemon's handlers, and *)
(* the conversion of coordinates on the way to it (logical_to_device in    *)
(* hyprpilot-daemon/src/server.rs).  Coordinates are one-dimensional: x    *)
(* and y are treated alike.  Left out: the time stamps of the events,      *)
(* which nothing reads back.                                               *)
(*                                                                         *)
(* A layout has outputs and the name of the focused one.  An output has    *)
(* its logical position x, its device width and its scale in halves (2 is  *)
(* a scale of one).                                                        *)
(***************************************************************************)
EXTENDS Integers, Sequences, FiniteSets, FiniteSetsExt

CONSTANTS
    Layouts,     \* the arrangements of outputs the user switches between
    Client       \* whose handlers use the pointer

\* Positions are counted from the left edge of the arrangement.
ASSUME LayoutAssumption ==
    \A l \in Layouts :
        /\ IsFiniteSet(DOMAIN l.outs)
        /\ l.focused \in DOMAIN l.outs
        /\ \A o \in DOMAIN l.outs : /\ l.outs[o].x \in Nat
                                    /\ l.outs[o].width \in Nat \ {0}
                                    /\ l.outs[o].scale \in Nat \ {0}

VARIABLES
    layout,      \* the arrangement of the outputs now
    pointer,     \* where the pointer is: the fraction num / den
    known,       \* State::outputs of the worker
    inbox,       \* the mpsc channel: clients in the order of their commands
    cmd,         \* the command of each client and its reply
    sent,        \* the command whose roundtrip is under way
    broken       \* is the worker's Wayland connection broken?

pvars == <<layout, pointer, known, inbox, cmd, sent, broken>>

-----------------------------------------------------------------------------
(* Coordinates.                                                            *)

\* f64::round of n / d, half away from zero.
Round(n, d) == IF n < 0 THEN -((d - 2 * n) \div (2 * d)) ELSE (2 * n + d) \div (2 * d)

LogicalWidth(o) == Round(2 * o.width, o.scale)
Contains(o, x) == o.x <= x /\ x < o.x + LogicalWidth(o)

\* The scale at a logical point, or of the focused output if none is there.
ScaleAt(l, x) ==
    LET there == {o \in DOMAIN l.outs : Contains(l.outs[o], x)}
    IN  l.outs[IF there = {} THEN l.focused ELSE CHOOSE o \in there : TRUE].scale

\* Faulty variant: the caller's coordinates are passed on as they are.
Unscaled(l, x) == x

ToDevice(l, x) == Round(x * ScaleAt(l, x), 2)

\* The right edge of the outputs as the worker computes it, at least 1.
UnionExtent(outs) == Max({1} \union {outs[o].x + outs[o].width : o \in DOMAIN outs})

\* What wl_output tells of an output.
Geometry(o) == [x |-> o.x, width |-> o.width]

\* The compositor's width of the arrangement, in logical coordinates.
Width(l) == Max({l.outs[o].x + LogicalWidth(l.outs[o]) : o \in DOMAIN l.outs})

-----------------------------------------------------------------------------
(* The worker.                                                             *)

NoCmd == [op |-> "none", x |-> 0, st |-> "none"]
Nothing == [who |-> "nobody", op |-> "none", x |-> 0, extent |-> 1]

\* Every output is bound and one roundtrip made before the first command.
Attached(l) == [o \in DOMAIN l.outs |-> Geometry(l.outs[o])]

PointerInit ==
    /\ layout \in Layouts
    /\ pointer = [num |-> 0, den |-> 1]
    /\ known = Attached(layout)
    /\ inbox = <<>>
    /\ cmd = [c \in Client |-> NoCmd]
    /\ sent = Nothing
    /\ broken = FALSE

\* VirtualPointer::move_to, move_by, click: a command is put in the channel.
Submit(c, op, x) ==
    /\ cmd' = [cmd EXCEPT ![c] = [op |-> op, x |-> x, st |-> "queued"]]
    /\ inbox' = Append(inbox, c)
    /\ UNCHANGED <<layout, pointer, known, sent, broken>>

\* The worker takes the next command and sends its events; no output event
\* is read from the connection before that.
Take ==
    /\ sent = Nothing
    /\ inbox # <<>>
    /\ LET c == Head(inbox)
           x == cmd[c].x
           extent == UnionExtent(known)
       IN  sent' = [who |-> c, op |-> cmd[c].op, extent |-> extent,
                    x |-> IF cmd[c].op = "abs" THEN Min({Max({x, 0}), extent}) ELSE x]
    /\ inbox' = Tail(inbox)
    /\ UNCHANGED <<layout, pointer, known, cmd, broken>>

\* Where the compositor puts the pointer: the extent spans the arrangement.
Reached ==
    CASE sent.op = "abs" -> [num |-> sent.x * Width(layout), den |-> sent.extent]
      [] sent.op = "rel" ->
            [pointer EXCEPT !.num = Max({0, Min({@ + sent.x * pointer.den,
                                                 Width(layout) * pointer.den})})]
      [] OTHER -> pointer

\* Events of outputs bound at the start; an output that came later is unknown
\* and one that has gone stays.
Refreshed ==
    [o \in DOMAIN known |->
        IF o \in DOMAIN layout.outs THEN Geometry(layout.outs[o]) ELSE known[o]]

Reply(st) == cmd' = [cmd EXCEPT ![sent.who].st = st]

Roundtrip ==
    /\ sent # Nothing /\ ~broken
    /\ pointer' = Reached
    /\ known' = Refreshed
    /\ Reply("ok")
    /\ sent' = Nothing
    /\ UNCHANGED <<layout, inbox, broken>>

\* Faulty variant: a failed roundtrip is tried again.
RoundtripRetried(took) ==
    /\ sent # Nothing /\ broken /\ ~took
    /\ UNCHANGED pvars

\* The connection breaks; the events may have been processed before.
RoundtripFails(took) ==
    /\ sent # Nothing /\ broken
    /\ pointer' = IF took THEN Reached ELSE pointer
    /\ Reply("err")
    /\ sent' = Nothing
    /\ UNCHANGED <<layout, known, inbox, broken>>

ConnectionBreaks ==
    /\ ~broken
    /\ broken' = TRUE
    /\ UNCHANGED <<layout, pointer, known, inbox, cmd, sent>>

\* The handler has its answer.
Collect(c) ==
    /\ cmd[c].st \in {"ok", "err"}
    /\ cmd' = [cmd EXCEPT ![c] = NoCmd]
    /\ UNCHANGED <<layout, pointer, known, inbox, sent, broken>>

\* The daemon's process ends, and the thread with it.  What it has sent may
\* still be processed.
WorkerEnds(took) ==
    /\ took => sent # Nothing /\ ~broken
    /\ pointer' = IF took THEN Reached ELSE pointer
    /\ known' = << >>
    /\ inbox' = <<>>
    /\ cmd' = [c \in Client |-> NoCmd]
    /\ sent' = Nothing
    /\ broken' = FALSE
    /\ UNCHANGED layout

WorkerStarts ==
    /\ known' = Attached(layout)
    /\ UNCHANGED <<layout, pointer, inbox, cmd, sent, broken>>

LayoutChanges(l) ==
    /\ l # layout
    /\ layout' = l
    /\ UNCHANGED <<pointer, known, inbox, cmd, sent, broken>>

\* The user's own mouse, or ydotool's.
PointerMovedTo(x) ==
    /\ pointer' = [num |-> x, den |-> 1]
    /\ UNCHANGED <<layout, known, inbox, cmd, sent, broken>>
=============================================================================
