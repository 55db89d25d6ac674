----------------------------- MODULE StateCache -----------------------------
(***************************************************************************)
(* hyprpilot-daemon/src/cache.rs: the daemon's model of the desktop.       *)
(* Client tasks read it and refill what they miss from Hyprland, without a *)
(* lock between the question and the write; the cache task seeds it,       *)
(* subscribes to the event socket and applies the events.                  *)
(*                                                                         *)
(* What Hyprland does is a log of changes.  An answer taken when the log   *)
(* had n entries is the number n: a cached value is current if no later    *)
(* entry touches its cell.  Time is counted in ticks and kept as ages, so  *)
(* that it never runs out.                                                 *)
(***************************************************************************)
EXTENDS Naturals, Sequences, FiniteSets

CONSTANTS
    Reader,       \* tasks that serve clients
    Task,         \* the cache task
    Cell,         \* the parts of Inner in use
    Kinds,        \* the kinds of change Hyprland makes
    MaxAge,       \* MAX_AGE in ticks
    QueryTime,    \* the request timeout of Connection in ticks
    MaxChanges    \* bound: changes Hyprland makes

\* What apply_event marks dirty, by kind of event.
Invalidates ==
    [structure    |-> {"clients", "workspaces", "active_workspace"},
     focus        |-> {"clients"},
     title        |-> {},
     titleOld     |-> {"clients"},
     workspace    |-> {"workspaces", "active_workspace", "clients"},
     focusedmon   |-> {"monitors", "active_workspace", "clients"},
     floating     |-> {"clients"},
     monitor      |-> {"monitors", "workspaces", "clients"},
     config       |-> {"binds", "monitors"},
     unrecognised |-> {}]

\* What a change of that kind alters in Hyprland; a resize, for one, is
\* announced by no event that apply_event recognises.
Touches ==
    [Invalidates EXCEPT !.title = {"clients"}, !.unrecognised = {"clients"}]

\* What seed() reads, in order.
Seeds == SelectSeq(<<"clients", "workspaces", "monitors">>, LAMBDA c : c \in Cell)

ASSUME CacheAssumption ==
    /\ Task \notin Reader
    /\ Cell \subseteq UNION {Touches[k] : k \in DOMAIN Touches}
    /\ "clients" \in Cell
    /\ Kinds \subseteq DOMAIN Touches
    /\ MaxAge \in Nat \ {0} /\ QueryTime \in Nat \ {0} /\ MaxChanges \in Nat

VARIABLES
    log,       \* the changes Hyprland has made: [kind, age]
    cell,      \* Inner: each Cached
    req,       \* the query each task is in
    stage,     \* the cache task: what it seeds, or the state of its stream
    pos        \* how much of the log its stream has delivered or missed

vars == <<log, cell, req, stage, pos>>

Asker == Reader \union {Task}
Idle == [pc |-> "idle"]

\* An age no property tells from a greater one.
OldAge == MaxAge + QueryTime + 1
Older(age, limit) == IF age < limit THEN age + 1 ELSE limit

\* Faulty variant: the age is not looked at.
UsableForEver(c) == cell[c].present /\ ~cell[c].dirty

\* Cached::get; refreshed_at is the age since the last set.
Usable(c) == cell[c].present /\ ~cell[c].dirty /\ cell[c].age < MaxAge

\* Cached::set: the value carries the titles of its own moment.
Set(n) == [present |-> TRUE, dirty |-> FALSE, age |-> 0, asof |-> n, titles |-> n]

Init ==
    /\ log = <<>>
    /\ cell = [c \in Cell |-> [Set(0) EXCEPT !.present = FALSE, !.dirty = TRUE]]
    /\ req = [r \in Asker |-> Idle]
    /\ stage = Head(Seeds)
    /\ pos = 0

-----------------------------------------------------------------------------
(* Hyprland and time.                                                      *)

Change(k) ==
    /\ Len(log) < MaxChanges
    /\ log' = Append(log, [kind |-> k, age |-> 0])
    /\ UNCHANGED <<cell, req, stage, pos>>

\* A query that has lasted QueryTime ends before time goes on.
Tick ==
    /\ \A r \in Asker : req[r] # Idle => req[r].age < QueryTime
    /\ log' = [i \in 1..Len(log) |-> [log[i] EXCEPT !.age = Older(@, OldAge)]]
    /\ cell' = [c \in Cell |-> [cell[c] EXCEPT !.age = Older(@, MaxAge)]]
    /\ req' = [r \in Asker |->
                 IF req[r] = Idle THEN Idle ELSE [req[r] EXCEPT !.age = @ + 1]]
    /\ UNCHANGED <<stage, pos>>

-----------------------------------------------------------------------------
(* Reads: clients(), workspaces(), ... and the reads of seed().            *)

SeedNext == LET i == CHOOSE i \in 1..Len(Seeds) : Seeds[i] = stage
            IN  Append(Seeds, "connect")[i + 1]

Advance(r) == stage' = IF r = Task THEN SeedNext ELSE stage

\* A miss: the task asks Hyprland and awaits the answer without the lock.
Ask(r, c) ==
    /\ req[r] = Idle
    /\ ~Usable(c)
    /\ r = Task => c = stage
    /\ req' = [req EXCEPT ![r] = [pc |-> "asked", cell |-> c, asof |-> 0, age |-> 0]]
    /\ UNCHANGED <<log, cell, stage, pos>>

\* A hit changes nothing, but the seed goes on.
SeedHit ==
    /\ req[Task] = Idle
    /\ stage \in Cell
    /\ Usable(stage)
    /\ Advance(Task)
    /\ UNCHANGED <<log, cell, req, pos>>

\* Hyprland answers with what is true at that moment.
Answer(r) ==
    /\ req[r].pc = "asked"
    /\ req' = [req EXCEPT ![r].pc = "answered", ![r].asof = Len(log)]
    /\ UNCHANGED <<log, cell, stage, pos>>

\* write(): the answer is stored and the flag cleared, whatever came between.
Write(r) ==
    /\ req[r].pc = "answered"
    /\ cell' = [cell EXCEPT ![req[r].cell] = Set(req[r].asof)]
    /\ req' = [req EXCEPT ![r] = Idle]
    /\ Advance(r)
    /\ UNCHANGED <<log, pos>>

\* The query fails or times out; seed() logs it and goes on.
Fail(r) ==
    /\ req[r].pc \in {"asked", "answered"}
    /\ req' = [req EXCEPT ![r] = Idle]
    /\ Advance(r)
    /\ UNCHANGED <<log, cell, pos>>

-----------------------------------------------------------------------------
(* The cache task after its seed: run().                                   *)

\* What happened before the subscription is never announced.
Connect ==
    /\ stage = "connect"
    /\ \/ stage' = "up" /\ pos' = Len(log)
       \/ stage' = "down" /\ UNCHANGED pos
    /\ UNCHANGED <<log, cell, req>>

\* Faulty variant: events are passed over while a query is under way.
ApplyInhibited ==
    /\ stage = "up"
    /\ pos < Len(log)
    /\ pos' = pos + 1
    /\ LET applied == {c \in Invalidates[log[pos'].kind] : \A r \in Asker : req[r] = Idle}
       IN  cell' = [c \in Cell |-> [cell[c] EXCEPT !.dirty = @ \/ c \in applied]]
    /\ UNCHANGED <<log, req, stage>>

\* apply_event: dirty flags, and the title patched in place by its v2 event.
Apply ==
    /\ stage = "up"
    /\ pos < Len(log)
    /\ pos' = pos + 1
    /\ LET kind == log[pos'].kind
       IN  cell' = [c \in Cell |->
               [cell[c] EXCEPT
                  !.dirty = @ \/ c \in Invalidates[kind],
                  !.titles = IF kind = "title" /\ c = "clients" THEN pos' ELSE @]]
    /\ UNCHANGED <<log, req, stage>>

\* The socket is closed, or a line of it cannot be read: the task ends for good.
StreamEnds ==
    /\ stage = "up"
    /\ stage' = "down"
    /\ UNCHANGED <<log, cell, req, pos>>

-----------------------------------------------------------------------------
Next ==
    \/ \E k \in Kinds : Change(k)
    \/ Tick
    \/ \E r \in Asker, c \in Cell : Ask(r, c)
    \/ \E r \in Asker : Answer(r) \/ Write(r) \/ Fail(r)
    \/ SeedHit \/ Connect \/ Apply \/ StreamEnds

Spec == Init /\ [][Next]_vars

\* Time passes, and the timer of send_raw ends a query Hyprland leaves
\* unanswered.  Neither Hyprland nor the event socket is trusted.
Fairness == WF_vars(Tick) /\ \A r \in Asker : WF_vars(Write(r) \/ Fail(r))

FairSpec == Spec /\ Fairness

-----------------------------------------------------------------------------
\* Type invariant of the log, the cells and the tasks.
TypeOK ==
    /\ log \in Seq([kind : Kinds, age : 0..OldAge])
    /\ cell \in [Cell -> [present : BOOLEAN, dirty : BOOLEAN, age : 0..MaxAge,
                          asof : Nat, titles : Nat]]
    /\ req \in [Asker -> [pc : {"asked", "answered"}, cell : Cell, asof : Nat,
                          age : 0..QueryTime] \union {Idle}]
    /\ stage \in {"clients", "workspaces", "monitors", "connect", "up", "down"}
    /\ pos \in 0..Len(log)

IsTitle(i) == log[i].kind \in {"title", "titleOld"}

\* The changes that the value in a cell does not show.
Missed(c) ==
    {i \in 1..Len(log) :
        /\ c \in Touches[log[i].kind]
        /\ i > IF IsTitle(i) THEN cell[c].titles ELSE cell[c].asof}

\* However queries, events and clients interleave, and with the event stream
\* dead or alive, a hit is a listing that was true less than MAX_AGE and one
\* query ago (Cached::get; titles, which events patch, aside).
HitsAreRecent ==
    \A c \in Cell : Usable(c) =>
        \A i \in 1..Len(log) :
            c \in Touches[log[i].kind] /\ i > cell[c].asof
                => log[i].age < MaxAge + QueryTime

\* Every value that is still served after an event was applied shows the
\* change the event announced (apply_event, on the kinds it recognises).
SilentlyStale(c) ==
    Usable(c) /\ \E i \in Missed(c) : i <= pos /\ log[i].kind # "unrecognised"

CleanMeansCurrent == \A c \in Cell : ~SilentlyStale(c)

\* A recognised change escapes a cell in two ways only: an answer overtaken by
\* an event is written over its dirty flag, or the change came between the
\* seed and the subscription.  No order of events and reads adds a third.
OnlyRacesEscape ==
    [][\A c \in Cell :
          ~SilentlyStale(c) /\ SilentlyStale(c)' =>
              \/ stage = "connect"
              \/ \E r \in Asker : /\ req[r] # Idle /\ req'[r] = Idle
                                  /\ req[r].cell = c /\ req[r].asof < pos]_vars

\* What a client reads is what Hyprland would answer now.
ReadsAreLive == \A c \in Cell : Usable(c) => Missed(c) = {}

\* Once Hyprland stops changing, clients stop reading anything out of date,
\* whatever events were lost (MAX_AGE, the backstop of run()).
EventuallyCurrent == <>[]ReadsAreLive
=============================================================================
