----------------------------- MODULE RulesEngine -----------------------------
(***************************************************************************)
(* hyprpilot-daemon/src/engine.rs with rules.rs and actions.rs: the rules  *)
(* engine.  It compiles its rules, reads the event socket one event at a   *)
(* time and runs the actions of the first rule that matches.  Hyprland     *)
(* announces on the same socket what the actions did; a guard keeps such   *)
(* echoes from firing rules while actions run and for a while after.       *)
(*                                                                         *)
(* Time is counted in ticks.  The engine reads an event it can read, and a *)
(* timer fires when it is due, before time goes on.                        *)
(***************************************************************************)
EXTENDS Naturals, Sequences, FiniteSets, SequencesExt

CONSTANTS
    Configs,      \* what rules.toml may hold: sequences of rules
    UserKinds,    \* the kinds of event the user causes
    Class,        \* window classes
    Decay,        \* DEFAULT_DECAY_MS in ticks
    Lag,          \* by verb: when, at most, an echo is announced
    ActionTime,   \* the timeout of a dispatch
    MaxEvents     \* bound: events the user causes

\* The verbs without argument, and the argument each other verb takes.
NoArgument == {"kill_active", "cycle_next", "cycle_prev", "toggle_floating",
               "center_active", "pin", "pin_active"}
Argument ==
    [focus_window |-> "selector", close_window |-> "selector",
     switch_workspace |-> "workspace", move_to_workspace |-> "workspace",
     move_to_workspace_silent |-> "workspace", fullscreen |-> "mode",
     move_active |-> "direction", swap_active |-> "direction",
     resize_active |-> "pixels", exec |-> "text", focus_monitor |-> "text",
     move_workspace_to_monitor |-> "text"]
Verb == NoArgument \union DOMAIN Argument

\* Action::parse: an argument that is not of the verb's kind is an error, as
\* is one too few or too many; a text may be anything.
Parses(a) ==
    \/ a.verb \in NoArgument /\ a.arg = "none"
    \/ /\ a.verb \in DOMAIN Argument
       /\ a.arg # "none"
       /\ Argument[a.verb] \in {a.arg, "text"}

\* What Hyprland announces when it has run the dispatcher of a verb.
Echoes ==
    [v \in Verb |->
        CASE v \in {"focus_window", "cycle_next", "cycle_prev", "focus_monitor"} ->
                {"activewindow"}
          [] v \in {"close_window", "kill_active"} -> {"closewindow", "activewindow"}
          [] v = "switch_workspace" -> {"workspace", "activewindow"}
          [] v = "move_to_workspace" -> {"movewindow", "workspace"}
          [] v = "move_to_workspace_silent" -> {"movewindow"}
          [] v = "toggle_floating" -> {"changefloatingmode"}
          [] v = "fullscreen" -> {"fullscreen"}
          [] v \in {"pin", "pin_active"} -> {"pin"}
          [] v = "exec" -> {"openwindow"}
          [] OTHER -> {}]

Kind == UserKinds \union UNION {Echoes[v] : v \in Verb}

\* Of the fields a rule may ask for, class is the one in use; extract_fields
\* finds it in the payloads of two kinds.
Fields(e) == IF e.kind \in {"openwindow", "activewindow"} THEN {"class"} ELSE {}

Rule == [on : Kind, when : SUBSET Class, do : Seq([verb : STRING, arg : STRING])]

ASSUME RulesAssumption ==
    /\ \A config \in Configs : config \in Seq(Rule)
    /\ Decay \in Nat /\ ActionTime \in Nat /\ MaxEvents \in Nat
    /\ Lag \in [Verb -> Nat]

VARIABLES
    rules,     \* the rules the engine was started with
    engine,    \* where the engine task is
    depth,     \* ReentranceGuard::depth
    decays,    \* the ages of the decrements that are scheduled
    inbox,     \* events on the socket the engine has not read
    flight,    \* echoes that Hyprland has yet to announce
    last,      \* history: how long ago a rule fired, and finished
    events     \* events the user may still cause

vars == <<rules, engine, depth, decays, inbox, flight, last, events>>

Connected == engine.pc \in {"idle", "acting"}
Actions == rules[engine.rule].do

\* An age no property tells from a greater one.
Longest == Max({Len(rules[i].do) : i \in 1..Len(rules)} \union {0})
LongAgo == Decay + ActionTime * Longest + 1
Older(age) == IF age < LongAgo THEN age + 1 ELSE age

Event(k, c, origin) == [kind |-> k, class |-> c, origin |-> origin, age |-> 0]

Init ==
    /\ rules \in Configs
    /\ engine = [pc |-> "new"]
    /\ depth = 0
    /\ decays = <<>>
    /\ inbox = <<>>
    /\ flight = <<>>
    /\ last = [fired |-> LongAgo, over |-> LongAgo]
    /\ events = MaxEvents

-----------------------------------------------------------------------------
(* The engine.                                                             *)

\* compile: one action that does not parse, and the engine does not start.
Compile ==
    /\ engine.pc = "new"
    /\ engine' = [pc |-> IF \E i \in 1..Len(rules) : \E j \in 1..Len(rules[i].do) :
                                ~Parses(rules[i].do[j])
                         THEN "failed"
                         ELSE IF rules = <<>> THEN "empty" ELSE "idle"]
    /\ UNCHANGED <<rules, depth, decays, inbox, flight, last, events>>

\* A rule matches an event of its kind if all of its predicates hold; one on
\* a field the event does not have holds for no event.
Matches(rule, e) ==
    /\ rule.on = e.kind
    /\ rule.when # {} => "class" \in Fields(e) /\ rule.when = {e.class}

Matching(e) == {i \in 1..Len(rules) : Matches(rules[i], e)}

Read ==
    /\ engine.pc = "idle"
    /\ inbox # <<>>
    /\ inbox' = Tail(inbox)
    /\ UNCHANGED <<rules, flight, events>>

\* handle_event returns at once while the guard inhibits matching ...
Inhibited ==
    /\ Read
    /\ depth > 0
    /\ UNCHANGED <<engine, depth, decays, last>>

\* Faulty variant: the guard is bumped before a rule is found.
BumpFirst ==
    /\ Read
    /\ depth = 0
    /\ Matching(Head(inbox)) = {}
    /\ depth' = 1
    /\ decays' = Append(decays, 0)
    /\ UNCHANGED <<engine, last>>

\* ... or if no rule matches ...
Unmatched ==
    /\ Read
    /\ depth = 0
    /\ Matching(Head(inbox)) = {}
    /\ UNCHANGED <<engine, depth, decays, last>>

\* ... and otherwise bumps the guard and runs the first rule that does.
Fire ==
    /\ Read
    /\ depth = 0
    /\ Matching(Head(inbox)) # {}
    /\ engine' = [pc |-> "acting", rule |-> Min(Matching(Head(inbox))), step |-> 1,
                  effect |-> FALSE, age |-> 0, trigger |-> Head(inbox)]
    /\ depth' = depth + 1
    /\ last' = [last EXCEPT !.fired = 0]
    /\ UNCHANGED decays

\* Hyprland runs the dispatcher of the current action.
Effect ==
    /\ engine.pc = "acting"
    /\ engine.step <= Len(Actions)
    /\ ~engine.effect
    /\ engine' = [engine EXCEPT !.effect = TRUE]
    /\ LET v == Actions[engine.step].verb
       IN  flight' = flight \o SetToSeq({[kind |-> k, age |-> 0, lag |-> Lag[v]] :
                                            k \in Echoes[v]})
    /\ UNCHANGED <<rules, depth, decays, inbox, last, events>>

\* The action is answered, is rejected or times out; the next one follows.
ActionEnds ==
    /\ engine.pc = "acting"
    /\ engine.step <= Len(Actions)
    /\ engine' = [engine EXCEPT !.step = @ + 1, !.effect = FALSE, !.age = 0]
    /\ UNCHANGED <<rules, depth, decays, inbox, flight, last, events>>

\* Faulty variants: the guard is lowered at once, never, or twice.
RuleEndsAtOnce ==
    /\ engine.pc = "acting"
    /\ engine.step > Len(Actions)
    /\ engine' = [pc |-> "idle"]
    /\ depth' = depth - 1
    /\ last' = [last EXCEPT !.over = 0]
    /\ UNCHANGED <<rules, decays, inbox, flight, events>>

RuleEndsBumped ==
    /\ engine.pc = "acting"
    /\ engine.step > Len(Actions)
    /\ engine' = [pc |-> "idle"]
    /\ last' = [last EXCEPT !.over = 0]
    /\ UNCHANGED <<rules, depth, decays, inbox, flight, events>>

RuleEndsTwice ==
    /\ engine.pc = "acting"
    /\ engine.step > Len(Actions)
    /\ engine' = [pc |-> "idle"]
    /\ decays' = Append(decays, 0)
    /\ depth' = depth - 1
    /\ last' = [last EXCEPT !.over = 0]
    /\ UNCHANGED <<rules, inbox, flight, events>>

\* handle_event returns; dropping the BumpGuard schedules the decrement.
RuleEnds ==
    /\ engine.pc = "acting"
    /\ engine.step > Len(Actions)
    /\ engine' = [pc |-> "idle"]
    /\ decays' = Append(decays, 0)
    /\ last' = [last EXCEPT !.over = 0]
    /\ UNCHANGED <<rules, depth, inbox, flight, events>>

\* The detached task of a BumpGuard has slept for the decay.
Decrement ==
    /\ decays # <<>>
    /\ Head(decays) = Decay
    /\ decays' = Tail(decays)
    /\ depth' = depth - 1
    /\ UNCHANGED <<rules, engine, inbox, flight, last, events>>

\* Shutdown, or the event socket is closed or unreadable; only between events.
Stop ==
    /\ engine.pc \in {"idle", "empty"}
    /\ engine' = [pc |-> "stopped"]
    /\ inbox' = <<>>
    /\ UNCHANGED <<rules, depth, decays, flight, last, events>>

-----------------------------------------------------------------------------
(* Hyprland, the user, and time.                                           *)

Send(e) == inbox' = IF Connected THEN Append(inbox, e) ELSE inbox

Announce ==
    /\ \E i \in 1..Len(flight), c \in Class :
          /\ Send(Event(flight[i].kind, c, "echo"))
          /\ flight' = RemoveAt(flight, i)
    /\ UNCHANGED <<rules, engine, depth, decays, last, events>>

User ==
    /\ Connected
    /\ events > 0
    /\ events' = events - 1
    /\ \E k \in UserKinds, c \in Class : Send(Event(k, c, "user"))
    /\ UNCHANGED <<rules, engine, depth, decays, flight, last>>

Aged(s) == [i \in 1..Len(s) |-> [s[i] EXCEPT !.age = @ + 1]]

Tick ==
    /\ engine.pc = "idle" => inbox = <<>>
    /\ engine.pc = "acting" => engine.step <= Len(Actions) /\ engine.age < ActionTime
    /\ \A i \in 1..Len(decays) : decays[i] < Decay
    /\ \A i \in 1..Len(flight) : flight[i].age < flight[i].lag
    /\ engine' = IF engine.pc = "acting" THEN [engine EXCEPT !.age = @ + 1] ELSE engine
    /\ decays' = [i \in 1..Len(decays) |-> decays[i] + 1]
    /\ inbox' = Aged(inbox)
    /\ flight' = Aged(flight)
    /\ last' = [last EXCEPT !.fired = Older(@), !.over = Older(@)]
    /\ UNCHANGED <<rules, depth, events>>

Engine ==
    \/ Compile \/ Inhibited \/ Unmatched \/ Fire
    \/ ActionEnds \/ RuleEnds \/ Decrement

Next == Engine \/ Effect \/ Stop \/ Announce \/ User \/ Tick

Spec == Init /\ [][Next]_vars

\* Ready tasks run, timers fire and time passes; the announcement of an echo
\* is only waited for as long as Lag says.  The user need not do anything.
Fairness == WF_vars(Engine) /\ WF_vars(Announce) /\ WF_vars(Tick)

FairSpec == Spec /\ Fairness

-----------------------------------------------------------------------------
\* Type invariant of the engine, the guard and the socket.
TypeOK ==
    /\ rules \in Configs
    /\ engine.pc \in {"new", "failed", "empty", "idle", "acting", "stopped"}
    /\ engine.pc = "acting" =>
          /\ engine.rule \in 1..Len(rules)
          /\ engine.step \in 1..Len(Actions) + 1
          /\ engine.effect \in BOOLEAN /\ engine.age \in 0..ActionTime
    /\ depth \in Nat
    /\ \A i \in 1..Len(decays) : decays[i] \in 0..Decay
    /\ \A i \in 1..Len(inbox) :
          /\ inbox[i].kind \in Kind /\ inbox[i].class \in Class
          /\ inbox[i].origin \in {"user", "echo"} /\ inbox[i].age \in Nat
    /\ \A i \in 1..Len(flight) : flight[i].kind \in Kind /\ flight[i].age \in 0..flight[i].lag
    /\ last \in [fired : 0..LongAgo, over : 0..LongAgo]
    /\ events \in 0..MaxEvents

\* The engine never answers an event that its own actions have caused, however
\* rules, their failures, the user's events and the echoes interleave - if
\* echoes come sooner than the decay (ReentranceGuard).
EchoesFireNothing == engine.pc = "acting" => engine.trigger.origin = "user"

\* The depth is what the running rule and the scheduled decrements account
\* for: it never goes below zero, and never above one, since a rule fires only
\* when the guard is down (bump, Drop of BumpGuard).
GuardBalanced ==
    /\ depth = Len(decays) + Cardinality({e \in {engine} : e.pc = "acting"})
    /\ depth <= 1

\* An event is dropped unmatched only on account of a rule that fired before
\* the event was caused or in the same instant, and that has finished no
\* longer ago than the decay.
DropsHaveACause ==
    [][depth > 0 /\ engine.pc = "idle" /\ inbox # <<>> /\ inbox' = Tail(inbox)
          /\ engine' = engine
        => Head(inbox).age <= last.fired /\ last.over <= Decay]_vars

\* After a rule has fired the engine matches events again, whatever Hyprland
\* answers and however many events come meanwhile.
EngineHearsAgain == depth > 0 ~> depth = 0
=============================================================================
