------------------------------- MODULE McpBridge -------------------------------
(***************************************************************************)
(* hyprpilot-mcp: how a tools/call passes the capability profile and       *)
(* dry_run, becomes requests to the daemon over one connection that is     *)
(* reopened after any error, and what the two-request click tools hit.     *)
(* With it the input handlers of hyprpilot-daemon/src/server.rs, the       *)
(* choice of transport of hyprpilot-input/src/runner.rs, and a command     *)
(* line that moves the same pointer (VirtualPointer).                      *)
(*                                                                         *)
(* A Registry entry stands for the tools that are handled alike.  The      *)
(* desktop is a window at win with an element, a labelled button, on its   *)
(* pixels win and win + 1.                                                 *)
(***************************************************************************)
EXTENDS VirtualPointer, FiniteSets

CONSTANTS
    Profiles,    \* capability profiles the server may be started with
    Tools,       \* the tools the agent calls
    Regions,     \* explicit regions the agent passes to vision tools
    Inputs,      \* of "closed" (the gate), "pointer", "ydotool", "none" (no mouse)
    WinAt,       \* where the window may be
    MouseAt,     \* coordinates given to mouse moves
    MaxOthers    \* bound: what anybody but the agent does

VARIABLES
    profile,     \* the active profile
    daemon,      \* is the daemon up, and what became of its input at start
    conn,        \* Server::daemon: "none", "live", or "stale" (peer is gone)
    handler,     \* the request of each client and how far its handler is
    call,        \* the tools/call in progress, and the outcome of the last
    broke,       \* history: was the daemon down since the last request?
    win,         \* where the window is
    others       \* how often somebody else has acted, up to MaxOthers

bridge == <<profile, daemon, conn, handler, call, broke, win, others>>
vars == <<pvars, bridge>>

ASSUME BridgeAssumption ==
    /\ Client = {"mcp", "cli"}
    /\ Inputs \subseteq {"closed", "pointer", "ydotool", "none"}
    /\ WinAt \subseteq Nat /\ MouseAt \subseteq Int /\ MaxOthers \in Nat

-----------------------------------------------------------------------------
(* The registry and the profile.                                           *)

Tool(group, mutating, hasDry) == [group |-> group, mutating |-> mutating, hasDry |-> hasDry]

Registry ==
    [query_clients     |-> Tool("read", FALSE, FALSE),
     move_active       |-> Tool("window", TRUE, TRUE),
     exec              |-> Tool("process", TRUE, TRUE),
     snapshot_save     |-> Tool("snapshot", TRUE, FALSE),
     snapshot_restore  |-> Tool("snapshot", TRUE, TRUE),
     run_bind          |-> Tool("binds", TRUE, TRUE),
     input_keys        |-> Tool("input", TRUE, TRUE),
     input_mouse_move  |-> Tool("input", TRUE, TRUE),
     input_mouse_click |-> Tool("input", TRUE, TRUE),
     click_text        |-> Tool("input", TRUE, TRUE),
     a11y_click        |-> Tool("input", TRUE, TRUE),
     find_text         |-> Tool("vision", FALSE, FALSE)]

\* handle_call_tool refuses a name that is not in the registry.
ASSUME ToolsAssumption == Tools \subseteq DOMAIN Registry

Allows(tool) ==
    /\ tool \notin profile.deny_tools
    /\ \/ tool \in profile.allow_tools
       \/ Registry[tool].group \in profile.allow

\* What a call does, one stage after the other: "scan" is local, the others
\* are requests.
Plan(tool, dry, active) ==
    LET scope == IF active THEN <<"active">> ELSE <<>>
        press == IF dry THEN <<>> ELSE <<"abs", "click">>
    IN  CASE tool = "query_clients"     -> <<"read">>
          [] tool = "snapshot_save"     -> <<"mutate">>
          [] tool = "snapshot_restore"  -> IF dry THEN <<"read">> ELSE <<"mutate">>
          [] tool = "run_bind"          -> <<"bind">>
          [] tool = "click_text"        -> scope \o <<"scan", "monitors">> \o press
          [] tool = "a11y_click"        -> <<"find", "clients">> \o press
          [] tool = "find_text"         -> scope \o <<"scan">>
          [] OTHER                      -> IF dry THEN <<>> ELSE
             CASE tool = "input_keys"        -> <<"keys">>
               [] tool = "input_mouse_move"  -> <<"abs">>
               [] tool = "input_mouse_click" -> <<"click">>
               [] OTHER                      -> <<"mutate">>

Effects == {"mutate", "bind", "keys", "abs", "click"}

NoRegion == [x |-> 0, w |-> 0]
Idle(outcome) ==
    [pc |-> "idle", tool |-> "none", dry |-> TRUE, region |-> NoRegion,
     todo |-> <<>>, x |-> 0, done |-> <<>>, calm |-> FALSE, outcome |-> outcome]

NoRequest == [st |-> "none", op |-> "none", x |-> 0, dry |-> TRUE, ok |-> TRUE]
Asked(op, x, dry) == [st |-> "received", op |-> op, x |-> x, dry |-> dry, ok |-> TRUE]

-----------------------------------------------------------------------------
Init ==
    /\ PointerInit
    /\ profile \in Profiles
    /\ daemon \in [up : {TRUE}, input : Inputs]
    /\ conn = "none"
    /\ handler = [c \in Client |-> NoRequest]
    /\ call = Idle("ok")
    /\ broke = FALSE
    /\ win \in {w \in WinAt : w + 2 <= Width(layout)}
    /\ others = 0

-----------------------------------------------------------------------------
(* The MCP server.                                                         *)

Ends(outcome) == call' = Idle(outcome)

\* handle_call_tool: the profile, then the arguments, then dry_run.
Call(tool, dry, region, active, x) ==
    /\ call.pc = "idle"
    /\ LET todo == Plan(tool, dry, active)
       IN  IF ~Allows(tool) THEN Ends("denied")
           ELSE IF region # NoRegion /\ active THEN Ends("invalid")
           ELSE IF todo = <<>> THEN Ends("preview")
           ELSE call' = [Idle("none") EXCEPT !.pc = "work", !.tool = tool, !.dry = dry,
                             !.region = region, !.todo = todo, !.x = x]
    /\ UNCHANGED <<pvars, profile, daemon, conn, handler, broke, win, others>>

\* A stage ends; x is what it leaves for the next.
Advance(x, region) ==
    IF Len(call.todo) = 1 THEN Ends("ok")
    ELSE call' = [call EXCEPT !.pc = "work", !.todo = Tail(@), !.x = x, !.region = region,
                              !.calm = @ \/ Head(call.todo) = "scan"]

\* The middle of the label, in pixels of an image that starts at x.
Pixel(x) == Round((win + 1 - x) * ScaleAt(layout, win), 2)

\* scan_for_matches: capture, OCR, search; boxes are moved to the region.
Scan ==
    /\ call.pc = "work" /\ Head(call.todo) = "scan"
    /\ \/ Ends("failed")
       \/ /\ \/ call.region = NoRegion
             \/ call.region.x <= win /\ win + 2 <= call.region.x + call.region.w
          /\ Advance(Pixel(call.region.x) + call.region.x, call.region)
    /\ UNCHANGED <<pvars, profile, daemon, conn, handler, broke, win, others>>

\* call_daemon: a connection is opened if there is none; one to a daemon that
\* is gone takes the request and then closes.
Ask ==
    /\ call.pc = "work" /\ Head(call.todo) # "scan"
    /\ conn = "live" \/ (conn = "none" /\ daemon.up)
    /\ conn' = "live"
    /\ handler' = [handler EXCEPT !["mcp"] = Asked(Head(call.todo), call.x, call.dry)]
    /\ call' = [call EXCEPT !.pc = "asked"]
    /\ UNCHANGED <<pvars, profile, daemon, broke, win, others>>

Unanswered ==
    \/ call.pc = "work" /\ Head(call.todo) # "scan" /\ conn = "none" /\ ~daemon.up
    \/ call.pc = "work" /\ Head(call.todo) # "scan" /\ conn = "stale"
    \/ call.pc = "asked" /\ handler["mcp"].st = "none"

\* Faulty variants: the dead connection is kept; the request is sent again.
LostKept ==
    /\ Unanswered
    /\ Ends("lost")
    /\ broke' = ~daemon.up
    /\ UNCHANGED <<pvars, profile, daemon, conn, handler, win, others>>

LostRetried ==
    /\ Unanswered
    /\ IF conn = "none" THEN Ends("lost") ELSE call' = [call EXCEPT !.pc = "work"]
    /\ conn' = "none"
    /\ broke' = ~daemon.up
    /\ UNCHANGED <<pvars, profile, daemon, handler, win, others>>

\* The connect fails or the connection closes; the client is dropped.
Lost ==
    /\ Unanswered
    /\ Ends("lost")
    /\ conn' = "none"
    /\ broke' = ~daemon.up
    /\ UNCHANGED <<pvars, profile, daemon, handler, win, others>>

\* The answer is read.  Any error ends the call and drops the client; an
\* answer without a usable window or element ends the call only.
Receive ==
    /\ call.pc = "asked" /\ handler["mcp"].st = "done"
    /\ LET ans == handler["mcp"]
           r == call.region
       IN  \/ /\ ans.ok
              /\ CASE ans.op = "active"   -> Advance(0, [x |-> ans.x, w |-> 2])
                   [] ans.op = "monitors" -> Advance(Round(2 * call.x, ans.x) + r.x, r)
                   [] ans.op = "clients"  -> Advance(ans.x + call.x, r)
                   [] ans.op = "find"     -> Advance(ans.x, r)
                   [] OTHER               -> Advance(call.x, r)
              /\ UNCHANGED conn
           \/ /\ ans.ok /\ ans.op \in {"active", "find", "clients"}
              /\ Ends("failed")
              /\ UNCHANGED conn
           \/ ~ans.ok /\ Ends("failed") /\ conn' = "none"
    /\ handler' = [handler EXCEPT !["mcp"] = NoRequest]
    /\ broke' = FALSE
    /\ UNCHANGED <<pvars, profile, daemon, win, others>>

-----------------------------------------------------------------------------
(* The daemon's handlers.                                                  *)

Answer(c, ok, x) ==
    handler' = [handler EXCEPT ![c].st = "done", ![c].ok = ok, ![c].x = x]

Received(c, ops) == handler[c].st = "received" /\ handler[c].op \in ops

\* An effect of client c's request: the history of the agent's call, and
\* whether its click can still be trusted.
Happened(c, op) ==
    call' = IF c = "mcp" THEN [call EXCEPT !.done = Append(@, op)]
            ELSE IF op # "click" /\ "abs" \in {call.done[i] : i \in 1..Len(call.done)}
            THEN [call EXCEPT !.calm = FALSE]
            ELSE call

\* Hyprland, the bus or a backend cannot be reached, nothing matches the
\* chord, or the input gate is closed.
HandlerFails(c) ==
    /\ handler[c].st = "received"
    /\ Answer(c, FALSE, 0)
    /\ UNCHANGED <<pvars, profile, daemon, conn, call, broke, win, others>>

\* What a lookup tells the caller: for monitors the scale pick_scale chooses.
Lookup(c) ==
    /\ Received(c, {"read", "active", "monitors", "find", "clients"})
    /\ Answer(c, TRUE,
              CASE handler[c].op \in {"active", "clients"} -> win
                [] handler[c].op = "find" -> 1
                [] handler[c].op = "monitors" ->
                      IF call.region = NoRegion THEN layout.outs[layout.focused].scale
                                                ELSE ScaleAt(layout, call.region.x)
                [] OTHER -> 0)
    /\ call' = [call EXCEPT !.calm = @ \/ handler[c].op = "clients"]
    /\ UNCHANGED <<pvars, profile, daemon, conn, broke, win, others>>

\* Faulty variant: the daemon does not look at dry_run.
NeverPreview(c) == FALSE

IsPreview(c) == handler[c].op = "bind" /\ handler[c].dry

BindPreview(c) ==
    /\ Received(c, {"bind"}) /\ IsPreview(c)
    /\ Answer(c, TRUE, 0)
    /\ UNCHANGED <<pvars, profile, daemon, conn, call, broke, win, others>>

\* A dispatch, or text and keys typed by a helper; the answer may be late or
\* the helper fail after the effect.
Dispatch(c, ok) ==
    /\ Received(c, {"mutate", "bind", "keys"}) /\ ~IsPreview(c)
    /\ handler[c].op = "keys" => daemon.input # "closed"
    /\ Answer(c, ok, 0)
    /\ Happened(c, handler[c].op)
    /\ UNCHANGED <<pvars, profile, daemon, conn, broke, win, others>>

\* The mouse goes to the virtual pointer if the daemon has one; absolute
\* coordinates are converted on the way, with a scale of one if Hyprland does
\* not tell the monitors (~asked).
ToPointer(c, asked) ==
    /\ Received(c, {"abs", "rel", "click"})
    /\ daemon.input = "pointer"
    /\ LET req == handler[c]
           exact == req.op = "abs" => asked \/ ToDevice(layout, req.x) = req.x
       IN  /\ Submit(c, req.op, IF req.op = "abs" /\ asked THEN ToDevice(layout, req.x)
                                                           ELSE req.x)
           /\ call' = [call EXCEPT !.calm = @ /\ (c = "mcp" => exact)]
    /\ handler' = [handler EXCEPT ![c].st = "pointer"]
    /\ UNCHANGED <<profile, daemon, conn, broke, win, others>>

PointerAnswers(c) ==
    /\ handler[c].st = "pointer"
    /\ Collect(c)
    /\ Answer(c, cmd[c].st = "ok", 0)
    /\ UNCHANGED <<profile, daemon, conn, call, broke, win, others>>

\* ... and to ydotool if not: subject to the acceleration of the compositor's
\* input stack, so it may end up anywhere.
ByYdotool(c, x, ok) ==
    /\ Received(c, {"abs", "rel", "click"})
    /\ daemon.input = "ydotool"
    /\ IF handler[c].op = "click" THEN UNCHANGED pvars ELSE PointerMovedTo(Max({0, x}))
    /\ Answer(c, ok, 0)
    /\ LET op == handler[c].op
       IN  IF c = "mcp" THEN call' = [call EXCEPT !.done = Append(@, op), !.calm = FALSE]
                        ELSE Happened(c, op)
    /\ UNCHANGED <<profile, daemon, conn, broke, win, others>>

\* The worker's steps; a call is not calm if its move is sent with an extent
\* that is out of date.
WorkerTakes ==
    /\ Take
    /\ call' = [call EXCEPT !.calm = @ /\ (sent'.who = "mcp" /\ sent'.op = "abs"
                                            => sent'.extent = UnionExtent(layout.outs))]
    /\ UNCHANGED <<profile, daemon, conn, handler, broke, win, others>>

WorkerAnswers ==
    /\ \/ Roundtrip /\ Happened(sent.who, sent.op)
       \/ RoundtripFails(TRUE) /\ Happened(sent.who, sent.op)
       \/ RoundtripFails(FALSE) /\ UNCHANGED call
    /\ UNCHANGED <<profile, daemon, conn, handler, broke, win, others>>

-----------------------------------------------------------------------------
(* The daemon's process, the command line, the user.                       *)

DaemonDies ==
    /\ daemon.up
    /\ \/ WorkerEnds(FALSE) /\ UNCHANGED call
       \/ WorkerEnds(TRUE) /\ Happened(sent.who, sent.op)
    /\ daemon' = [up |-> FALSE, input |-> "none"]
    /\ conn' = IF conn = "live" THEN "stale" ELSE conn
    /\ handler' = [c \in Client |-> NoRequest]
    /\ broke' = TRUE
    /\ UNCHANGED <<profile, win>>

DaemonStarts(input) ==
    /\ ~daemon.up
    /\ daemon' = [up |-> TRUE, input |-> input]
    /\ WorkerStarts
    /\ UNCHANGED <<profile, conn, handler, call, broke, win, others>>

CliAsks(op, x) ==
    /\ daemon.up /\ handler["cli"].st = "none"
    /\ handler' = [handler EXCEPT !["cli"] = Asked(op, x, FALSE)]
    /\ UNCHANGED <<pvars, profile, daemon, conn, call, broke, win>>

CliReads ==
    /\ handler["cli"].st = "done"
    /\ handler' = [handler EXCEPT !["cli"] = NoRequest]
    /\ UNCHANGED <<pvars, profile, daemon, conn, call, broke, win, others>>

UserMovesPointer(x) ==
    /\ PointerMovedTo(Max({0, x}))
    /\ Happened("cli", "abs")
    /\ UNCHANGED <<profile, daemon, conn, handler, broke, win>>

UserMovesWindow(w) ==
    /\ w # win /\ w + 2 <= Width(layout)
    /\ win' = w
    /\ call' = [call EXCEPT !.calm = FALSE]
    /\ UNCHANGED <<pvars, profile, daemon, conn, handler, broke>>

UserChangesLayout(l, w) ==
    /\ LayoutChanges(l)
    /\ w + 2 <= Width(l)
    /\ win' = w
    /\ call' = [call EXCEPT !.calm = FALSE]
    /\ UNCHANGED <<profile, daemon, conn, handler, broke>>

WaylandBreaks ==
    /\ daemon.up /\ daemon.input = "pointer"
    /\ ConnectionBreaks
    /\ UNCHANGED <<profile, daemon, conn, handler, call, broke, win>>

-----------------------------------------------------------------------------
Server ==
    \/ \E tool \in Tools, dry \in BOOLEAN, region \in Regions, active \in BOOLEAN,
          x \in MouseAt : Call(tool, dry, region, active, x)
    \/ Scan \/ Ask \/ Lost \/ Receive

Handler(c) ==
    \/ HandlerFails(c) \/ Lookup(c) \/ BindPreview(c)
    \/ \E ok \in BOOLEAN : Dispatch(c, ok) \/ \E x \in MouseAt : ByYdotool(c, x, ok)
    \/ (\E asked \in BOOLEAN : ToPointer(c, asked)) \/ PointerAnswers(c)

Worker == WorkerTakes \/ WorkerAnswers

Others ==
    /\ others < MaxOthers /\ others' = others + 1
    /\ \/ DaemonDies \/ WaylandBreaks
       \/ \E x \in MouseAt : UserMovesPointer(x)
       \/ \E op \in {"abs", "rel", "click"}, x \in MouseAt : CliAsks(op, x)
       \/ \E w \in WinAt : UserMovesWindow(w)
       \/ \E l \in Layouts, w \in WinAt : UserChangesLayout(l, w)

Next == Server \/ Worker \/ Others \/ CliReads
        \/ (\E input \in Inputs : DaemonStarts(input)) \/ \E c \in Client : Handler(c)

Spec == Init /\ [][Next]_vars

\* The server, the handlers and the worker are scheduled; Hyprland and the bus
\* end every call by an answer or a timeout, the compositor answers a
\* roundtrip or is gone.
Fairness ==
    /\ WF_vars(Scan \/ Ask \/ Lost \/ Receive)
    /\ WF_vars(Worker)
    /\ \A c \in Client : WF_vars(Handler(c))

FairSpec == Spec /\ Fairness

-----------------------------------------------------------------------------
ClickTools == {"click_text", "a11y_click"}
Stages == Effects \union {"read", "active", "scan", "monitors", "find", "clients"}

\* Type invariant of the profile, the daemon, the connection, the handlers and
\* the call.
TypeOK ==
    /\ profile \in Profiles
    /\ daemon \in [up : BOOLEAN, input : Inputs \union {"none"}]
    /\ conn \in {"none", "live", "stale"}
    /\ conn = "live" => daemon.up
    /\ \A c \in Client : /\ handler[c].st \in {"none", "received", "pointer", "done"}
                          /\ handler[c].op \in Stages \union {"none", "rel"}
                          /\ handler[c].x \in Int
                          /\ handler[c].st = "pointer" <=> cmd[c].st # "none"
    /\ call.pc \in {"idle", "work", "asked"}
    /\ call.todo \in Seq(Stages) /\ call.done \in Seq(Effects)
    /\ call.pc = "idle" <=> call.todo = <<>>
    /\ broke \in BOOLEAN
    /\ layout \in Layouts /\ win \in WinAt /\ others \in 0..MaxOthers

\* An agent's tool has an effect only if the profile permits it, the agent
\* passed dry_run = false, and for input the daemon's gate is open (mcp/lib.rs:
\* "Two layers of restraint apply to every mutating tool").  Tools without the
\* argument have the first layer only.
BothGatesAgree ==
    [][Len(call'.done) > Len(call.done) =>
          /\ call.tool \notin profile.deny_tools
          /\ call.tool \in profile.allow_tools \/ Registry[call.tool].group \in profile.allow
          /\ Registry[call.tool].mutating
          /\ Registry[call.tool].hasDry => ~call.dry
          /\ Registry[call.tool].group = "input" => daemon.input # "closed"]_vars

\* No request of a call takes effect twice, whatever dies before it is
\* answered (forward drops the client and does not send again).
AtMostOnce ==
    \A i, j \in 1..Len(call.done) : call.done[i] = call.done[j] => i = j

\* A restart of the daemon costs at most one call: a request is lost only if
\* the daemon was down since the one before (Server::daemon reconnects).
RestartCostsOneCall ==
    [][call.outcome # "lost" /\ call'.outcome = "lost" => broke]_vars

\* Coordinates are exact on one output or where no output is scaled
\* (logical_to_device).
Exact(l) ==
    \/ \E o \in DOMAIN l.outs : DOMAIN l.outs = {o} /\ l.outs[o].x = 0
    \/ \A o \in DOMAIN l.outs : l.outs[o].scale = 2

OnElement == win * pointer.den <= pointer.num /\ pointer.num < (win + 2) * pointer.den

Clicked ==
    /\ call.tool \in ClickTools
    /\ "click" \in {call.done[i] : i \in 1..Len(call.done)}
    /\ call.calm /\ Exact(layout)

\* click_text and a11y_click press the button on the element they found, if
\* neither it nor the outputs have moved since, nobody else the pointer, and
\* the scale could be had.
\* Regions that do not start at the origin are left to ClickTextLands.
ClickLandsOnTarget == Clicked /\ call.region.x = 0 => OnElement

\* handle_click_text: "image-px -> logical-px, then add region origin".
ClickTextLands == Clicked => OnElement

\* Every tools/call is answered, although requests have no timeout.
EveryCallAnswered == call.pc # "idle" ~> call.pc = "idle"
=============================================================================
