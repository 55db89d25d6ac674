------------------------------- MODULE ToolTable -------------------------------
(***************************************************************************)
(* The tools of hyprpilot-mcp/src/tools.rs as tables: the group and the    *)
(* kind of every tool (registry), the arguments each of them takes, what   *)
(* dispatch makes of a call, and what the requests it sends change once    *)
(* the daemon's handle_request has carried them out.                       *)
(*                                                                         *)
(* A request is named as the tool that forwards it, except for             *)
(* snapshot_preview, which no tool is named after.                         *)
(***************************************************************************)

-----------------------------------------------------------------------------
(* The registry.                                                           *)

QueryTools ==
    {"query_clients", "query_workspaces", "query_monitors", "query_active_window",
     "query_active_workspace", "query_version", "query_cursor_pos", "query_binds"}

WindowTools ==
    {"focus_window", "cycle_next", "cycle_prev", "toggle_floating", "set_fullscreen",
     "center_active", "pin_active", "move_active", "resize_active", "swap_active"}

WorkspaceTools ==
    {"switch_workspace", "move_to_workspace", "move_to_workspace_silent", "focus_monitor",
     "move_workspace_to_monitor"}

ClosingTools == {"kill_active", "close_window"}
ProcessTools == {"exec"}
UndoTools == {"undo", "undo_list"}

SnapshotTools ==
    {"snapshot_save", "snapshot_restore", "snapshot_delete", "snapshot_list", "snapshot_diff"}

RulesTools == {"rules_list", "rules_validate", "rules_path"}

InputTools ==
    {"input_type", "input_keys", "input_shortcut", "input_mouse_move", "input_mouse_click"}

VisionTools ==
    {"screenshot", "screenshot_region", "screenshot_monitor", "ocr_screen", "ocr_region",
     "find_text_position", "click_text"}

AccessTools == {"a11y_tree", "a11y_find", "a11y_click"}
BindTools == {"run_bind"}

Tools ==
    UNION {QueryTools, WindowTools, WorkspaceTools, ClosingTools, ProcessTools, UndoTools,
           SnapshotTools, RulesTools, InputTools, VisionTools, AccessTools, BindTools}

Def(group, mutating) == [group |-> group, mutating |-> mutating]

\* The two tools that look for a place and press there are in group input.
Registry ==
    [t \in Tools |->
        CASE t \in QueryTools -> Def("read", FALSE)
          [] t \in WindowTools -> Def("window", TRUE)
          [] t \in WorkspaceTools -> Def("workspace", TRUE)
          [] t \in ClosingTools -> Def("destructive", TRUE)
          [] t \in ProcessTools -> Def("process", TRUE)
          [] t \in UndoTools -> Def("undo", t = "undo")
          [] t \in SnapshotTools -> Def("snapshot", t \notin {"snapshot_list", "snapshot_diff"})
          [] t \in RulesTools -> Def("rules", FALSE)
          [] t \in InputTools \union {"click_text", "a11y_click"} -> Def("input", TRUE)
          [] t \in VisionTools \ {"click_text"} -> Def("vision", FALSE)
          [] t \in AccessTools \ {"a11y_click"} -> Def("a11y", FALSE)
          [] t \in BindTools -> Def("binds", TRUE)]

Groups == {Registry[t].group : t \in Tools}

-----------------------------------------------------------------------------
(* Arguments.  A call gives some fields, some of them with a value that    *)
(* does not parse, and leaves dry_run out, sets it, or sets it to what is  *)
(* not a boolean.  serde ignores the fields a tool does not know.          *)

Box == {"x", "y", "w", "h"}

WindowParams(tool) ==
    CASE tool \in {"focus_window", "close_window"} -> {"selector"}
      [] tool \in {"switch_workspace", "move_to_workspace", "move_to_workspace_silent"} -> {"target"}
      [] tool \in {"move_active", "swap_active"} -> {"direction"}
      [] tool = "resize_active" -> {"dx", "dy"}
      [] tool = "set_fullscreen" -> {"mode"}
      [] tool = "focus_monitor" -> {"name_or_direction"}
      [] tool = "move_workspace_to_monitor" -> {"monitor"}
      [] tool = "exec" -> {"command"}
      [] OTHER -> {}

InputParams(tool) ==
    CASE tool = "input_type" -> {"text"}
      [] tool \in {"input_keys", "run_bind"} -> {"combo"}
      [] tool = "input_shortcut" -> {"combo", "selector"}
      [] tool = "input_mouse_move" -> {"x", "y"}
      [] tool = "input_mouse_click" -> {"button"}
      [] OTHER -> {}

CaptureParams(tool) ==
    CASE tool \in {"screenshot_region", "ocr_region"} -> Box
      [] tool = "screenshot_monitor" -> {"name"}
      [] OTHER -> {}

TextParams(tool) == IF tool \in {"find_text_position", "click_text"} THEN {"query"} ELSE {}
AccessParams(tool) == IF tool = "a11y_click" THEN {"query"} ELSE {}
SnapshotParams(tool) == IF tool \in SnapshotTools \ {"snapshot_list"} THEN {"name"} ELSE {}

Required ==
    [t \in Tools |-> WindowParams(t) \union InputParams(t) \union CaptureParams(t)
                        \union TextParams(t) \union AccessParams(t) \union SnapshotParams(t)]

\* Fields that may be left out and are checked when they are there.
TextOptions(tool) ==
    CASE tool = "find_text_position" -> Box \union {"psm"}
      [] tool = "click_text" -> Box \union {"psm", "button"}
      [] tool \in {"ocr_screen", "ocr_region"} -> {"psm"}
      [] OTHER -> {}

AccessOptions(tool) ==
    CASE tool = "a11y_tree" -> {"pid", "max_nodes"}
      [] tool = "a11y_find" -> {"pid", "max_nodes", "role", "query"}
      [] tool = "a11y_click" -> {"pid", "max_nodes", "role", "button"}
      [] OTHER -> {}

Optional == [t \in Tools |-> TextOptions(t) \union AccessOptions(t)]

TakesDryRun == {t \in Tools : Registry[t].mutating} \ {"snapshot_save", "snapshot_delete"}

\* Faulty variant: dry_run is off unless it is asked for.
DryRunWhenAsked(tool, args) == tool \in TakesDryRun /\ args.dry = "true"

\* #[serde(default = "default_true")]
DryRun(tool, args) == tool \in TakesDryRun /\ args.dry # "false"

\* build_optional_region and reject_region_with_active_window.
RegionOk(args) ==
    LET box == args.given \intersect Box
    IN  box \in {{}, Box} /\ ~(box # {} /\ args.active)

Accepted(tool, args) ==
    /\ Required[tool] \subseteq args.given
    /\ args.bad \intersect (Required[tool] \union Optional[tool]) = {}
    /\ tool \in TakesDryRun => args.dry # "garbled"
    /\ Optional[tool] \intersect Box # {} => RegionOk(args)

-----------------------------------------------------------------------------
(* dispatch, and the handlers of server.rs for what it does not forward:   *)
(* the requests a call that is accepted sends to the daemon.               *)

Preview == {}
Forward(request) == {request}
ForwardOrPreview(tool, args) == IF DryRun(tool, args) THEN Preview ELSE Forward(tool)

Scope(args) == IF args.active THEN {"query_active_window"} ELSE {}
PressAt(tool, args) ==
    IF DryRun(tool, args) THEN {} ELSE {"input_mouse_move", "input_mouse_click"}

VisionRequests(tool, args) ==
    CASE tool \in {"ocr_screen", "find_text_position"} -> Scope(args)
      [] tool = "click_text" -> Scope(args) \union {"query_monitors"} \union PressAt(tool, args)
      [] OTHER -> {}

AccessRequests(tool, args) ==
    IF tool = "a11y_click"
    THEN {"a11y_find", "query_clients"} \union PressAt(tool, args)
    ELSE Forward(tool)

\* save and delete, which have no dry run, are forwarded whatever it says.
SnapshotRequests(tool, args) ==
    Forward(IF tool = "snapshot_restore" /\ DryRun(tool, args) THEN "snapshot_preview" ELSE tool)

InputRequests(tool, args) == ForwardOrPreview(tool, args)

Requests(tool, args) ==
    CASE tool \in VisionTools -> VisionRequests(tool, args)
      [] tool \in AccessTools -> AccessRequests(tool, args)
      [] tool \in SnapshotTools -> SnapshotRequests(tool, args)
      [] tool \in InputTools -> InputRequests(tool, args)
      [] tool = "run_bind" -> Forward(tool)
      [] OTHER -> ForwardOrPreview(tool, args)

\* The screen is read by the MCP server itself.
Looks(tool) == IF tool \in VisionTools THEN {"screen"} ELSE {}

-----------------------------------------------------------------------------
(* The daemon.                                                             *)

\* What handle_request changes or reveals for a request; "recorded" is what
\* the undo stack gets.  entry is what the newest entry of the undo stack
\* records, and open whether input synthesis is enabled.
Does(request, args, entry, open) ==
    CASE request \in {"focus_window", "cycle_next", "cycle_prev"} -> {"focus"}
      [] request \in WindowTools \ {"focus_window", "cycle_next", "cycle_prev"} -> {"window"}
      [] request \in WorkspaceTools -> {"workspace"}
      [] request \in ClosingTools -> {"close"}
      [] request = "exec" -> {"spawn"}
      [] request = "undo" -> CASE entry = "close" -> {"spawn"}
                               [] entry = "move" -> {"workspace", "focus"}
                               [] OTHER -> {}
      [] request = "snapshot_restore" -> {"file", "window", "workspace", "focus"}
      [] request \in {"snapshot_save", "snapshot_delete"} -> {"file"}
      [] request \in InputTools -> IF open THEN {"input"} ELSE {}
      [] request \in {"a11y_tree", "a11y_find"} -> {"fields"}
      [] request = "run_bind" -> IF DryRun(request, args) THEN {} ELSE {"bound"}
      [] OTHER -> {}

\* What goes onto the undo stack.
Records(request) ==
    CASE request \in {"move_to_workspace", "move_to_workspace_silent"} -> <<"move">>
      [] request \in ClosingTools -> <<"close">>
      [] OTHER -> <<>>

Changes == {"focus", "window", "workspace", "close", "spawn", "file", "input", "bound"}
=============================================================================
