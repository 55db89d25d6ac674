------------------------------- MODULE Selectors -------------------------------
(***************************************************************************)
(* hyprpilot-core/src/selector.rs: how windows and workspaces are named in *)
(* Hyprland's dispatcher grammar (encode), and how such a name is read     *)
(* (parse), as the MCP tools, the command line and the rules do.           *)
(*                                                                         *)
(* A text is the prefix that decides how it is read, and what follows it:  *)
(* after "", "+", "-" and "pid:" a number without its sign, otherwise a    *)
(* name.  A text whose number does not parse has the prefix "garbled".     *)
(***************************************************************************)
EXTENDS Integers

Text(prefix, rest) == [prefix |-> prefix, rest |-> rest]
Ref(kind, value) == [kind |-> kind, value |-> value]
Error == Ref("error", "")

Abs(n) == IF n < 0 THEN -n ELSE n
Number(n) == Text(IF n < 0 THEN "-" ELSE "", Abs(n))

-----------------------------------------------------------------------------
(* WorkspaceRef                                                            *)

\* Faulty variant: a relative step forward without its sign.
EncodeUnsigned(ref) ==
    CASE ref.kind \in {"id", "relative"} -> Number(ref.value)
      [] ref.kind = "name" -> Text("name:", ref.value)
      [] ref.kind = "special" ->
            IF ref.value = "" THEN Text("special", "") ELSE Text("special:", ref.value)
      [] OTHER -> Text(ref.kind, "")

\* WorkspaceRef::encode; the kinds without a value are "prev", "next", "empty".
EncodeWorkspace(ref) ==
    CASE ref.kind = "id" -> Number(ref.value)
      [] ref.kind = "relative" ->
            IF ref.value >= 0 THEN Text("+", ref.value) ELSE Number(ref.value)
      [] ref.kind = "name" -> Text("name:", ref.value)
      [] ref.kind = "special" ->
            IF ref.value = "" THEN Text("special", "") ELSE Text("special:", ref.value)
      [] OTHER -> Text(ref.kind, "")

\* WorkspaceRef::parse.
ParseWorkspace(text) ==
    CASE text.prefix = "name:" -> Ref("name", text.rest)
      [] text.prefix \in {"special:", "special"} -> Ref("special", text.rest)
      [] text.prefix \in {"empty", "next", "prev"} -> Ref(text.prefix, "")
      [] text.prefix = "previous" -> Ref("prev", "")
      [] text.prefix = "+" -> Ref("relative", text.rest)
      [] text.prefix = "-" -> Ref("relative", -text.rest)
      [] text.prefix = "" -> Ref("id", text.rest)
      [] OTHER -> Error

-----------------------------------------------------------------------------
(* WindowSelector.  An address is its digits and whether 0x leads them.    *)

Address(digits, hex) == [digits |-> digits, hex |-> hex]

\* WindowSelector::encode.
EncodeWindow(sel) ==
    CASE sel.kind = "active" -> Text("activewindow", "")
      [] sel.kind = "address" -> Text("address:", Address(sel.value.digits, TRUE))
      [] sel.kind = "pid" -> Text("pid:", sel.value)
      [] sel.kind = "class" -> Text("class:", sel.value)
      [] sel.kind = "title" -> Text("title:", sel.value)
      [] sel.kind = "tag" -> Text("tag:", sel.value)

\* WindowSelector::parse.
ParseWindow(text) ==
    CASE text.prefix \in {"active", "activewindow"} -> Ref("active", "")
      [] text.prefix = "address:" -> Ref("address", text.rest)
      [] text.prefix = "pid:" -> Ref("pid", text.rest)
      [] text.prefix = "class:" -> Ref("class", text.rest)
      [] text.prefix = "title:" -> Ref("title", text.rest)
      [] text.prefix = "tag:" -> Ref("tag", text.rest)
      [] OTHER -> Error

-----------------------------------------------------------------------------
(* Properties.                                                             *)

\* What a workspace or window is called by Hyprland.
SameWindow(a, b) ==
    /\ a.kind = b.kind
    /\ IF a.kind = "address" THEN a.value.digits = b.value.digits ELSE a.value = b.value

\* A workspace named in a request, or read from Hyprland as a number that is
\* not negative, is read back as the same workspace by whoever parses what
\* encode made of it.  A negative number is not: -99 is read as a step back.
WorkspaceSurvives(ref) ==
    (ref.kind = "id" => ref.value >= 0) => ParseWorkspace(EncodeWorkspace(ref)) = ref

\* The same of windows; 0x is put before an address that lacks it.
WindowSurvives(sel) == SameWindow(sel, ParseWindow(EncodeWindow(sel)))
=============================================================================
