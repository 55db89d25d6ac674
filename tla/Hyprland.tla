------------------------------ MODULE Hyprland ------------------------------
(***************************************************************************)
(* The compositor, as far as the daemon's undoable operations see it: the  *)
(* workspace of every open window and the window that has the focus.       *)
(* Hyprland is not part of the repository; each dispatcher is modelled by  *)
(* the effect hyprpilot-core/src/dispatch.rs asks it for.  Where Hyprland  *)
(* picks the next window to focus the model leaves the choice open.        *)
(***************************************************************************)
EXTENDS Integers

CONSTANTS
    Window,      \* window addresses
    Workspace,   \* workspace ids; named and special ones have negative ids
    Gone,        \* the place of an address that no open window has
    Nobody       \* the focus when no window has it

VARIABLES
    place,       \* the workspace each window is on, or Gone
    focus        \* the active window, or Nobody

Open == {w \in Window : place[w] # Gone}

DesktopTypeOK ==
    /\ place \in [Window -> Workspace \union {Gone}]
    /\ focus \in Open \union {Nobody}

\* The workspace a number names: its id, unless it has a sign and so is taken
\* for an offset from the active workspace, wherever that is.
Numbered(n) == IF n > 0 THEN {n} ELSE {ws \in Workspace : ws > 0}

\* Hyprland hands the focus on when the window that has it leaves.
FocusMovesOn == focus' \in (Open \ {focus}) \union {Nobody}

\* focuswindow address:w
FocusWindow(w) ==
    /\ w \in Open
    /\ focus' = w
    /\ UNCHANGED place

\* movetoworkspace, or movetoworkspacesilent, of the active window.
MoveActive(to, silent) ==
    /\ focus # Nobody
    /\ place' = [place EXCEPT ![focus] = to]
    /\ IF silent /\ place[focus] # to THEN FocusMovesOn ELSE UNCHANGED focus

\* killactive, closewindow, or the application closing its own window.
CloseWindow(w) ==
    /\ w \in Open
    /\ place' = [place EXCEPT ![w] = Gone]
    /\ IF w = focus THEN FocusMovesOn ELSE UNCHANGED focus

\* A process opens a window: it gets an address no open window has.
OpenWindow(w, ws) ==
    /\ w \in Window \ Open
    /\ place' = [place EXCEPT ![w] = ws]
    /\ focus' = w
=============================================================================
