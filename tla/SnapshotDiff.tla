---------------------------- MODULE SnapshotDiff ----------------------------
(***************************************************************************)
(* hyprpilot-core/src/snapshot.rs: which live window stands for which      *)
(* window of a snapshot (match_live_window), and the actions that take the *)
(* live desktop back to the snapshot (diff_against).                       *)
(*                                                                         *)
(* A snapshot is a sequence of windows, in the order Hyprland listed them, *)
(* and the focused address.  Live windows are a function from addresses to *)
(* their state.  Actions that only inform (WindowMissing,                  *)
(* WindowNotInSnapshot) change nothing and are left out of a diff.         *)
(***************************************************************************)
EXTENDS Naturals, Sequences, FiniteSets, SequencesExt

CONSTANTS
    Address,       \* addresses Hyprland may give to windows
    PidOf, IdOf,   \* process and (initial class, initial title) by address
    Nobody         \* no window: no match, or no focus

Only(S) == IF Cardinality(S) = 1 THEN CHOOSE a \in S : TRUE ELSE Nobody

\* The live window for one of the snapshot: by address, by process, by
\* identity, in this order; the last two only if there is one candidate.
MatchLiveWindow(w, open, taken) ==
    LET free    == open \ taken
        samePid == Only({a \in free : PidOf[a] = PidOf[w.addr]})
        sameId  == Only({a \in free : IdOf[a] = IdOf[w.addr]})
    IN  IF w.addr \in free THEN w.addr
        ELSE IF samePid # Nobody THEN samePid
        ELSE sameId

\* Faulty variant: a live window may be matched again.
MatchingAgain(windows, open) ==
    [i \in 1..Len(windows) |-> MatchLiveWindow(windows[i], open, {})]

\* The snapshot's windows take their matches one after the other.
Matching(windows, open) ==
    LET matched[i \in 0..Len(windows)] ==
            IF i = 0 THEN <<>>
            ELSE Append(matched[i - 1],
                        MatchLiveWindow(windows[i], open, Range(matched[i - 1])))
    IN  matched[Len(windows)]

When(needed, action) == IF needed THEN <<action>> ELSE <<>>

\* Faulty variant: the geometry is set before the window floats.
PairActionsReordered(w, a, l) ==
    When(l.ws # w.ws, [kind |-> "move", addr |-> a, to |-> w.ws])
    \o When(w.floating /\ <<l.at, l.size>> # <<w.at, w.size>>,
            [kind |-> "place", addr |-> a, to |-> w.at, size |-> w.size])
    \o When(l.floating # w.floating, [kind |-> "float", addr |-> a])
    \o When(l.full # w.full, [kind |-> "fullscreen", addr |-> a, to |-> w.full])
    \o When(w.floating /\ l.pinned # w.pinned, [kind |-> "pin", addr |-> a])

\* What takes live window a, now in state l, to where the snapshot had it.
PairActions(w, a, l) ==
    When(l.ws # w.ws, [kind |-> "move", addr |-> a, to |-> w.ws])
    \o When(l.floating # w.floating, [kind |-> "float", addr |-> a])
    \o When(w.floating /\ <<l.at, l.size>> # <<w.at, w.size>>,
            [kind |-> "place", addr |-> a, to |-> w.at, size |-> w.size])
    \o When(l.full # w.full, [kind |-> "fullscreen", addr |-> a, to |-> w.full])
    \o When(w.floating /\ l.pinned # w.pinned, [kind |-> "pin", addr |-> a])

\* The focus comes last, and only if the window that had it is not focused now.
FocusActions(snap, live, focus) ==
    When(snap.active # focus /\ snap.active \in DOMAIN live,
         [kind |-> "focus", addr |-> snap.active])

\* Faulty variant: the focus is restored before the windows are.
FocusFirst(snap, live, focus) ==
    LET matched == Matching(snap.windows, DOMAIN live)
    IN  FocusActions(snap, live, focus)
        \o FlattenSeq([i \in 1..Len(matched) |->
            IF matched[i] = Nobody THEN <<>>
            ELSE PairActions(snap.windows[i], matched[i], live[matched[i]])])

DiffAgainst(snap, live, focus) ==
    LET matched == Matching(snap.windows, DOMAIN live)
    IN  FlattenSeq([i \in 1..Len(matched) |->
            IF matched[i] = Nobody THEN <<>>
            ELSE PairActions(snap.windows[i], matched[i], live[matched[i]])])
        \o FocusActions(snap, live, focus)
=============================================================================
