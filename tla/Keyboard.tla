------------------------------- MODULE Keyboard -------------------------------
(***************************************************************************)
(* Key chords: hyprpilot-input/src/keys.rs (parse, the two encodings),     *)
(* press_keys and its choice of a tool in runner.rs, and run_bind's lookup *)
(* in hyprpilot-daemon/src/binds.rs.  ydotool writes one key event after   *)
(* the other into the kernel, and no lock keeps two handlers of the        *)
(* daemon, or the user's own hands, apart.                                 *)
(*                                                                         *)
(* A chord is the sequence of its tokens, trimmed; letters that differ in  *)
(* case only matter in a key, where Lower folds them.                      *)
(***************************************************************************)
EXTENDS Integers, Sequences, SequencesExt, FiniteSetsExt

CONSTANTS
    Hands,       \* connections to the daemon that press keys
    Chords,      \* the chords they press
    Binds,       \* what Hyprland lists as its keybinds
    Capital,     \* keys spelled with a capital, and their lower case
    MaxPresses   \* bound on the requests

Bind == [mask : SUBSET STRING, key : STRING, submap : STRING, mouse : BOOLEAN]

ASSUME KeyAssumption ==
    /\ Chords \subseteq Seq(STRING)
    /\ Binds \in Seq(Bind)
    /\ Capital \in [DOMAIN Capital -> STRING]
    /\ MaxPresses \in Nat

VARIABLES
    tools,       \* BackendAvailability, and whether ydotoold's socket exists
    down,        \* the keys the kernel has down on ydotool's device
    held,        \* the modifiers the user holds on his own keyboard
    pressing,    \* the request each handler is working on
    heard,       \* history: the last chord that reached Hyprland's binds
    presses      \* how many requests there were, up to MaxPresses

keyVars == <<tools, down, held, pressing, heard, presses>>

Lower(key) == IF key \in DOMAIN Capital THEN Capital[key] ELSE key

-----------------------------------------------------------------------------
(* keys.rs                                                                 *)

\* enum Modifier.
Modifiers == {"ctrl", "shift", "alt", "super"}

\* Modifier::parse.  The doc of the module lists meta among the names of super.
ModifierOf ==
    [ctrl |-> "ctrl", control |-> "ctrl", shift |-> "shift", alt |-> "alt", meta |-> "alt",
     super |-> "super", win |-> "super", windows |-> "super", mod4 |-> "super",
     cmd |-> "super", command |-> "super"]

ModifierCode == [ctrl |-> 29, shift |-> 42, alt |-> 56, super |-> 125]

\* Codes that follow each other, as the keys of a keyboard's row do.
Row(first, keys) == [k \in ToSet(keys) |-> first - 1 + CHOOSE i \in DOMAIN keys : keys[i] = k]

LetterCode ==
    {Row(16, <<"q", "w", "e", "r", "t", "y", "u", "i", "o", "p">>),
     Row(30, <<"a", "s", "d", "f", "g", "h", "j", "k", "l">>),
     Row(44, <<"z", "x", "c", "v", "b", "n", "m">>),
     Row(2, <<"1", "2", "3", "4", "5", "6", "7", "8", "9", "0">>)}

NamedCode ==
    {Row(12, <<"minus", "equal", "backspace", "tab">>),
     Row(39, <<"semicolon", "apostrophe", "grave">>),
     Row(51, <<"comma", "period", "slash">>),
     Row(59, <<"f1", "f2", "f3", "f4", "f5", "f6", "f7", "f8", "f9", "f10">>),
     Row(87, <<"f11", "f12">>),
     Row(102, <<"home", "up", "page_up", "left", "right", "end", "down", "page_down",
                "insert", "delete">>),
     [return |-> 28, space |-> 57, escape |-> 1, bracketleft |-> 26,
      bracketright |-> 27, backslash |-> 43]}

Alias ==
    [enter |-> "return", kp_enter |-> "return", esc |-> "escape", del |-> "delete",
     ins |-> "insert", pageup |-> "page_up", prior |-> "page_up", pagedown |-> "page_down",
     next |-> "page_down", dot |-> "period"]

\* The code of a key under its own name; 0 if the table has none.
CodeOf(name) ==
    LET rows == {r \in LetterCode \union NamedCode : name \in DOMAIN r}
    IN  IF rows = {} THEN 0 ELSE (CHOOSE r \in rows : TRUE)[name]

\* keysym_to_evdev.
Evdev(key) == CodeOf(IF Lower(key) \in DOMAIN Alias THEN Alias[Lower(key)] ELSE Lower(key))

\* KeyCombo::parse: what it accepts and what it makes of it.
Parses(chord) ==
    /\ chord # <<>>
    /\ "" \notin ToSet(chord)
    /\ ToSet(Front(chord)) \subseteq DOMAIN ModifierOf

Combo(chord) ==
    [mods |-> {ModifierOf[m] : m \in ToSet(Front(chord))}, key |-> Last(chord)]

\* The order is that of the BTreeSet.
InOrder(mods) ==
    LET One(m) == IF m \in mods THEN <<m>> ELSE <<>>
    IN  One("ctrl") \o One("shift") \o One("alt") \o One("super")

\* Faulty variant: the modifier that was pressed last is not released.
EncodeShort(combo) ==
    LET codes == [i \in DOMAIN InOrder(combo.mods) |-> ModifierCode[InOrder(combo.mods)[i]]]
        Event(state) == [i \in DOMAIN codes |-> <<codes[i], state>>]
    IN  Event(1) \o << <<Evdev(combo.key), 1>>, <<Evdev(combo.key), 0>> >>
            \o (IF codes = <<>> THEN <<>> ELSE Tail(Reverse(Event(0))))

\* Faulty variant: modifiers are pressed after the key.
EncodeKeyFirst(combo) ==
    LET codes == [i \in DOMAIN InOrder(combo.mods) |-> ModifierCode[InOrder(combo.mods)[i]]]
        Event(state) == [i \in DOMAIN codes |-> <<codes[i], state>>]
    IN  << <<Evdev(combo.key), 1>> >> \o Event(1)
            \o << <<Evdev(combo.key), 0>> >> \o Reverse(Event(0))

\* encode_ydotool_key: modifiers down, the key down and up, modifiers up in
\* reverse, as <<code, state>>.
Encode(combo) ==
    LET codes == [i \in DOMAIN InOrder(combo.mods) |-> ModifierCode[InOrder(combo.mods)[i]]]
        Event(state) == [i \in DOMAIN codes |-> <<codes[i], state>>]
    IN  Event(1) \o << <<Evdev(combo.key), 1>>, <<Evdev(combo.key), 0>> >> \o Reverse(Event(0))

-----------------------------------------------------------------------------
(* binds.rs.  A bind has the modifiers of its modmask, by name.            *)

\* Bind::decode_mods: the bits of four modifiers, of eight.
DecodeMods(mask) == mask \intersect Modifiers

\* Faulty variant: any bind with the key will do.
MatchesKey(bind, combo) == ~bind.mouse /\ Lower(bind.key) = Lower(combo.key)

\* bind_matches with no submap asked for.
BindMatches(bind, combo) ==
    /\ ~bind.mouse
    /\ bind.submap \in {"", "global"}
    /\ Lower(bind.key) = Lower(combo.key)
    /\ DecodeMods(bind.mask) = combo.mods

\* resolve: the first that matches, 0 if none does.
Resolve(combo) ==
    LET found == {i \in DOMAIN Binds : BindMatches(Binds[i], combo)}
    IN  IF found = {} THEN 0 ELSE Min(found)

\* Hyprland: the binds of the default submap that a key fires.
Fires(bind, code, mods) ==
    /\ ~bind.mouse
    /\ bind.submap \in {"", "global"}
    /\ Evdev(bind.key) = code
    /\ bind.mask = mods

-----------------------------------------------------------------------------
(* runner.rs.                                                              *)

NoPress == [combo |-> [mods |-> {}, key |-> ""], todo |-> <<>>, alone |-> TRUE]

KeyInit ==
    /\ tools \in [wtype : BOOLEAN, ydotool : BOOLEAN, socket : BOOLEAN]
    /\ down = {}
    /\ held = {}
    /\ pressing = [h \in Hands |-> NoPress]
    /\ heard = [combo |-> NoPress.combo, mods |-> {}, fired |-> {}, alone |-> FALSE]
    /\ presses = 0

Busy == {h \in Hands : pressing[h] # NoPress}

\* press_keys with ydotool: its tool and its socket are there and the key has
\* a code.
PressYdotool(h, chord) ==
    /\ pressing[h] = NoPress
    /\ presses < MaxPresses
    /\ Parses(chord)
    /\ tools.ydotool /\ tools.socket /\ Evdev(Last(chord)) # 0
    /\ LET alone == Busy = {} /\ held = {}
       IN  pressing' = [k \in Hands |->
                IF k = h
                THEN [combo |-> Combo(chord), todo |-> Encode(Combo(chord)), alone |-> alone]
                ELSE IF k \in Busy THEN [pressing[k] EXCEPT !.alone = FALSE]
                ELSE NoPress]
    /\ presses' = presses + 1
    /\ UNCHANGED <<tools, down, held, heard>>

\* Otherwise wtype gives the chord to the focused window, past the binds, or
\* BackendMissing is the answer.
PressWtype(h, chord) ==
    /\ pressing[h] = NoPress
    /\ presses < MaxPresses
    /\ ~(Parses(chord) /\ tools.ydotool /\ tools.socket /\ Evdev(Last(chord)) # 0)
    /\ presses' = presses + 1
    /\ UNCHANGED <<tools, down, held, pressing, heard>>

HeldMods == held \union {m \in Modifiers : ModifierCode[m] \in down}

\* ydotool hands the next event to the kernel, and Hyprland sees it.
Emit(h) ==
    /\ h \in Busy
    /\ LET code == Head(pressing[h].todo)[1]
           press == Head(pressing[h].todo)[2] = 1
       IN  /\ down' = IF press THEN down \union {code} ELSE down \ {code}
           /\ heard' = IF press /\ code \notin {ModifierCode[m] : m \in Modifiers}
                       THEN [combo |-> pressing[h].combo, mods |-> HeldMods,
                             fired |-> {i \in DOMAIN Binds : Fires(Binds[i], code, HeldMods)},
                             alone |-> pressing[h].alone]
                       ELSE heard
    /\ pressing' = [pressing EXCEPT ![h] =
                        IF Len(@.todo) = 1 THEN NoPress
                        ELSE [@ EXCEPT !.todo = Tail(pressing[h].todo)]]
    /\ UNCHANGED <<tools, held, presses>>

\* The user presses or releases a modifier.
UserHolds(m) ==
    /\ held' = IF m \in held THEN held \ {m} ELSE held \union {m}
    /\ pressing' = [h \in Hands |-> IF h \in Busy THEN [pressing[h] EXCEPT !.alone = FALSE]
                                    ELSE NoPress]
    /\ UNCHANGED <<tools, down, heard, presses>>

\* ydotoold is started or stopped: the socket is looked for on every call.
SocketChanges ==
    /\ tools' = [tools EXCEPT !.socket = ~@]
    /\ UNCHANGED <<down, held, pressing, heard, presses>>

KeyNext ==
    \/ \E h \in Hands, c \in Chords : PressYdotool(h, c) \/ PressWtype(h, c)
    \/ \E h \in Hands : Emit(h)
    \/ UserHolds("shift")
    \/ SocketChanges

-----------------------------------------------------------------------------
(* Properties.                                                             *)

\* A chord that nobody else's keys came between reaches Hyprland with exactly
\* its own modifiers, whatever was pressed before it.
ChordIsWhole == heard.alone => heard.mods = heard.combo.mods

\* When no chord is being pressed ydotool's device has no key down: also after
\* chords that shared a modifier have been pressed into each other.
NothingStaysDown == Busy = {} => down = {}

\* The bind run_bind picks for a chord is one that pressing it fires
\* (binds.rs:22 "Does `bind` fire for `combo`").
RunBindIsThePress ==
    heard.alone /\ Resolve(heard.combo) # 0 => Resolve(heard.combo) \in heard.fired

=============================================================================
