---------------------------- MODULE MCRulesEngine ----------------------------
(***************************************************************************)
(* Finite instances of RulesEngine: rules that would trigger each other,   *)
(* one that matches what it causes, a file with an error, an empty file.   *)
(***************************************************************************)
EXTENDS RulesEngine

CONSTANTS slack, kitty

Do(verb, arg) == [verb |-> verb, arg |-> arg]
On(kind, when, actions) == [on |-> kind, when |-> when, do |-> actions]

PingPong ==
    <<On("openwindow", {slack}, <<Do("move_to_workspace_silent", "workspace"),
                                  Do("pin", "none")>>),
      On("movewindow", {}, <<Do("switch_workspace", "workspace")>>),
      On("activewindow", {}, <<Do("cycle_next", "none")>>)>>
Launcher == <<On("openwindow", {}, <<Do("exec", "text")>>)>>
Never == <<On("movewindow", {slack}, <<Do("kill_active", "none")>>)>>
Typo == <<On("openwindow", {}, <<Do("pin", "text")>>)>>

MCConfigs == {PingPong, Launcher, Never, Typo, <<>>}
MCLauncher == {Launcher}
MCLag == [v \in Verb |-> 1]
MCSlowLag == [v \in Verb |-> IF v = "exec" THEN 2 ELSE 1]
=============================================================================
