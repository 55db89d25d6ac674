---- MODULE MCAgentSurface ----
(***************************************************************************)
(* A finite instance of AgentSurface.                                      *)
(***************************************************************************)
EXTENDS AgentSurface

MCProfiles ==
    {[allow |-> {"read", "undo"}, allow_tools |-> {"run_bind"}, deny_tools |-> {}],
     [allow |-> {"read", "destructive", "snapshot", "a11y"}, allow_tools |-> {"undo", "ocr_screen"},
      deny_tools |-> {"kill_active", "snapshot_delete"}],
     [allow |-> {"input", "vision"}, allow_tools |-> {"exec"}, deny_tools |-> {"exec"}]}

MCChords ==
    {<<"ctrl", "shift", "T">>, <<"shift", "control", "shift", "t">>, <<"super", "enter">>,
     <<"cmd", "Return">>, <<"meta", "1">>, <<"XF86AudioMute">>, <<"hyper", "x">>, <<"ctrl", "">>}

Keybind(mask, key, submap, mouse) == [mask |-> mask, key |-> key, submap |-> submap, mouse |-> mouse]

MCBinds ==
    <<Keybind({"super"}, "t", "", FALSE), Keybind({"ctrl", "shift"}, "T", "resize", FALSE),
      Keybind({"ctrl", "shift"}, "T", "global", FALSE), Keybind({"super"}, "Return", "", FALSE),
      Keybind({"alt"}, "1", "", FALSE), Keybind({"super"}, "1", "", TRUE)>>

MCCapital == [T |-> "t", Return |-> "return"]

\* Words of two or three units' height, whose rows may overlap in part.
At(text, conf, y, h) == Line(12, 5, conf, text, BBox(0, y, 2, h))
MCLines ==
    {At("Save", 90, 0, 2), At("save", 60, 1, 2), At("save", 90, 2, 3), At("file", 90, 1, 3),
     At("file", 30, 0, 2), At("file", 80, 4, 2), At("save", -1, 0, 2),
     Line(12, 4, 90, "file", BBox(0, 0, 9, 2)), Line(3, 5, 90, "save", BBox(0, 0, 1, 1)),
     [At("save", 90, 0, 2) EXCEPT !.numeric = FALSE]}
MCPages == UNION {[1..n -> MCLines] : n \in 0..4}
MCQueries == {<<>>, <<"save">>, <<"save", "file">>, <<"save", "save", "file">>}
MCFold == [Save |-> "save"]

MCNames == {<<>>, <<"a">>, <<"a", ".">>, <<".", "a">>, <<"a", "/">>, <<"a", "a", "_">>}

MCWorkspaces ==
    {Ref("id", n) : n \in {-99, -1, 1, 2}} \union {Ref("relative", n) : n \in -2..2}
        \union {Ref(k, n) : k \in {"name", "special"}, n \in {"web", "empty"}}
        \union {Ref("special", ""), Ref("prev", ""), Ref("next", ""), Ref("empty", "")}
MCWindows ==
    {Ref("address", Address("dead", hex)) : hex \in BOOLEAN} \union {Ref("pid", 7), Ref("active", "")}
        \union {Ref(k, v) : k \in {"class", "title", "tag"}, v \in {"kitty", "pid:7"}}
=============================================================================
