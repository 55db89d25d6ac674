----------------------------- MODULE MCMcpBridge -----------------------------
(***************************************************************************)
(* Finite instances of McpBridge.                                          *)
(***************************************************************************)
EXTENDS McpBridge

Out(x, width, scale) == [x |-> x, width |-> width, scale |-> scale]
OneOutput(width, scale) == [outs |-> [eDP |-> Out(0, width, scale)], focused |-> "eDP"]

Plain == OneOutput(6, 2)
Fractional == OneOutput(9, 3)
Docked == [outs |-> [eDP |-> Out(0, 6, 2), HDMI |-> Out(6, 4, 2)], focused |-> "HDMI"]

MCLayouts == {Fractional, Docked}
MCOneLayout == {Plain}

Profile(allow, allow_tools, deny_tools) ==
    [allow |-> allow, allow_tools |-> allow_tools, deny_tools |-> deny_tools]

DefaultSafe ==
    Profile({"read", "window", "workspace", "undo", "snapshot", "rules"}, {}, {})
Custom == Profile({"read", "window", "snapshot", "input", "binds"}, {"exec"},
                  {"input_mouse_click"})

MCProfiles == {DefaultSafe, Custom}
MCCustom == {Custom}
MCTools == DOMAIN Registry
MCClickText == {"click_text"}

MCNoRegion == {NoRegion}
MCHalf == {NoRegion, [x |-> 2, w |-> 4]}
=============================================================================
