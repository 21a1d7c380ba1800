------------------------------ MODULE MCSandbox ------------------------------
(* Two binaries for a cache of one, two instances of the first of them, and *)
(* two callers.                                                            *)
EXTENDS Sandbox, TLC

CONSTANTS i1, i2, i3, a, b

MCInstances == {i1, i2, i3}
MCBinary == i1 :> "x" @@ i2 :> "x" @@ i3 :> "y"
MCPermissions == i1 :> {"network", "pages:write"} @@ i2 :> {"pages:content"} @@ i3 :> {}
MCModules ==
    i1 :> {"preprocess", "widget", "widget-command", "admin-action"} @@
    i2 :> {"content-preprocess", "postprocess", "highlight"} @@
    i3 :> {"macro", "export", "content-change"}
MCGranted == {"network", "pages:content", "pages:write"}
MCCallers == {a, b}
MCSymmetry == Permutations(MCCallers)
=============================================================================
