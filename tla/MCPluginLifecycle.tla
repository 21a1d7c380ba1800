------------------------- MODULE MCPluginLifecycle -------------------------
(* Instances of PluginLifecycle: macros "m" need includes "n" until their  *)
(* second version, and the second version of "n" needs "m" in turn.        *)
EXTENDS PluginLifecycle

MCRequires ==
    [pv \in {"m", "n"} \X {1, 2} |->
        CASE pv = <<"m", 1>> -> {"n"}
          [] pv = <<"n", 2>> -> {"m"}
          [] OTHER -> {}]

MCBuiltins == [p \in {"n"} |-> [version |-> 1, enabled |-> TRUE]]
NoBuiltins == [p \in {} |-> [version |-> 1, enabled |-> TRUE]]
=============================================================================
