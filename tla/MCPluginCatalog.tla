-------------------------- MODULE MCPluginCatalog --------------------------
(* Two releases of one plugin, of which the second asks for more, as the    *)
(* bundled and as the catalog's one.  Two servers look for releases and     *)
(* two administration requests overlap.                                    *)
EXTENDS PluginCatalog, TLC

CONSTANTS here, there, r1, r2, ann,
          Affects \* whether stored renders depend on the plugin

Release(version, permissions, css) ==
    [id |-> "p", version |-> version, permissions |-> permissions, affects |-> Affects,
     sound |-> TRUE, kind |-> "content", css |-> css]
First == Release(1, {}, {"layout"})
Second == Release(2, {"network"}, {"colour", "script"})

MCPackages == {First, Second}
MCCatalogs == {{First, Second}}
MCBuiltins == {Second}
MCAtStart == {First}
\* A release that asks for less than those before and after it.
Narrow == Release(2, {}, {"colour"})
Wide(version) == Release(version, {"network"}, {"layout"})
MCNarrowed == {Wide(1), Narrow, Wide(3)}
MCWideAtStart == {Wide(1)}
MCNarrowedCatalogs == {MCNarrowed}
MCWideBuiltins == {Wide(3)}
MCSymmetry == Permutations({r1, r2})
=============================================================================
