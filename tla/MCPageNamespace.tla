--------------------------- MODULE MCPageNamespace ---------------------------
(* Two requests, two pages, and a path below each of two paths: enough for  *)
(* a move of a tree, a move onto an alias and one page moved twice.  An     *)
(* image and an attachment with the same number, and room for one more of   *)
(* each.                                                                    *)
EXTENDS PortableArchive, TLC

CONSTANTS c1, c2, p1, p2

a == <<"a">>
b == <<"b">>
MCPaths == {a, b, a \o <<"x">>, b \o <<"x">>, b \o a}
MCSources == {a, a \o <<"x">>}
MCTargets == {a, b}
MCSettable == {b}
\* A link to b, the former path of the page at a.x, which a rule hides.
MCLinkPaths == {a, b, a \o <<"x">>}
MCLinkSettable == {b, a \o <<"x">>}
MCLinkSymmetry == Permutations({p1, p2})
MCSymmetry == Permutations({c1, c2}) \cup Permutations({p1, p2})

image == <<"media", 1>>
attachment == <<"attachments", 1>>
MCTexts == {{}, {<<"url", image>>, <<"url", attachment>>}, {<<"code", image>>, <<"relative", attachment>>}}
=============================================================================
