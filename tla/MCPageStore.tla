---------------------------- MODULE MCPageStore ----------------------------
(* Two requests race on one page. *)
EXTENDS PageStore, TLC

CONSTANTS c1, c2, a, b, t1

MCClients == {c1, c2}
MCTexts == {a, b}
MCStatuses == {"draft", "verified"}
MCTags == {t1}
MCAuthored == {"old"}
Symmetry == Permutations(MCClients) \cup Permutations(MCTexts)
=============================================================================
