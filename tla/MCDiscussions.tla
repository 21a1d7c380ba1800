---------------------------- MODULE MCDiscussions ----------------------------
(* Two users, two spans, one webhook and two clients; at the start nothing, or two open *)
(* suggestions about the first revision. *)
EXTENDS Discussions, TLC

CONSTANTS ann, bob, h1, c1, c2, k1

MCUsers == {ann, bob}
MCSpans == {1, 2}
MCKeys == {k1}
MCMentioned == {{}, {bob}}
MCHooks == {h1}
MCClients == {c1, c2}
MCSuggested(u, x) == [author |-> u, parent |-> 0, resolved |-> FALSE, applied |-> FALSE,
                      sug |-> [number |-> 1, span |-> x, original |-> 0, replacement |-> 1]]
MCThreads == {<<>>, <<MCSuggested(ann, 1), MCSuggested(bob, 2)>>}
MCSymmetry == Permutations(MCClients)
=============================================================================
