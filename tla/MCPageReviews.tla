--------------------------- MODULE MCPageReviews ---------------------------
(* One editor and one administrator work on the reviews of one page.  Two    *)
(* servers share the queue of content changes; each makes one change of a    *)
(* page.  Reviews and queue have no state in common, and are explored one at *)
(* a time, each beside the initial state of the other.                       *)
EXTENDS PageReviews, ContentChangeQueue

CONSTANTS editor, admin, s1, s2, c1, c2

MCClients == {editor, admin}
MCAdministrators == {admin}
MCStatuses == {"draft", "verified"}
MCServers == {s1, s2}
MCChanges == {c1, c2}
MCHome == [c \in MCChanges |-> IF c = c1 THEN s1 ELSE s2]

MCInit == ReviewInit /\ Init

MCNext ==
    \/ Init /\ ReviewNext /\ UNCHANGED vars
    \/ ReviewInit /\ page.status = "draft" /\ Next /\ UNCHANGED reviewVars

MCSpec == MCInit /\ [][MCNext]_<<reviewVars, vars>> /\ Fairness
=============================================================================
