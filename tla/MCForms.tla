------------------------------- MODULE MCForms -------------------------------
(* Forms that are saved over rows others write.  Pages: two requests race on *)
(* one page.  Settings: two features of which one requires the other, a      *)
(* group and a resource with two names, one key of the plugin, and a quota   *)
(* of three keys; PDF headers of which two spell one name and one is         *)
(* reserved, three requests.  The two have no state in common and are        *)
(* explored one at a time, each beside an initial state of the other.        *)
EXTENDS PageStore, ApplicationSettings, TLC

CONSTANTS c1, c2, x, y, t1, s1, s2, r1, r2

MCClients == {c1, c2}
MCTexts == {x, y}
MCStatuses == {"draft", "verified"}
MCTags == {t1}
MCAuthored == {"old"}
MCRequires == "f" :> {} @@ "g" :> {"f"}
MCFold == "X" :> "x" @@ "x" :> "x" @@ "Y" :> "y" @@ "Host" :> "host"
MCSymmetry == Permutations(MCClients) \cup Permutations(MCTexts) \cup Permutations({r1, r2})

MCInit == Init /\ ConfigurationInit

MCNext ==
    \/ saves + edits = 0 /\ ~key /\ headers = {} /\ ConfigurationInit /\ Next /\ UNCHANGED configurationVars
    \/ Init /\ ConfigurationNext /\ UNCHANGED vars

MCSpec == MCInit /\ [][MCNext]_<<vars, configurationVars>>
=============================================================================
