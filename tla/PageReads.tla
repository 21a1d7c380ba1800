------------------------------ MODULE PageReads ------------------------------
(***************************************************************************)
(* What an ordinary user is shown while pages move and rules change: page  *)
(* views, permalinks and aliases, the editor, and the lists of pages (the  *)
(* navigation, the search, the dashboard, backlinks, the graph, aliases).  *)
(*                                                                         *)
(* Every request asks the rules and the pages in separate statements.  A   *)
(* request for one path asks the rules first; a list reads the pages first *)
(* and then removes what the rules hide.  seen are the paths that the user *)
(* was allowed to view at some moment of the request.  A link that a list  *)
(* of outgoing links shows also leads to the path its target has now.      *)
(***************************************************************************)
EXTENDS PageNamespace

VARIABLE reader

readVars == <<spaceVars, reader>>

Away == [step |-> "idle", paths |-> {}, leads |-> None, seen |-> {}]

Visible == FilterPages("user", Paths)

(* Two transactions are not under way at once during a request (a bound:    *)
(* what they do to each other is the same without a reader).                *)
OneWriter == \A c, e \in Clients : "idle" \in {tx[c].step, tx[e].step} \/ c = e

Ask(step, paths) ==
    /\ reader.step = "idle" /\ OneWriter
    /\ reader' = [Away EXCEPT !.step = step, !.paths = paths, !.seen = Visible]
    /\ UNCHANGED spaceVars

Reads(new) ==
    /\ reader' = new
    /\ UNCHANGED spaceVars

Show(paths) == Reads([reader EXCEPT !.step = "shown", !.paths = paths])

-----------------------------------------------------------------------------
(* Requests for one path *)

ViewPage(path) == Ask("rule", {path})

EditPage(path) == Ask("edit", {path})

(* A permalink names a page; its current path is then checked and opened. *)
CanonicalPage(i) == i \in Live(db) /\ Ask("target", {db.slug[i]})

(* The path behind an alias or permalink is asked for again by the browser, *)
(* which is redirected to it, or looked up at once.                         *)
RequireView ==
    \E next \in {<<"rule", "page">>, <<"rule", "lookup">>, <<"target", "rule">>, <<"target", "lookup">>} :
        /\ reader.step = next[1]
        /\ Reads(IF \A p \in reader.paths : CanView("user", p) THEN [reader EXCEPT !.step = next[2]]
                 ELSE Away)

RequireEdit ==
    /\ reader.step = "edit"
    /\ Reads(IF \A p \in reader.paths : CanEdit("user", p) THEN [reader EXCEPT !.step = "lookup"] ELSE Away)

GetPageFor ==
    /\ reader.step = "lookup"
    /\ Reads(IF \E p \in reader.paths : GetPage(db, p) # {} THEN [reader EXCEPT !.step = "shown"] ELSE Away)

showTarget == \* a mutant: the page behind an alias is shown at once
    \E p \in reader.paths :
        /\ reader.step = "page"
        /\ IF GetPage(db, p) # {} THEN Show({p})
           ELSE IF ResolvePageAlias(db, p) = {} THEN Reads(Away)
           ELSE Show({db.slug[i] : i \in ResolvePageAlias(db, p)})

getPageOrAlias ==
    \E p \in reader.paths :
        /\ reader.step = "page"
        /\ IF GetPage(db, p) # {} THEN Show({p})
           ELSE IF ResolvePageAlias(db, p) = {} THEN Reads(Away)
           ELSE Reads([reader EXCEPT !.step = "target", !.paths = {db.slug[i] : i \in ResolvePageAlias(db, p)}])

-----------------------------------------------------------------------------
(* Lists.  Which pages a search, a favourite or the dashboard selects is    *)
(* left out: a list that selects fewer pages shows fewer.                   *)

ListPages == {db.slug[i] : i \in Live(db)}

Backlinks(path) == {db.slug[i] : i \in {j \in Live(db) : path \in db.links[j]}}

aliasTargets == {db.slug[i] : i \in UNION {ResolvePageAlias(db, p) : p \in Paths}}

(* The lists of no page in particular. *)
List == \E paths \in {ListPages, aliasTargets} : Ask("listed", paths)

(* A page's backlinks are read once the rules allow the page itself. *)
BacklinksOf ==
    \E p \in reader.paths :
        /\ reader.step = "page"
        /\ Reads([reader EXCEPT !.step = "listed", !.paths = Backlinks(p)])

(* The links of a text that is previewed: any paths an author may write. *)
ResolveLinks == Ask("listed", {db.slug[i] : i \in UNION {ResolvePageLinks(db, p) : p \in Settable}})

Filter ==
    /\ reader.step = "listed"
    /\ Show(FilterPages("user", reader.paths))

-----------------------------------------------------------------------------
(* The outgoing links of a page, as plugins list them.  Each is filtered by *)
(* itself: one is followed here.                                            *)

(* The path a link names and the path its target has now, from the tables.  *)
PageLinks ==
    \E p \in reader.paths, i \in Ids :
        /\ reader.step = "page"
        /\ \E path \in UNION {db.links[j] : j \in GetPage(db, p)} :
              /\ i \in ResolvePageLinks(db, path)
              /\ Reads([reader EXCEPT !.step = "links", !.paths = {path}, !.leads = db.slug[i]])

(* Only the path a link names is asked about; a hidden link is shown as one *)
(* that leads nowhere.                                                      *)
RedactLinks ==
    /\ reader.step = "links"
    /\ Reads(IF reader.paths \subseteq Visible THEN [reader EXCEPT !.step = "linked"] ELSE Away)

-----------------------------------------------------------------------------
ReadInit == SpaceInit /\ reader = Away

(* Whatever changes while a request is under way; an answer is a moment. *)
Meanwhile ==
    /\ reader.step \notin {"shown", "linked"}
    /\ SpaceNext
    /\ reader.step = "idle" \/ OneWriter'
    /\ reader' = IF reader.step = "idle" THEN reader ELSE [reader EXCEPT !.seen = @ \cup Visible']

Close == reader.step \in {"shown", "linked"} /\ Reads(Away)

ReadNext ==
    \/ Meanwhile
    \/ \E p \in Sources \cup Targets : ViewPage(p) \/ EditPage(p)
    \/ \E i \in Ids : CanonicalPage(i)
    \/ RequireView \/ RequireEdit \/ GetPageFor \/ getPageOrAlias
    \/ List \/ BacklinksOf \/ ResolveLinks \/ Filter \/ PageLinks \/ RedactLinks \/ Close

ReadSpec == ReadInit /\ [][ReadNext]_readVars

-----------------------------------------------------------------------------
(* A page is only shown under a path the user was allowed to view since the *)
(* request began, whichever alias, permalink or list led there and whoever  *)
(* moves pages or changes rules meanwhile; so is the path an outgoing link  *)
(* names, whatever that link leads to.                                      *)
ShownWasViewable == reader.step \in {"shown", "linked"} => reader.paths \subseteq reader.seen

(* "PageLinks returns outgoing links without revealing inaccessible target  *)
(* pages": the path a listed link leads to was the user's to view.  It does *)
(* not hold where the link names a former path of the target.               *)
LinksHideTargets == reader.step = "linked" => reader.leads \in reader.seen
=============================================================================
