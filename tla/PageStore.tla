----------------------------- MODULE PageStore -----------------------------
(***************************************************************************)
(* One wiki page in PostgreSQL and the transactions that write it.         *)
(*                                                                         *)
(* The page row carries the versioned fields, the optimistic-concurrency   *)
(* token updated_at (stamp), its recycle-bin state and the reusable render *)
(* artifact.  Every writer runs under READ COMMITTED: it reads before it   *)
(* holds the row lock, waits for the lock, works under it and commits.     *)
(* What an uncommitted transaction wrote is visible to nobody else, so its *)
(* writes are applied when it commits.                                     *)
(***************************************************************************)
EXTENDS Naturals, FiniteSetsExt

CONSTANTS
    Clients,    \* concurrent requests: editors, movers, renderers
    Texts,      \* prose of a Markdown source, as far as it is told apart
    Tags,       \* memberships a bulk operation adds to a page: tags, groups
    Statuses,   \* page lifecycle states
    Authored,   \* link targets that authors write by hand
    MaxStamp,   \* bound: no operation begins once this many stamps are used
    Null        \* the absent value of a reference

VARIABLES
    pageRow,    \* the row of pages with its tags
    revisions,  \* page_revisions of the row: revision number -> revision
    lockedBy,   \* the transaction that holds the row lock
    tx,         \* what each client is executing
    opened,     \* what each client's editor loaded last
    clock       \* the stamps handed out so far

vars == <<pageRow, revisions, lockedBy, tx, opened, clock>>

-----------------------------------------------------------------------------
(* Data *)

\* A source is its prose and the target of its one direct wiki link: the path
\* another page had before its move, or the one it has after it.
Markdown == [text : Texts, link : {"old", "new"}]

\* The fields a save replaces as a whole and a revision snapshots.
Fields == [md : Markdown, status : Statuses, tags : SUBSET Tags]

\* What an editor may submit.
Submissions == {p \in Fields : p.md.link \in Authored}

Row == [id : Nat, state : {"absent", "live", "binned"}, page : Fields,
        stamp : Nat, art : Markdown \cup {Null}]

Revision == [page : Fields, by : {"save", "links"}]

Form == [page : Fields, stamp : Nat, id : Nat]

Tx == [op : {"save", "saveIf", "links", "render"},
       phase : {"waiting", "creating", "locked"},
       page : Fields,                \* what the operation read or will write
       before : Fields \cup {Null},  \* previousPageForSave, under the lock
       stamp : Nat, id : Nat]        \* the version it read

ASSUME StoreAssumption ==
    /\ MaxStamp \in Nat
    /\ Null \notin Clients \cup Fields
    /\ "draft" \in Statuses
    /\ Authored \subseteq {"old", "new"}

Idle(c) == tx[c] = Null

\* coalesce(max(revision_number),0)
LastNumber == Max(DOMAIN revisions \cup {0})

\* insertPageRevision: one row numbered max+1, all others untouched.
InsertRevision(page, by) ==
    [n \in DOMAIN revisions \cup {LastNumber + 1} |->
        IF n = LastNumber + 1 THEN [page |-> page, by |-> by] ELSE revisions[n]]

\* The render columns of a save: empty when the source cannot be persisted.
RenderOf(md) == {md, Null}

\* rewriteDirectWikiTarget
RewriteLink(md) == [md EXCEPT !.link = "new"]

BeginTx(c, op, page, stamp, id) ==
    /\ Idle(c)
    /\ clock < MaxStamp
    /\ tx' = [tx EXCEPT ![c] = [op |-> op, phase |-> "waiting", page |-> page,
                                before |-> Null, stamp |-> stamp, id |-> id]]

\* The transaction ends, committed or rolled back, and drops its lock.
End(c) ==
    /\ tx' = [tx EXCEPT ![c] = Null]
    /\ lockedBy' = IF lockedBy = c THEN Null ELSE lockedBy

\* The transaction owns the row until it ends.
Lock(c, before) ==
    /\ lockedBy' = c
    /\ tx' = [tx EXCEPT ![c].phase = "locked", ![c].before = before]

Waiting(c, op) == tx[c] # Null /\ tx[c].op = op /\ tx[c].phase = "waiting"
Locked(c, ops) == tx[c] # Null /\ tx[c].op \in ops /\ tx[c].phase = "locked"

-----------------------------------------------------------------------------
(* Editors *)

\* GetPage: an unlocked read of the committed row; binned pages are hidden.
GetPage(c) ==
    /\ Idle(c)
    /\ opened' = IF pageRow.state = "live"
               THEN [opened EXCEPT ![c] = [page |-> pageRow.page, stamp |-> pageRow.stamp,
                                         id |-> pageRow.id]]
               ELSE opened                                           \* ErrNotFound
    /\ UNCHANGED <<pageRow, revisions, lockedBy, tx, clock>>

\* A save without a version token: creates and API writes.
SavePage(c, p) ==
    /\ BeginTx(c, "save", p, 0, 0)
    /\ UNCHANGED <<pageRow, revisions, lockedBy, opened, clock>>

\* A save that carries the token of the editor's form.
SavePageIfUnchanged(c, p) ==
    /\ opened[c] # Null
    /\ BeginTx(c, "saveIf", p, opened[c].stamp, opened[c].id)
    /\ UNCHANGED <<pageRow, revisions, lockedBy, opened, clock>>

\* RestoreRevision: the page and one of its revisions, read in two statements,
\* then a conditional save of the revision's fields.
RestoreRevision(c, n) ==
    /\ n \in DOMAIN revisions
    /\ SavePageIfUnchanged(c, revisions[n].page)

\* ensurePageUnchanged: lock the row, then compare the token.
EnsureUnchanged(c) ==
    /\ Waiting(c, "saveIf")
    /\ lockedBy = Null
    /\ IF pageRow.state = "live" /\ pageRow.stamp = tx[c].stamp
       THEN Lock(c, pageRow.page)
       ELSE End(c)          \* ErrNotFound, ErrPageInBin, PageEditConflictError
    /\ UNCHANGED <<pageRow, revisions, opened, clock>>

\* previousPageForSave: lock the row and read it; there may be none.
PreviousPage(c) ==
    /\ Waiting(c, "save")
    /\ lockedBy = Null
    /\ CASE pageRow.state = "live"   -> Lock(c, pageRow.page)
         [] pageRow.state = "binned" -> End(c)                      \* ErrPageInBin
         [] pageRow.state = "absent" -> /\ tx' = [tx EXCEPT ![c].phase = "creating"]
                                    /\ UNCHANGED lockedBy
    /\ UNCHANGED <<pageRow, revisions, opened, clock>>

\* savePageRecord looks the row up again: a page created meanwhile is updated,
\* with no previous state to compare with.
FindCreated(c) ==
    /\ tx[c] # Null /\ tx[c].phase = "creating"
    /\ lockedBy = Null
    /\ pageRow.state # "absent"
    /\ IF pageRow.state = "live" THEN Lock(c, Null) ELSE End(c)
    /\ UNCHANGED <<pageRow, revisions, opened, clock>>

\* insertPageRecord and the first revision.
CreatePage(c) ==
    /\ tx[c] # Null /\ tx[c].phase = "creating"
    /\ pageRow.state = "absent"
    /\ \E a \in RenderOf(tx[c].page.md) :
         pageRow' = [id |-> clock + 1, state |-> "live", page |-> tx[c].page,
                 stamp |-> clock + 1, art |-> a]
    /\ revisions' = InsertRevision(tx[c].page, "save")
    /\ clock' = clock + 1
    /\ End(c)
    /\ UNCHANGED opened

\* The rest of executePageSaveTransaction: the fields and the artifact are
\* replaced; a revision and a new token only for a real change.
CommitSave(c) ==
    /\ Locked(c, {"save", "saveIf"})
    /\ LET changed == tx[c].before # tx[c].page IN
         /\ \E a \in RenderOf(tx[c].page.md) :
              pageRow' = [pageRow EXCEPT !.page = tx[c].page, !.art = a,
                                 !.stamp = IF changed THEN clock + 1 ELSE @]
         /\ revisions' = IF changed THEN InsertRevision(tx[c].page, "save")
                                    ELSE revisions
         /\ clock' = IF changed THEN clock + 1 ELSE clock
    /\ End(c)
    /\ UNCHANGED opened

-----------------------------------------------------------------------------
(* Link rewriting after the move of another page *)

\* rewriteIncomingWikiLinks reads every source that links, without a lock.
ReadIncomingLink(c) ==
    /\ pageRow.state = "live"
    /\ pageRow.page.md.link = "old"
    /\ BeginTx(c, "links", [pageRow.page EXCEPT !.md = RewriteLink(@)], pageRow.stamp, pageRow.id)
    /\ UNCHANGED <<pageRow, revisions, lockedBy, opened, clock>>

\* UPDATE ... WHERE id waits for the row; appendPageRevision then reads the page
\* back, and a page that was deleted in between fails the whole move.
LockIncomingLink(c) ==
    /\ Waiting(c, "links")
    /\ lockedBy = Null
    /\ IF pageRow.state = "live" /\ pageRow.id = tx[c].id
       THEN Lock(c, pageRow.page)
       ELSE End(c)
    /\ UNCHANGED <<pageRow, revisions, opened, clock>>

\* Fault: the rewrite does not call appendPageRevision.
LinkRewriteUnrecorded(c) ==
    /\ Locked(c, {"links"})
    /\ pageRow' = [pageRow EXCEPT !.page.md = tx[c].page.md, !.stamp = clock + 1]
    /\ clock' = clock + 1
    /\ End(c)
    /\ UNCHANGED <<revisions, opened>>

\* The source computed from the unlocked read replaces the current one and is
\* recorded as a revision; the render artifact stays as it is.
CommitIncomingLink(c) ==
    /\ Locked(c, {"links"})
    /\ pageRow' = [pageRow EXCEPT !.page.md = tx[c].page.md, !.stamp = clock + 1]
    /\ revisions' = InsertRevision([pageRow.page EXCEPT !.md = tx[c].page.md], "links")
    /\ clock' = clock + 1
    /\ End(c)
    /\ UNCHANGED opened

-----------------------------------------------------------------------------
(* Render artifacts *)

\* rebuildPage and renderPageContent read the page, then render it.
ReadForRender(c) ==
    /\ pageRow.state = "live"
    /\ BeginTx(c, "render", pageRow.page, pageRow.stamp, pageRow.id)
    /\ UNCHANGED <<pageRow, revisions, lockedBy, opened, clock>>

\* Fault: the UPDATE does not compare updated_at.
LateRenderStored(c) ==
    /\ Waiting(c, "render")
    /\ lockedBy = Null
    /\ IF pageRow.state # "absent" /\ pageRow.id = tx[c].id
       THEN \E a \in RenderOf(tx[c].page.md) : pageRow' = [pageRow EXCEPT !.art = a]
       ELSE UNCHANGED pageRow
    /\ End(c)
    /\ UNCHANGED <<revisions, opened, clock>>

\* SavePageRender: one conditional UPDATE; a concurrent edit makes it a no-op.
SavePageRender(c) ==
    /\ Waiting(c, "render")
    /\ lockedBy = Null
    /\ IF pageRow.state # "absent" /\ pageRow.id = tx[c].id /\ pageRow.stamp = tx[c].stamp
       THEN \E a \in RenderOf(tx[c].page.md) : pageRow' = [pageRow EXCEPT !.art = a]
       ELSE UNCHANGED pageRow
    /\ End(c)
    /\ UNCHANGED <<revisions, opened, clock>>

-----------------------------------------------------------------------------
(* Single-statement writers *)

\* Fault: the bulk UPDATE leaves updated_at as it is.
BulkStatusKeepsToken(s) ==
    /\ lockedBy = Null /\ pageRow.state = "live" /\ clock < MaxStamp
    /\ pageRow' = [pageRow EXCEPT !.page.status = s]
    /\ UNCHANGED <<revisions, lockedBy, tx, opened, clock>>

\* BulkSetPageStatus
BulkSetPageStatus(s) ==
    /\ lockedBy = Null /\ pageRow.state = "live" /\ clock < MaxStamp
    /\ pageRow' = [pageRow EXCEPT !.page.status = s, !.stamp = clock + 1]
    /\ clock' = clock + 1
    /\ UNCHANGED <<revisions, lockedBy, tx, opened>>

\* BulkAddPageTag and BulkAssignPageGroup leave the row of pages alone.
BulkAddPageTag(t) ==
    /\ lockedBy = Null /\ pageRow.state = "live"
    /\ pageRow' = [pageRow EXCEPT !.page.tags = @ \cup {t}]
    /\ UNCHANGED <<revisions, lockedBy, tx, opened, clock>>

\* DeletePage, BulkDeletePages
DeletePage ==
    /\ lockedBy = Null /\ pageRow.state = "live"
    /\ pageRow' = [pageRow EXCEPT !.state = "binned"]
    /\ UNCHANGED <<revisions, lockedBy, tx, opened, clock>>

\* RestorePage
RestorePage ==
    /\ lockedBy = Null /\ pageRow.state = "binned"
    /\ pageRow' = [pageRow EXCEPT !.state = "live"]
    /\ UNCHANGED <<revisions, lockedBy, tx, opened, clock>>

\* PermanentlyDeletePage: the revisions go with the row.
PermanentlyDeletePage ==
    /\ lockedBy = Null /\ pageRow.state = "binned"
    /\ pageRow' = [pageRow EXCEPT !.state = "absent"]
    /\ revisions' = [n \in {} |-> Null]
    /\ UNCHANGED <<lockedBy, tx, opened, clock>>

\* A canceled request or a lost connection: deferred tx.Rollback.
Rollback(c) ==
    /\ ~Idle(c)
    /\ End(c)
    /\ UNCHANGED <<pageRow, revisions, opened, clock>>

-----------------------------------------------------------------------------
\* The wiki starts with no page under the path.
Init ==
    /\ pageRow \in [id : {0}, state : {"absent"}, stamp : {0}, art : {Null},
                page : {[md |-> [text |-> t, link |-> "old"], status |-> "draft",
                         tags |-> {}] : t \in Texts}]
    /\ revisions = [n \in {} |-> Null]
    /\ lockedBy = Null
    /\ tx = [c \in Clients |-> Null]
    /\ opened = [c \in Clients |-> Null]
    /\ clock = 0

Editing(c) ==
    \/ GetPage(c)
    \/ \E p \in Submissions : SavePage(c, p) \/ SavePageIfUnchanged(c, p)
    \/ \E n \in DOMAIN revisions : RestoreRevision(c, n)
    \/ EnsureUnchanged(c) \/ PreviousPage(c) \/ FindCreated(c)
    \/ CreatePage(c) \/ CommitSave(c)

Rewriting(c) ==
    ReadIncomingLink(c) \/ LockIncomingLink(c) \/ CommitIncomingLink(c)

Rendering(c) == ReadForRender(c) \/ SavePageRender(c)

Administration ==
    \/ \E s \in Statuses : BulkSetPageStatus(s)
    \/ \E t \in Tags : BulkAddPageTag(t)
    \/ DeletePage \/ RestorePage \/ PermanentlyDeletePage

Next ==
    \/ \E c \in Clients : Editing(c) \/ Rewriting(c) \/ Rendering(c) \/ Rollback(c)
    \/ Administration

Spec == Init /\ [][Next]_vars

-----------------------------------------------------------------------------
(* Properties *)

\* Every variable has its type, and revision numbers are numbers.
TypeOK ==
    /\ pageRow \in Row
    /\ DOMAIN revisions \subseteq Nat \ {0}
    /\ \A n \in DOMAIN revisions : revisions[n] \in Revision
    /\ lockedBy \in Clients \cup {Null}
    /\ tx \in [Clients -> Tx \cup {Null}]
    /\ opened \in [Clients -> Form \cup {Null}]
    /\ clock \in Nat

\* The history of an existing page is numbered 1, 2, 3, ... without a gap, and
\* its newest revision holds the page's current source: whatever interleaving of
\* saves, link rewrites and rollbacks occurs, no source is ever shown that the
\* history (insertPageRevision) does not end with.
HistoryIntact ==
    /\ DOMAIN revisions = 1..LastNumber
    /\ pageRow.state # "absent" =>
         LastNumber > 0 /\ revisions[LastNumber].page.md = pageRow.page.md

\* SavePageIfUnchanged never overwrites a source or lifecycle status its editor
\* has not seen: when a conditional save commits, the row it replaces is the one
\* the form was loaded from, whoever wrote in between.
NoLostUpdate ==
    [][\A c \in Clients :
         (Locked(c, {"saveIf"}) /\ tx'[c] = Null /\ pageRow' # pageRow)
            => /\ pageRow.id = opened[c].id
               /\ pageRow.page.md = opened[c].page.md
               /\ pageRow.page.status = opened[c].page.status]_vars

\* A stored render artifact is the rendering of the current source unless the
\* source was last replaced by a link rewrite: neither a save nor a late
\* SavePageRender leaves HTML of another version behind.
ArtifactCurrent ==
    (pageRow.state # "absent" /\ pageRow.art # Null /\ pageRow.art # pageRow.page.md)
        => revisions[LastNumber].by = "links"

-----------------------------------------------------------------------------
(* What comments of the code promise and the code does not keep. *)

\* "SavePageIfUnchanged persists an existing page only when it has not changed
\* since the editor loaded it": nor have its tags and groups.
NoLostMembership ==
    [][\A c \in Clients :
         (Locked(c, {"saveIf"}) /\ tx'[c] = Null /\ pageRow' # pageRow)
            => pageRow.page.tags = opened[c].page.tags]_vars

\* "rewriteIncomingWikiLinks updates direct wiki-link source text": the revision
\* it records differs from the one before it in link targets only.
RewriteKeepsText ==
    \A n \in DOMAIN revisions :
        revisions[n].by = "links" =>
            revisions[n].page.md.text = revisions[n - 1].page.md.text

\* "renderPageContent reuses a matching render artifact": the artifact it finds
\* belongs to the source it was asked to render.
ArtifactMatches ==
    pageRow.state = "live" /\ pageRow.art # Null => pageRow.art = pageRow.page.md
=============================================================================
