-------------------------- MODULE PageStoreProofs --------------------------
(***************************************************************************)
(* The safety properties of PageStore for any number of clients, texts,    *)
(* tags, statuses and stamps.                                              *)
(***************************************************************************)
EXTENDS PageStore, TLAPS, FiniteSetTheorems, SequenceTheorems

\* A transaction past its first lock owns a live row; what it read there is
\* still the row's page.
LockOwned ==
    \A c \in Clients : (tx[c] # Null /\ tx[c].phase = "locked") =>
        /\ lockedBy = c
        /\ pageRow.state = "live"
        /\ tx[c].before \in {pageRow.page, Null}

\* No version that anyone remembers is newer than the newest stamp.
StampsBounded ==
    /\ pageRow.stamp <= clock
    /\ \A c \in Clients : opened[c] # Null => opened[c].stamp <= clock
    /\ \A c \in Clients : tx[c] # Null => tx[c].stamp <= clock

\* The token identifies the source and the status: a form whose token is the
\* row's shows what the row holds.
FormsValid ==
    \A c \in Clients : (opened[c] # Null /\ opened[c].stamp = pageRow.stamp) =>
        /\ opened[c].id = pageRow.id
        /\ opened[c].page.md = pageRow.page.md
        /\ opened[c].page.status = pageRow.page.status

\* A conditional save carries its form's token, and once it holds the lock the
\* token is the row's.
ConditionalSaves ==
    \A c \in Clients : (tx[c] # Null /\ tx[c].op = "saveIf") =>
        /\ opened[c] # Null
        /\ tx[c].stamp = opened[c].stamp
        /\ tx[c].phase # "creating"
        /\ tx[c].phase = "locked" => tx[c].stamp = pageRow.stamp

\* A render whose token is the row's rendered the row's source.
RendersValid ==
    \A c \in Clients :
        (tx[c] # Null /\ tx[c].op = "render" /\ tx[c].stamp = pageRow.stamp)
            => tx[c].page.md = pageRow.page.md

Versions == StampsBounded /\ FormsValid /\ ConditionalSaves /\ RendersValid

\* Revision numbers form an interval, so that their maximum exists.
Numbered == \E n \in Nat : DOMAIN revisions = 1..n

IInv == TypeOK /\ Numbered /\ LockOwned /\ Versions /\ HistoryIntact /\ ArtifactCurrent

-----------------------------------------------------------------------------
(* Revision numbers *)

\* insertPageRevision's max(revision_number) over 1..n is n, and 0 over none.
LEMMA MaxOfInterval ==
    ASSUME NEW n \in Nat
    PROVE  Max((1..n) \cup {0}) = n
<1>1. n \in (1..n) \cup {0}
    OBVIOUS
<1>2. \A y \in (1..n) \cup {0} : n >= y
    OBVIOUS
<1>3. \A x \in (1..n) \cup {0} :
        (\A y \in (1..n) \cup {0} : x >= y) => x = n
    BY <1>1
<1> QED
    BY <1>1, <1>2, <1>3 DEF Max

\* A numbered history is numbered up to LastNumber.
LEMMA LastIsCount ==
    ASSUME Numbered
    PROVE  LastNumber \in Nat /\ DOMAIN revisions = 1..LastNumber
<1> PICK n \in Nat : DOMAIN revisions = 1..n
    BY DEF Numbered
<1> QED
    BY MaxOfInterval DEF LastNumber

\* insertPageRevision appends: the numbers grow by one, the new revision is the
\* last one and every other one stays.
LEMMA InsertAppends ==
    ASSUME Numbered, NEW p, NEW by, revisions' = InsertRevision(p, by)
    PROVE  /\ Numbered'
           /\ LastNumber' = LastNumber + 1
           /\ DOMAIN revisions' = 1..(LastNumber + 1)
           /\ revisions'[LastNumber + 1] = [page |-> p, by |-> by]
           /\ \A n \in 1..LastNumber : revisions'[n] = revisions[n]
<1>1. LastNumber \in Nat /\ DOMAIN revisions = 1..LastNumber
    BY LastIsCount
<1>2. DOMAIN revisions' = 1..(LastNumber + 1)
    BY <1>1 DEF InsertRevision
<1>3. LastNumber' = LastNumber + 1
    BY <1>1, <1>2, MaxOfInterval, LastNumber + 1 \in Nat DEF LastNumber
<1> QED
    BY <1>1, <1>2, <1>3 DEF InsertRevision, Numbered

-----------------------------------------------------------------------------
(* Typing *)

\* Every action keeps every variable in its type.
LEMMA TypeStep ==
    ASSUME TypeOK, Numbered, [Next]_vars
    PROVE  TypeOK'
<1> USE DEF TypeOK
<1>1. \A c \in Clients : tx[c] # Null => tx[c] \in Tx
    OBVIOUS
<1>2. \A c \in Clients : opened[c] # Null => opened[c] \in Form
    OBVIOUS
<1>4. ASSUME NEW p \in Fields, NEW by \in {"save", "links"},
             revisions' = InsertRevision(p, by)
      PROVE  /\ DOMAIN revisions' \subseteq Nat \ {0}
             /\ \A n \in DOMAIN revisions' : revisions'[n] \in Revision
    <2>1. LastNumber \in Nat /\ DOMAIN revisions = 1..LastNumber
        BY LastIsCount
    <2> QED
        BY <1>4, <2>1 DEF InsertRevision, Revision
<1>5. ASSUME NEW c \in Clients, GetPage(c) PROVE TypeOK'
    BY <1>5 DEF GetPage, Row, Form
<1>6. ASSUME NEW c \in Clients, NEW p \in Submissions, SavePage(c, p) PROVE TypeOK'
    BY <1>6 DEF SavePage, BeginTx, Tx, Submissions
<1>7. ASSUME NEW c \in Clients, NEW p \in Fields, SavePageIfUnchanged(c, p) PROVE TypeOK'
    BY <1>7, <1>2 DEF SavePageIfUnchanged, BeginTx, Tx, Form
<1>8. ASSUME NEW c \in Clients, EnsureUnchanged(c) PROVE TypeOK'
    BY <1>8, <1>1 DEF EnsureUnchanged, Waiting, Lock, End, Tx, Row
<1>9. ASSUME NEW c \in Clients, PreviousPage(c) PROVE TypeOK'
    <2>1. tx[c] \in Tx /\ pageRow.page \in Fields
        BY <1>9, <1>1 DEF PreviousPage, Waiting, Row
    <2>2. CASE pageRow.state = "live"
        BY <1>9, <2>1, <2>2 DEF PreviousPage, Lock, Tx
    <2>3. CASE pageRow.state = "binned"
        BY <1>9, <2>1, <2>3 DEF PreviousPage, End
    <2>4. CASE pageRow.state = "absent"
        BY <1>9, <2>1, <2>4 DEF PreviousPage, Tx
    <2> QED
        BY <2>2, <2>3, <2>4 DEF Row
<1>10. ASSUME NEW c \in Clients, FindCreated(c) PROVE TypeOK'
    BY <1>10, <1>1 DEF FindCreated, Lock, End, Tx, Row
<1>11. ASSUME NEW c \in Clients, CreatePage(c) PROVE TypeOK'
    <2>1. tx[c].page \in Fields /\ tx[c].page.md \in Markdown
        BY <1>11, <1>1 DEF CreatePage, Tx, Fields
    <2>2. pageRow' \in Row
        BY <1>11, <2>1 DEF CreatePage, RenderOf, Row
    <2> QED
        BY <1>11, <1>4, <2>1, <2>2 DEF CreatePage, End
<1>12. ASSUME NEW c \in Clients, CommitSave(c) PROVE TypeOK'
    <2>1. tx[c].page \in Fields /\ tx[c].page.md \in Markdown
        BY <1>12, <1>1 DEF CommitSave, Locked, Tx, Fields
    <2>2. PICK a \in RenderOf(tx[c].page.md), n \in {pageRow.stamp, clock + 1} :
            pageRow' = [pageRow EXCEPT !.page = tx[c].page, !.art = a, !.stamp = n]
        BY <1>12 DEF CommitSave
    <2>3. a \in Markdown \cup {Null} /\ n \in Nat
        BY <2>1 DEF RenderOf, Row
    <2>4. pageRow' \in Row
        BY <2>1, <2>2, <2>3 DEF Row
    <2> QED
        BY <1>12, <1>4, <2>1, <2>4 DEF CommitSave, End
<1>13. ASSUME NEW c \in Clients, ReadIncomingLink(c) PROVE TypeOK'
    BY <1>13 DEF ReadIncomingLink, RewriteLink, BeginTx, Tx, Row, Fields, Markdown
<1>14. ASSUME NEW c \in Clients, LockIncomingLink(c) PROVE TypeOK'
    BY <1>14, <1>1 DEF LockIncomingLink, Waiting, Lock, End, Tx, Row
<1>15. ASSUME NEW c \in Clients, CommitIncomingLink(c) PROVE TypeOK'
    <2>1. tx[c].page.md \in Markdown
        BY <1>15, <1>1 DEF CommitIncomingLink, Locked, Tx, Fields
    <2>2. [pageRow.page EXCEPT !.md = tx[c].page.md] \in Fields
        BY <2>1 DEF Row, Fields
    <2>3. pageRow' = [pageRow EXCEPT !.page = [pageRow.page EXCEPT !.md = tx[c].page.md],
                             !.stamp = clock + 1]
        BY <1>15 DEF CommitIncomingLink
    <2>4. pageRow' \in Row
        BY <2>2, <2>3, clock + 1 \in Nat DEF Row
    <2> QED
        BY <1>15, <1>4, <2>2, <2>4 DEF CommitIncomingLink, End
<1>16. ASSUME NEW c \in Clients, ReadForRender(c) PROVE TypeOK'
    BY <1>16 DEF ReadForRender, BeginTx, Tx, Row
<1>17. ASSUME NEW c \in Clients, SavePageRender(c) PROVE TypeOK'
    <2>1. tx[c].page.md \in Markdown
        BY <1>17, <1>1 DEF SavePageRender, Waiting, Tx, Fields
    <2>2. pageRow' = pageRow \/ \E a \in Markdown \cup {Null} : pageRow' = [pageRow EXCEPT !.art = a]
        BY <1>17, <2>1 DEF SavePageRender, RenderOf
    <2>3. pageRow' \in Row
        BY <2>2 DEF Row
    <2> QED
        BY <1>17, <2>3 DEF SavePageRender, End
<1>18. ASSUME NEW s \in Statuses, BulkSetPageStatus(s) PROVE TypeOK'
    <2>1. [pageRow.page EXCEPT !.status = s] \in Fields
        BY DEF Row, Fields
    <2>2. pageRow' = [pageRow EXCEPT !.page = [pageRow.page EXCEPT !.status = s], !.stamp = clock + 1]
        BY <1>18 DEF BulkSetPageStatus
    <2>3. pageRow' \in Row
        BY <2>1, <2>2, clock + 1 \in Nat DEF Row
    <2> QED
        BY <1>18, <2>3 DEF BulkSetPageStatus
<1>19. ASSUME NEW t \in Tags, BulkAddPageTag(t) PROVE TypeOK'
    BY <1>19 DEF BulkAddPageTag, Row, Fields
<1>20. CASE DeletePage \/ RestorePage \/ PermanentlyDeletePage
    BY <1>20 DEF DeletePage, RestorePage, PermanentlyDeletePage, Row
<1>21. ASSUME NEW c \in Clients, Rollback(c) PROVE TypeOK'
    BY <1>21 DEF Rollback, End
<1>22. CASE UNCHANGED vars
    BY <1>22 DEF vars
<1>23. ASSUME NEW c \in Clients, NEW n \in DOMAIN revisions, RestoreRevision(c, n)
       PROVE  TypeOK'
    <2>1. revisions[n].page \in Fields
        BY DEF Revision
    <2> QED
        BY <1>23, <1>7, <2>1 DEF RestoreRevision
<1> QED
    BY <1>5, <1>6, <1>7, <1>8, <1>9, <1>10, <1>11, <1>12, <1>13, <1>14, <1>15, <1>16,
       <1>17, <1>18, <1>19, <1>20, <1>21, <1>22, <1>23
    DEF Next, Editing, Rewriting, Rendering, Administration, Submissions

-----------------------------------------------------------------------------
(* Row locks *)

\* A transaction that holds the lock keeps it, and nobody else changes the row's
\* state or page before it ends.
LEMMA LockStep ==
    ASSUME TypeOK, LockOwned, [Next]_vars
    PROVE  LockOwned'
<1> USE DEF TypeOK, LockOwned
<1> USE StoreAssumption DEF StoreAssumption
<1>1. ASSUME NEW c \in Clients, GetPage(c) PROVE LockOwned'
    BY <1>1 DEF GetPage
<1>2. ASSUME NEW c \in Clients, NEW op, NEW p, NEW s, NEW i, BeginTx(c, op, p, s, i),
             UNCHANGED <<pageRow, lockedBy>>
      PROVE  LockOwned'
    BY <1>2 DEF BeginTx, Idle
<1>3. ASSUME NEW c \in Clients, End(c), UNCHANGED pageRow PROVE LockOwned'
    BY <1>3 DEF End
<1>4. ASSUME NEW c \in Clients, NEW b \in {pageRow.page, Null}, lockedBy = Null,
             pageRow.state = "live", tx[c] \in Tx, Lock(c, b), UNCHANGED pageRow
      PROVE  LockOwned'
    BY <1>4 DEF Lock, Tx
<1>5. ASSUME NEW c \in Clients, EnsureUnchanged(c) PROVE LockOwned'
    BY <1>5, <1>3, <1>4 DEF EnsureUnchanged, Waiting
<1>6. ASSUME NEW c \in Clients, PreviousPage(c) PROVE LockOwned'
    <2>1. tx[c] \in Tx
        BY <1>6 DEF PreviousPage, Waiting
    <2>2. CASE pageRow.state = "live"
        BY <1>6, <2>1, <2>2, <1>4 DEF PreviousPage
    <2>3. CASE pageRow.state = "binned"
        BY <1>6, <2>3, <1>3 DEF PreviousPage
    <2>4. CASE pageRow.state = "absent"
        BY <1>6, <2>1, <2>4 DEF PreviousPage, Tx
    <2> QED
        BY <2>2, <2>3, <2>4 DEF Row
<1>7. ASSUME NEW c \in Clients, FindCreated(c) PROVE LockOwned'
    BY <1>7, <1>3, <1>4 DEF FindCreated
<1>8. ASSUME NEW c \in Clients, CreatePage(c) PROVE LockOwned'
    BY <1>8 DEF CreatePage, End
<1>9. ASSUME NEW c \in Clients, CommitSave(c) PROVE LockOwned'
    BY <1>9 DEF CommitSave, Locked, End
<1>10. ASSUME NEW c \in Clients, LockIncomingLink(c) PROVE LockOwned'
    BY <1>10, <1>3, <1>4 DEF LockIncomingLink, Waiting
<1>11. ASSUME NEW c \in Clients, CommitIncomingLink(c) PROVE LockOwned'
    BY <1>11 DEF CommitIncomingLink, Locked, End
<1>12. ASSUME NEW c \in Clients, SavePageRender(c) PROVE LockOwned'
    BY <1>12 DEF SavePageRender, End
<1>13. CASE Administration
    BY <1>13 DEF Administration, BulkSetPageStatus, BulkAddPageTag, DeletePage,
                 RestorePage, PermanentlyDeletePage
<1>14. ASSUME NEW c \in Clients, Rollback(c) PROVE LockOwned'
    BY <1>14, <1>3 DEF Rollback
<1>15. CASE UNCHANGED vars
    BY <1>15 DEF vars
<1>16. ASSUME NEW c \in Clients, NEW p, SavePage(c, p) \/ SavePageIfUnchanged(c, p)
       PROVE  LockOwned'
    BY <1>16, <1>2 DEF SavePage, SavePageIfUnchanged
<1>17. ASSUME NEW c \in Clients, ReadIncomingLink(c) \/ ReadForRender(c)
       PROVE  LockOwned'
    BY <1>17, <1>2 DEF ReadIncomingLink, ReadForRender
<1> QED
    BY <1>1, <1>5, <1>6, <1>7, <1>8, <1>9, <1>10, <1>11, <1>12, <1>13, <1>14, <1>15,
       <1>16, <1>17
    DEF Next, Editing, Rewriting, Rendering, RestoreRevision

-----------------------------------------------------------------------------
(* Version tokens *)

\* The row still is the version it was.
SameVersion ==
    /\ pageRow'.stamp = pageRow.stamp /\ pageRow'.id = pageRow.id
    /\ pageRow'.page.md = pageRow.page.md /\ pageRow'.page.status = pageRow.page.status

\* The row is a version nobody has seen.
NewVersion == pageRow'.stamp = clock + 1

\* The row changes its source or status only under a new token.
LEMMA RowStep ==
    ASSUME TypeOK, LockOwned, [Next]_vars
    PROVE  /\ SameVersion \/ (NewVersion /\ clock' = clock + 1)
           /\ clock' \in {clock, clock + 1}
<1> USE DEF TypeOK, SameVersion, NewVersion
<1>1. ASSUME NEW c \in Clients, CreatePage(c)
      PROVE  NewVersion /\ clock' = clock + 1
    BY <1>1 DEF CreatePage
<1>2. ASSUME NEW c \in Clients, CommitSave(c)
      PROVE  IF tx[c].before = tx[c].page
             THEN SameVersion /\ clock' = clock
             ELSE NewVersion /\ clock' = clock + 1
    <2>1. /\ tx[c] \in Tx
          /\ tx[c].before \in {pageRow.page, Null}
          /\ tx[c].page \in Fields
        BY <1>2 DEF CommitSave, Locked, LockOwned, Tx
    <2>2. CASE tx[c].before = tx[c].page
        <3>1. PICK a : pageRow' = [pageRow EXCEPT !.page = tx[c].page, !.art = a, !.stamp = @]
            BY <1>2, <2>2 DEF CommitSave
        <3>2. pageRow.page = tx[c].page
            BY <2>1, <2>2, StoreAssumption DEF StoreAssumption
        <3> QED
            BY <1>2, <2>2, <3>1, <3>2 DEF Row, CommitSave
    <2>3. CASE tx[c].before # tx[c].page
        <3>1. PICK a :
                pageRow' = [pageRow EXCEPT !.page = tx[c].page, !.art = a, !.stamp = clock + 1]
            BY <1>2, <2>3 DEF CommitSave
        <3> QED
            BY <1>2, <2>3, <3>1 DEF Row, CommitSave
    <2> QED
        BY <2>2, <2>3
<1>3. ASSUME NEW c \in Clients, CommitIncomingLink(c)
      PROVE  NewVersion /\ clock' = clock + 1
    BY <1>3 DEF CommitIncomingLink, Row
<1>4. ASSUME NEW c \in Clients, SavePageRender(c) PROVE SameVersion /\ clock' = clock
    BY <1>4 DEF SavePageRender, Row
<1>5. ASSUME NEW s \in Statuses, BulkSetPageStatus(s)
      PROVE  NewVersion /\ clock' = clock + 1
    BY <1>5 DEF BulkSetPageStatus, Row
<1>6. ASSUME NEW t \in Tags, BulkAddPageTag(t) PROVE SameVersion /\ clock' = clock
    <2>1. pageRow' = [pageRow EXCEPT !.page = [pageRow.page EXCEPT !.tags = @ \cup {t}]]
        BY <1>6 DEF BulkAddPageTag
    <2> QED
        BY <1>6, <2>1 DEF BulkAddPageTag, Row, Fields
<1>7. CASE DeletePage \/ RestorePage \/ PermanentlyDeletePage
    BY <1>7 DEF DeletePage, RestorePage, PermanentlyDeletePage, Row
<1>8. ASSUME UNCHANGED <<pageRow, clock>> PROVE SameVersion /\ clock' = clock
    BY <1>8
<1> QED
    BY <1>1, <1>2, <1>3, <1>4, <1>5, <1>6, <1>7, <1>8
    DEF Next, Editing, Rewriting, Rendering, Administration, vars, GetPage, SavePage,
        SavePageIfUnchanged, RestoreRevision, EnsureUnchanged, PreviousPage, FindCreated,
        ReadIncomingLink, LockIncomingLink, ReadForRender, Rollback

\* Every token that a form, a save or a render carries stays a token of the
\* version it was read from.
LEMMA VersionStep ==
    ASSUME TypeOK, LockOwned, Versions, [Next]_vars
    PROVE  Versions'
<1> USE DEF TypeOK, Versions, StampsBounded, FormsValid, ConditionalSaves, RendersValid
<1>1. /\ SameVersion \/ (NewVersion /\ clock' = clock + 1)
      /\ clock' \in {clock, clock + 1}
    BY RowStep
<1>2. /\ pageRow.stamp \in Nat /\ clock \in Nat
      /\ \A c \in Clients : opened[c] # Null => opened[c] \in Form /\ opened[c].stamp \in Nat
      /\ \A c \in Clients : tx[c] # Null => tx[c] \in Tx /\ tx[c].stamp \in Nat
    BY DEF Row, Form, Tx
<1>3. ASSUME NEW c \in Clients, GetPage(c) PROVE Versions'
    <2>1. pageRow' = pageRow /\ tx' = tx /\ clock' = clock /\ tx[c] = Null
        BY <1>3 DEF GetPage, Idle
    <2>2. \A d \in Clients : opened'[d] = opened[d] \/
            (d = c /\ opened'[d] = [page |-> pageRow.page, stamp |-> pageRow.stamp, id |-> pageRow.id])
        BY <1>3 DEF GetPage
    <2> QED
        BY <1>2, <2>1, <2>2
<1>4. ASSUME NEW c \in Clients, NEW op, NEW p, NEW n, NEW i, BeginTx(c, op, p, n, i),
             UNCHANGED <<pageRow, opened, clock>>,
             \/ op = "save" /\ n = 0
             \/ op = "saveIf" /\ opened[c] # Null /\ n = opened[c].stamp
             \/ op = "links" /\ n = pageRow.stamp
             \/ op = "render" /\ n = pageRow.stamp /\ p = pageRow.page
      PROVE  Versions'
    <2>1. \A d \in Clients : d # c => tx'[d] = tx[d]
        BY <1>4 DEF BeginTx
    <2>2. tx'[c].op = op /\ tx'[c].page = p /\ tx'[c].stamp = n /\ tx'[c].phase = "waiting"
        BY <1>4 DEF BeginTx
    <2> QED
        BY <1>2, <1>4, <2>1, <2>2
<1>5. ASSUME NEW c \in Clients, End(c), UNCHANGED opened,
             SameVersion \/ \A d \in Clients : tx'[d] # Null => tx[d].phase # "locked"
      PROVE  Versions'
    <2>1. \A d \in Clients : tx'[d] = Null \/ tx'[d] = tx[d]
        BY <1>5 DEF End
    <2> QED
        BY <1>1, <1>2, <1>5, <2>1 DEF SameVersion, NewVersion
<1>6. ASSUME NEW c \in Clients, NEW b, Lock(c, b), UNCHANGED <<pageRow, opened, clock>>,
             tx[c] \in Tx, tx[c] # Null,
             tx[c].op = "saveIf" => tx[c].stamp = pageRow.stamp
      PROVE  Versions'
    <2>1. \A d \in Clients : d # c => tx'[d] = tx[d]
        BY <1>6 DEF Lock
    <2>2. /\ tx'[c].op = tx[c].op /\ tx'[c].page = tx[c].page
          /\ tx'[c].stamp = tx[c].stamp /\ tx'[c].phase = "locked"
        BY <1>6 DEF Lock, Tx
    <2> QED
        BY <1>2, <1>6, <2>1, <2>2
<1>7. \A c \in Clients : lockedBy = Null \/ lockedBy = c =>
        \A d \in Clients \ {c} : tx[d] # Null => tx[d].phase # "locked"
    BY StoreAssumption DEF StoreAssumption, LockOwned
<1>8. ASSUME NEW c \in Clients, EnsureUnchanged(c) PROVE Versions'
    BY <1>2, <1>5, <1>6, <1>8 DEF EnsureUnchanged, Waiting, SameVersion
<1>9. ASSUME NEW c \in Clients, PreviousPage(c) PROVE Versions'
    <2>1. /\ tx[c] \in Tx /\ tx[c] # Null /\ tx[c].op = "save"
          /\ UNCHANGED <<pageRow, opened, clock>>
        BY <1>2, <1>9 DEF PreviousPage, Waiting
    <2>2. CASE pageRow.state = "live"
        BY <1>6, <1>9, <2>1, <2>2 DEF PreviousPage
    <2>3. CASE pageRow.state = "binned"
        BY <1>5, <1>9, <2>1, <2>3 DEF PreviousPage, SameVersion
    <2>4. CASE pageRow.state = "absent"
        <3>1. tx' = [tx EXCEPT ![c].phase = "creating"]
            BY <1>9, <2>4 DEF PreviousPage
        <3>2. \A d \in Clients : d # c => tx'[d] = tx[d]
            BY <3>1
        <3>3. tx'[c].op = "save" /\ tx'[c].stamp = tx[c].stamp
            BY <2>1, <3>1 DEF Tx
        <3> QED
            BY <1>2, <2>1, <3>2, <3>3
    <2> QED
        BY <2>2, <2>3, <2>4 DEF Row
<1>10. ASSUME NEW c \in Clients, FindCreated(c) PROVE Versions'
    BY <1>2, <1>5, <1>6, <1>10 DEF FindCreated, SameVersion
<1>11. ASSUME NEW c \in Clients, CreatePage(c) PROVE Versions'
    <2>1. \A d \in Clients : tx[d] # Null => tx[d].phase # "locked"
        BY <1>11 DEF CreatePage, LockOwned
    <2>2. End(c) /\ UNCHANGED opened
        BY <1>11 DEF CreatePage
    <2>3. \A d \in Clients : tx'[d] # Null => tx'[d] = tx[d]
        BY <2>2 DEF End
    <2> QED
        BY <1>5, <2>1, <2>2, <2>3
<1>12. ASSUME NEW c \in Clients, CommitSave(c) \/ CommitIncomingLink(c) PROVE Versions'
    <2>1. lockedBy = c
        BY <1>12 DEF CommitSave, CommitIncomingLink, Locked, LockOwned
    <2>2. End(c) /\ UNCHANGED opened
        BY <1>12 DEF CommitSave, CommitIncomingLink
    <2>3. \A d \in Clients : tx'[d] # Null => d # c /\ tx'[d] = tx[d]
        BY <2>2 DEF End
    <2>4. \A d \in Clients : tx'[d] # Null => tx[d].phase # "locked"
        BY <1>7, <2>1, <2>3
    <2> QED
        BY <1>5, <2>2, <2>4
<1>13. ASSUME NEW c \in Clients, LockIncomingLink(c) PROVE Versions'
    BY <1>2, <1>5, <1>6, <1>13 DEF LockIncomingLink, Waiting, SameVersion
<1>14. ASSUME NEW c \in Clients, SavePageRender(c) PROVE Versions'
    <2>1. SameVersion
        BY <1>14 DEF SavePageRender, SameVersion, Row
    <2> QED
        BY <1>5, <1>14, <2>1 DEF SavePageRender
<1>15. CASE Administration
    <2>1. UNCHANGED <<tx, opened>> /\ lockedBy = Null
        BY <1>15 DEF Administration, BulkSetPageStatus, BulkAddPageTag, DeletePage,
                     RestorePage, PermanentlyDeletePage
    <2>2. \A d \in Clients : tx[d] # Null => tx[d].phase # "locked"
        BY <2>1, StoreAssumption DEF LockOwned, StoreAssumption
    <2> QED
        BY <1>1, <1>2, <2>1, <2>2 DEF SameVersion, NewVersion
<1>16. ASSUME NEW c \in Clients, Rollback(c) PROVE Versions'
    BY <1>5, <1>16 DEF Rollback, SameVersion
<1>17. CASE UNCHANGED vars
    BY <1>17 DEF vars
<1>18. ASSUME NEW c \in Clients, NEW p, SavePage(c, p) \/ SavePageIfUnchanged(c, p)
       PROVE  Versions'
    BY <1>4, <1>18 DEF SavePage, SavePageIfUnchanged
<1>19. ASSUME NEW c \in Clients, ReadIncomingLink(c) \/ ReadForRender(c)
       PROVE  Versions'
    BY <1>4, <1>19 DEF ReadIncomingLink, ReadForRender
<1> QED
    BY <1>3, <1>8, <1>9, <1>10, <1>11, <1>12, <1>13, <1>14, <1>15, <1>16, <1>17,
       <1>18, <1>19
    DEF Next, Editing, Rewriting, Rendering, RestoreRevision

-----------------------------------------------------------------------------
(* History and artifact *)

\* A step records the source it installs, and replaces the artifact with it
\* unless it rewrites links.
LEMMA HistoryStep ==
    ASSUME TypeOK, Numbered, LockOwned, Versions, HistoryIntact, ArtifactCurrent,
           [Next]_vars
    PROVE  Numbered' /\ HistoryIntact' /\ ArtifactCurrent'
<1> DEFINE Goal == Numbered' /\ HistoryIntact' /\ ArtifactCurrent'
<1> USE DEF TypeOK
<1>1. LastNumber \in Nat /\ DOMAIN revisions = 1..LastNumber
    BY LastIsCount
\* Steps that leave the history alone.
<1>2. ASSUME revisions' = revisions, pageRow'.page.md = pageRow.page.md,
             pageRow'.state = "absent" => pageRow.state = "absent",
             pageRow.state = "absent" => pageRow'.state = "absent",
             pageRow'.art \in {pageRow.art, pageRow.page.md, Null}
      PROVE  Goal
    <2>1. LastNumber' = LastNumber
        BY <1>2 DEF LastNumber
    <2> QED
        BY <1>1, <1>2, <2>1 DEF Numbered, HistoryIntact, ArtifactCurrent
\* Steps that append a revision of the new source.
<1>3. ASSUME NEW p \in Fields, NEW by \in {"save", "links"},
             revisions' = InsertRevision(p, by), pageRow'.page.md = p.md,
             by = "save" => pageRow'.art \in {p.md, Null}
      PROVE  Goal
    <2>1. /\ Numbered' /\ LastNumber' = LastNumber + 1
          /\ DOMAIN revisions' = 1..(LastNumber + 1)
          /\ revisions'[LastNumber + 1] = [page |-> p, by |-> by]
        BY <1>3, InsertAppends
    <2> QED
        BY <1>1, <1>3, <2>1 DEF HistoryIntact, ArtifactCurrent
<1>4. ASSUME NEW c \in Clients, CreatePage(c) PROVE Goal
    <2>1. tx[c].page \in Fields
        BY <1>4 DEF CreatePage, Tx
    <2>2. pageRow'.page.md = tx[c].page.md /\ pageRow'.art \in {tx[c].page.md, Null}
        BY <1>4 DEF CreatePage, RenderOf
    <2> QED
        BY <1>3, <1>4, <2>1, <2>2 DEF CreatePage
<1>5. ASSUME NEW c \in Clients, CommitSave(c) PROVE Goal
    <2>1. /\ tx[c].page \in Fields /\ pageRow.state = "live"
          /\ tx[c].before \in {pageRow.page, Null}
        BY <1>5 DEF CommitSave, Locked, LockOwned, Tx
    <2>2. PICK a \in RenderOf(tx[c].page.md), n \in {pageRow.stamp, clock + 1} :
            pageRow' = [pageRow EXCEPT !.page = tx[c].page, !.art = a, !.stamp = n]
        BY <1>5 DEF CommitSave
    <2>3. /\ pageRow'.page = tx[c].page /\ pageRow'.state = pageRow.state
          /\ pageRow'.art \in {tx[c].page.md, Null}
        BY <2>2 DEF Row, RenderOf
    <2>4. CASE tx[c].before = tx[c].page
        <3>1. pageRow.page = tx[c].page
            BY <2>1, <2>4, StoreAssumption DEF StoreAssumption
        <3>2. revisions' = revisions
            BY <1>5, <2>4 DEF CommitSave
        <3> QED
            BY <1>2, <2>1, <2>3, <3>1, <3>2
    <2>5. CASE tx[c].before # tx[c].page
        <3>1. revisions' = InsertRevision(tx[c].page, "save")
            BY <1>5, <2>5 DEF CommitSave
        <3> QED
            BY <1>3, <2>1, <2>3, <3>1
    <2> QED
        BY <2>4, <2>5
<1>6. ASSUME NEW c \in Clients, CommitIncomingLink(c) PROVE Goal
    <2>1. tx[c].page.md \in Markdown
        BY <1>6 DEF CommitIncomingLink, Locked, Tx, Fields
    <2>2. /\ [pageRow.page EXCEPT !.md = tx[c].page.md] \in Fields
          /\ [pageRow.page EXCEPT !.md = tx[c].page.md].md = tx[c].page.md
        BY <2>1 DEF Row, Fields
    <2>3. pageRow' = [pageRow EXCEPT !.page = [pageRow.page EXCEPT !.md = tx[c].page.md],
                             !.stamp = clock + 1]
        BY <1>6 DEF CommitIncomingLink
    <2>4. pageRow'.page = [pageRow.page EXCEPT !.md = tx[c].page.md]
        BY <2>3 DEF Row
    <2> QED
        BY <1>3, <1>6, <2>2, <2>4 DEF CommitIncomingLink
<1>7. ASSUME NEW c \in Clients, SavePageRender(c) PROVE Goal
    <2>1. \/ pageRow' = pageRow
          \/ /\ tx[c].stamp = pageRow.stamp
             /\ \E a \in {tx[c].page.md, Null} : pageRow' = [pageRow EXCEPT !.art = a]
        BY <1>7 DEF SavePageRender, RenderOf
    <2>2. tx[c].stamp = pageRow.stamp => tx[c].page.md = pageRow.page.md
        BY <1>7 DEF SavePageRender, Waiting, Versions, RendersValid
    <2>3. /\ pageRow'.page = pageRow.page /\ pageRow'.state = pageRow.state
          /\ pageRow'.art \in {pageRow.art, pageRow.page.md, Null}
        BY <2>1, <2>2 DEF Row
    <2> QED
        BY <1>2, <1>7, <2>3 DEF SavePageRender
<1>8. ASSUME NEW s \in Statuses, BulkSetPageStatus(s) PROVE Goal
    <2>1. pageRow' = [pageRow EXCEPT !.page = [pageRow.page EXCEPT !.status = s], !.stamp = clock + 1]
        BY <1>8 DEF BulkSetPageStatus
    <2>2. pageRow'.page.md = pageRow.page.md /\ pageRow'.art = pageRow.art /\ pageRow'.state = pageRow.state
        BY <2>1 DEF Row, Fields
    <2> QED
        BY <1>2, <1>8, <2>2 DEF BulkSetPageStatus
<1>9. ASSUME NEW t \in Tags, BulkAddPageTag(t) PROVE Goal
    <2>1. pageRow' = [pageRow EXCEPT !.page = [pageRow.page EXCEPT !.tags = @ \cup {t}]]
        BY <1>9 DEF BulkAddPageTag
    <2>2. pageRow'.page.md = pageRow.page.md /\ pageRow'.art = pageRow.art /\ pageRow'.state = pageRow.state
        BY <2>1 DEF Row, Fields
    <2> QED
        BY <1>2, <1>9, <2>2 DEF BulkAddPageTag
<1>10. CASE DeletePage \/ RestorePage
    BY <1>2, <1>10 DEF DeletePage, RestorePage, Row
<1>11. CASE PermanentlyDeletePage
    <2>1. DOMAIN revisions' = 1..0 /\ pageRow'.state = "absent"
        BY <1>11 DEF PermanentlyDeletePage, Row
    <2>2. LastNumber' = 0
        BY <2>1, MaxOfInterval, 0 \in Nat DEF LastNumber
    <2> QED
        BY <2>1, <2>2 DEF Numbered, HistoryIntact, ArtifactCurrent
<1>12. ASSUME UNCHANGED <<pageRow, revisions>> PROVE Goal
    BY <1>2, <1>12
<1> QED
    BY <1>4, <1>5, <1>6, <1>7, <1>8, <1>9, <1>10, <1>11, <1>12
    DEF Next, Editing, Rewriting, Rendering, Administration, vars, GetPage, SavePage,
        SavePageIfUnchanged, RestoreRevision, EnsureUnchanged, PreviousPage, FindCreated,
        ReadIncomingLink, LockIncomingLink, ReadForRender, Rollback

-----------------------------------------------------------------------------
(* Theorems *)

\* The inductive invariant holds of a wiki without the page.
LEMMA InitInvariant == Init => IInv
<1> SUFFICES ASSUME Init PROVE IInv
    OBVIOUS
<1>1. DOMAIN revisions = 1..0
    BY DEF Init
<1>2. LastNumber = 0
    BY <1>1, MaxOfInterval, 0 \in Nat DEF LastNumber
<1>3. TypeOK
    BY StoreAssumption DEF StoreAssumption, Init, TypeOK, Row, Fields, Markdown
<1>4. LockOwned /\ Versions
    BY DEF Init, LockOwned, Versions, StampsBounded, FormsValid, ConditionalSaves,
           RendersValid
<1>5. Numbered /\ HistoryIntact /\ ArtifactCurrent
    BY <1>1, <1>2 DEF Init, Numbered, HistoryIntact, ArtifactCurrent
<1> QED
    BY <1>3, <1>4, <1>5 DEF IInv

\* Every state of every behaviour satisfies the inductive invariant.
THEOREM Invariance == Spec => []IInv
<1>1. IInv /\ [Next]_vars => IInv'
    BY TypeStep, LockStep, VersionStep, HistoryStep DEF IInv
<1> QED
    BY <1>1, InitInvariant, PTL DEF Spec

\* Type correctness.
THEOREM TypeCorrectness == Spec => []TypeOK
<1>1. IInv => TypeOK
    BY DEF IInv
<1> QED
    BY <1>1, Invariance, PTL

\* The history is gap-free and ends with the page's source, whatever saves, link
\* rewrites, rollbacks and deletions interleave.
THEOREM HistoryIsIntact == Spec => []HistoryIntact
<1>1. IInv => HistoryIntact
    BY DEF IInv
<1> QED
    BY <1>1, Invariance, PTL

\* No save and no late SavePageRender leaves an artifact of another source.
THEOREM ArtifactIsCurrent == Spec => []ArtifactCurrent
<1>1. IInv => ArtifactCurrent
    BY DEF IInv
<1> QED
    BY <1>1, Invariance, PTL

\* A conditional save replaces only the source and status its form was loaded
\* from.
THEOREM NoUpdateIsLost == Spec => NoLostUpdate
<1> DEFINE Seen(c) == /\ pageRow.id = opened[c].id
                      /\ pageRow.page.md = opened[c].page.md
                      /\ pageRow.page.status = opened[c].page.status
<1>1. IInv => \A c \in Clients : Locked(c, {"saveIf"}) => Seen(c)
    BY DEF IInv, Locked, Versions, ConditionalSaves, FormsValid
<1>2. IInv /\ [Next]_vars =>
        [\A c \in Clients :
            (Locked(c, {"saveIf"}) /\ tx'[c] = Null /\ pageRow' # pageRow) => Seen(c)]_vars
    BY <1>1
<1> QED
    BY <1>2, Invariance, PTL DEF Spec, NoLostUpdate
=============================================================================
