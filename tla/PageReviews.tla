---------------------------- MODULE PageReviews ----------------------------
(***************************************************************************)
(* The review workflow of one page.                                        *)
(*                                                                         *)
(* A review transaction locks the page with a statement that also reads    *)
(* the newest revision number in a subselect.  Under READ COMMITTED the    *)
(* subselect sees the statement's snapshot, taken before the lock was      *)
(* granted, while the locked row itself is read anew.  So each such        *)
(* statement is two steps: its snapshot, and the rest of the transaction   *)
(* under the lock.  A transaction that holds the page lock through several *)
(* steps is in phase "page".                                               *)
(***************************************************************************)
EXTENDS Naturals, Sequences, FiniteSets

CONSTANTS
    Clients,         \* users who request, edit and decide reviews
    Administrators,  \* those of them who may decide any review
    Statuses,        \* page lifecycle states
    MaxRevisions,    \* bound on the revisions of the page
    MaxReviews,      \* bound on its review requests
    MaxSuggestions,  \* bound on the open suggestions of one review
    None             \* no operation under way

ASSUME ReviewAssumption ==
    /\ IsFiniteSet(Clients) /\ Administrators \subseteq Clients
    /\ {"draft", "verified"} \subseteq Statuses
    /\ {MaxRevisions, MaxReviews, MaxSuggestions} \subseteq Nat

VARIABLES
    page,     \* its lifecycle status, and whether it is outside the bin
    history,  \* what made each revision, oldest first
    reviews,  \* page_review_requests by id, with their open suggestions
    tx        \* what each client is executing

reviewVars == <<page, history, reviews, tx>>

-----------------------------------------------------------------------------
Active == {"pending", "changes_requested"}
Closed == {"approved", "canceled", "superseded"}

Review == [status : Active \cup Closed,
           rev : Nat,              \* revision_number
           prev : Statuses,        \* previous_status
           by : Clients,           \* requested_by
           reviewers : SUBSET Clients,
           open : SUBSET (1..MaxSuggestions)] \* suggestions that are not applied

Tx == [op : {"request", "cancel", "decide", "comment", "apply"},
       phase : {"checked", "waiting", "page"},
       id : Nat,                   \* the review
       rev : Nat,                  \* max(revision_number) of the snapshot
       read : SUBSET (1..MaxSuggestions), \* suggestions the application loaded
       all : BOOLEAN,              \* applyAll
       assigned : BOOLEAN,         \* the reviewer assignment of the snapshot
       targets : SUBSET Clients]   \* resolved reviewers

\* resolveReviewTargets; an administrator needs no assignment.
Targets == SUBSET (Clients \ Administrators)

Newest == Len(history)

HasPending == \E i \in DOMAIN reviews : reviews[i].status = "pending"

\* PageReviewRequest: the newest review, if it is active.
ActiveReview ==
    {i \in DOMAIN reviews : i = Len(reviews) /\ reviews[i].status \in Active}

\* Nobody holds the page row.
PageFree == \A d \in Clients : tx[d] # None => tx[d].phase # "page"

End(c) == tx' = [tx EXCEPT ![c] = None]

\* A transaction whose first statement has taken its snapshot.
Start(c, op, id, read, all) ==
    /\ tx[c] = None
    /\ page.live
    /\ tx' = [tx EXCEPT ![c] =
                [op |-> op, phase |-> "waiting", id |-> id, rev |-> Newest,
                 read |-> read, all |-> all, assigned |-> FALSE, targets |-> {}]]
    /\ UNCHANGED <<page, history, reviews>>

\* The lock is granted on a page that is still there; ErrNotFound otherwise.
Granted(c, op) ==
    /\ tx[c] # None /\ tx[c].op = op /\ tx[c].phase = "waiting"
    /\ PageFree

\* supersedePageReviews
Superseded ==
    [i \in DOMAIN reviews |->
        IF reviews[i].status \in Active
        THEN [reviews[i] EXCEPT !.status = "superseded"] ELSE reviews[i]]

-----------------------------------------------------------------------------
(* Requests *)

\* RequestReview refuses while the newest review is active.
RequestReview(c, targets) ==
    /\ tx[c] = None
    /\ page.live
    /\ Len(reviews) < MaxReviews
    /\ ActiveReview = {}
    /\ tx' = [tx EXCEPT ![c] =
                [op |-> "request", phase |-> "checked", id |-> 0, rev |-> 0,
                 read |-> {}, all |-> FALSE, assigned |-> FALSE, targets |-> targets]]
    /\ UNCHANGED <<page, history, reviews>>

\* reviewPageState takes its snapshot.
ReviewPageState(c) ==
    /\ tx[c] # None /\ tx[c].phase = "checked"
    /\ tx' = [tx EXCEPT ![c].phase = "waiting", ![c].rev = Newest]
    /\ UNCHANGED <<page, history, reviews>>

\* RequestPageReview under the lock: the unique index admits one pending review.
RequestPageReview(c) ==
    /\ Granted(c, "request")
    /\ IF page.live /\ ~HasPending /\ Len(reviews) < MaxReviews
       THEN /\ reviews' = Append(reviews,
                 [status |-> "pending", rev |-> tx[c].rev, prev |-> page.status,
                  by |-> c, reviewers |-> tx[c].targets, open |-> {}])
            /\ page' = [page EXCEPT !.status = "draft"]
       ELSE UNCHANGED <<reviews, page>>
    /\ End(c)
    /\ UNCHANGED history

\* Its requester and administrators manage a pending review.
CanManageReview(c, id) ==
    reviews[id].status = "pending" /\ (c \in Administrators \/ reviews[id].by = c)

replacePageReviewers(id, targets) ==
    reviews' = [reviews EXCEPT ![id].reviewers = targets]

\* UpdatePageReview locks the review row only.
UpdatePageReview(id, targets) ==
    /\ page.live
    /\ reviews[id].status = "pending"
    /\ replacePageReviewers(id, targets)
    /\ UNCHANGED <<page, history, tx>>

\* Who may manage a review does not change: one step with the update.
UpdateReview(c, id, targets) == CanManageReview(c, id) /\ UpdatePageReview(id, targets)

\* CancelReview and the snapshot of lockReviewPage.
CancelReview(c, id) ==
    /\ CanManageReview(c, id)
    /\ Start(c, "cancel", id, {}, FALSE)

\* CancelPageReview: the former status comes back if nothing seems to have changed.
CancelPageReview(c) ==
    /\ Granted(c, "cancel")
    /\ LET id == tx[c].id IN
       IF page.live /\ reviews[id].status = "pending"
       THEN /\ reviews' = [reviews EXCEPT ![id].status = "canceled"]
            /\ page' = IF reviews[id].rev = tx[c].rev /\ page.status = "draft"
                       THEN [page EXCEPT !.status = reviews[id].prev]
                       ELSE page
       ELSE UNCHANGED <<reviews, page>>
    /\ End(c)
    /\ UNCHANGED history

-----------------------------------------------------------------------------
(* Decisions *)

\* CanReviewPage, for an assigned reviewer of the pending request.
CanReview(c) ==
    \/ c \in Administrators
    \/ \E i \in DOMAIN reviews :
            reviews[i].status = "pending" /\ c \in reviews[i].reviewers

\* DecideReview and the snapshot of lockReviewPage.
DecideReview(c, id) ==
    /\ CanReview(c)
    /\ Start(c, "decide", id, {}, FALSE)

\* lockReviewPage is granted; lockReviewDecision takes the snapshot in which it
\* looks for the reviewer's assignment.
LockReviewPage(c) ==
    /\ Granted(c, "decide")
    /\ IF page.live
       THEN tx' = [tx EXCEPT ![c].phase = "page",
                             ![c].assigned = c \in Administrators
                                    \cup reviews[tx[c].id].reviewers]
       ELSE End(c)
    /\ UNCHANGED <<page, history, reviews>>

markPageReviewApproved(decision) ==
    IF decision = "approved" THEN [page EXCEPT !.status = "verified"] ELSE page

\* Fault: validateReviewDecisionState trusts the revision comparison alone.
DecisionWithoutStatusCheck(c, decision) ==
    /\ tx[c] # None /\ tx[c].op = "decide" /\ tx[c].phase = "page"
    /\ LET r == reviews[tx[c].id] IN
       IF r.rev = tx[c].rev /\ tx[c].assigned
       THEN /\ reviews' = [reviews EXCEPT ![tx[c].id].status = decision]
            /\ page' = markPageReviewApproved(decision)
       ELSE UNCHANGED <<reviews, page>>
    /\ End(c)
    /\ UNCHANGED history

\* validateReviewDecisionState and persistReviewDecision, under both locks.
DecidePageReview(c, decision) ==
    /\ tx[c] # None /\ tx[c].op = "decide" /\ tx[c].phase = "page"
    /\ LET r == reviews[tx[c].id] IN
       IF r.status = "pending" /\ r.rev = tx[c].rev /\ tx[c].assigned
       THEN /\ reviews' = [reviews EXCEPT ![tx[c].id].status = decision]
            /\ page' = markPageReviewApproved(decision)
       ELSE UNCHANGED <<reviews, page>>       \* ErrStaleReview, Closed, Forbidden
    /\ End(c)
    /\ UNCHANGED history

-----------------------------------------------------------------------------
(* Feedback *)

\* withReviewPermissions: reviewers suggest, managers comment too and apply.
CanSuggest(c, id) == reviews[id].status = "pending" /\ CanReview(c)
CanApply(c, id) == CanManageReview(c, id)

\* AddReviewComment of a suggestion; other comments meet no later step.
AddReviewComment(c, id) ==
    /\ CanSuggest(c, id)
    /\ Cardinality(reviews[id].open) + Cardinality({d \in Clients : tx[d] # None /\ tx[d].op = "comment"})
            < MaxSuggestions
    /\ Start(c, "comment", id, {}, FALSE)

insertPageReviewComment(id) ==
    [reviews EXCEPT ![id].open = @ \cup {Cardinality(@) + 1}]

\* AddPageReviewComment with validateCurrentReviewRevision.
AddPageReviewComment(c) ==
    /\ Granted(c, "comment")
    /\ LET r == reviews[tx[c].id] IN
       reviews' = IF page.live /\ r.status = "pending" /\ r.rev = tx[c].rev
                  THEN insertPageReviewComment(tx[c].id) ELSE reviews
    /\ End(c)
    /\ UNCHANGED <<page, history>>

\* Those named, or all of the open ones; nothing when one named is not open.
selectedReviewSuggestions(id, selected) ==
    IF selected = {} THEN reviews[id].open
    ELSE IF selected \subseteq reviews[id].open THEN selected ELSE {}

\* applyReviewSuggestions loads the review with its suggestions and merges
\* the selected ones into the reviewed source.
ApplyReviewSuggestions(c, id, selected) ==
    /\ Newest < MaxRevisions
    /\ CanApply(c, id)
    /\ selectedReviewSuggestions(id, selected) # {}
    /\ Start(c, "apply", id, selectedReviewSuggestions(id, selected), selected = {})

\* applyPreparedPageUpdate: a new revision supersedes the reviews, and the
\* applied suggestions are marked.
ApplyPreparedPageUpdate(id, applied) ==
    /\ history' = Append(history, "save")
    /\ reviews' = [Superseded EXCEPT ![id].open = @ \ applied]

\* Fault: prepareReviewSuggestionApplication compares revision numbers only, and
\* not the source and the suggestions it finds under the lock.
ApplyUnverified(c) ==
    /\ Granted(c, "apply")
    /\ LET id == tx[c].id
           r  == reviews[id]
       IN  IF page.live /\ r.status = "pending" /\ tx[c].rev = r.rev
           THEN ApplyPreparedPageUpdate(id, tx[c].read)
           ELSE UNCHANGED <<history, reviews>>
    /\ End(c)
    /\ UNCHANGED page

lockOpenReviewSuggestions(c) ==
    IF tx[c].all THEN reviews[tx[c].id].open ELSE reviews[tx[c].id].open \cap tx[c].read

sameReviewSuggestionIDs(expected, actual) == expected = actual

\* prepareReviewSuggestionApplication and the update.  The merged
\* source equals the one merged under the lock only if the page still has the
\* source of the reviewed revision: rewriting links changes it.
ApplyPageReviewSuggestions(c) ==
    /\ Granted(c, "apply")
    /\ LET id == tx[c].id
           r  == reviews[id]
       IN  IF /\ page.live /\ r.status = "pending"
              /\ tx[c].rev = r.rev               \* validateReviewRevision
              /\ sameReviewSuggestionIDs(tx[c].read, lockOpenReviewSuggestions(c))
              /\ Newest = r.rev                    \* markdown = expectedMarkdown
           THEN ApplyPreparedPageUpdate(id, tx[c].read)
           ELSE UNCHANGED <<history, reviews>>
    /\ End(c)
    /\ UNCHANGED page

-----------------------------------------------------------------------------
(* Other writers of the page *)

\* Fault: executePageSaveTransaction does not call supersedePageReviews.
SaveWithoutSupersede(status) ==
    /\ PageFree /\ page.live /\ Newest < MaxRevisions
    /\ history' = Append(history, "save")
    /\ page' = [page EXCEPT !.status = status]
    /\ UNCHANGED <<reviews, tx>>

\* A save that changes something.
SavePage(status) ==
    /\ PageFree /\ page.live /\ Newest < MaxRevisions
    /\ history' = Append(history, "save")
    /\ page' = [page EXCEPT !.status = status]
    /\ reviews' = Superseded
    /\ UNCHANGED tx

\* rewriteIncomingWikiLinks: a revision that supersedes no review.
RewriteLinks ==
    /\ PageFree /\ page.live /\ Newest < MaxRevisions
    /\ history' = Append(history, "links")
    /\ UNCHANGED <<page, reviews, tx>>

BulkSetPageStatus(status) ==
    /\ PageFree /\ page.live
    /\ page' = [page EXCEPT !.status = status]
    /\ UNCHANGED <<history, reviews, tx>>

\* DeletePage and RestorePage
SetLive(live) ==
    /\ PageFree /\ page.live # live
    /\ page' = [page EXCEPT !.live = live]
    /\ UNCHANGED <<history, reviews, tx>>

\* A canceled request: deferred tx.Rollback.
Rollback(c) ==
    /\ tx[c] # None
    /\ End(c)
    /\ UNCHANGED <<page, history, reviews>>

-----------------------------------------------------------------------------
\* A page with its first revision and no review.
ReviewInit ==
    /\ page \in [live : {TRUE}, status : Statuses]
    /\ history = <<"save">>
    /\ reviews = <<>>
    /\ tx = [c \in Clients |-> None]

Requesting(c) ==
    \/ \E targets \in Targets : RequestReview(c, targets)
    \/ ReviewPageState(c) \/ RequestPageReview(c)
    \/ \E id \in DOMAIN reviews :
          CancelReview(c, id) \/ \E targets \in Targets : UpdateReview(c, id, targets)
    \/ CancelPageReview(c)

Deciding(c) ==
    \/ \E id \in DOMAIN reviews : DecideReview(c, id)
    \/ LockReviewPage(c)
    \/ \E decision \in {"approved", "changes_requested"} : DecidePageReview(c, decision)

Commenting(c) ==
    \/ \E id \in DOMAIN reviews :
          \/ AddReviewComment(c, id)
          \/ \E selected \in SUBSET (1..MaxSuggestions) : ApplyReviewSuggestions(c, id, selected)
    \/ AddPageReviewComment(c) \/ ApplyPageReviewSuggestions(c)

Writing ==
    \/ \E s \in Statuses : SavePage(s) \/ BulkSetPageStatus(s)
    \/ RewriteLinks
    \/ \E live \in BOOLEAN : SetLive(live)

ReviewNext ==
    \/ \E c \in Clients : Requesting(c) \/ Deciding(c) \/ Commenting(c) \/ Rollback(c)
    \/ Writing

ReviewSpec == ReviewInit /\ [][ReviewNext]_reviewVars

-----------------------------------------------------------------------------
(* Properties *)

\* Every variable has its type; a review is about a revision that exists.
ReviewTypeOK ==
    /\ page \in [live : BOOLEAN, status : Statuses]
    /\ history \in Seq({"save", "links"})
    /\ \A i \in DOMAIN reviews : reviews[i] \in Review /\ reviews[i].rev \in 1..Newest
    /\ tx \in [Clients -> Tx \cup {None}]

Decided(i) ==
    /\ reviews[i].status = "pending"
    /\ reviews'[i].status \in {"approved", "changes_requested"}

Restored(i) ==
    /\ reviews[i].status = "pending" /\ reviews'[i].status = "canceled"
    /\ page'.status # page.status

\* A decision, and a cancellation that puts the former status back, never pass
\* over a save: every revision after the reviewed one comes from link rewriting
\* (lockReviewPage, validateReviewDecisionState, supersedePageReviews).
OutcomeSeesSaves ==
    [][\A i \in DOMAIN reviews : Decided(i) \/ Restored(i) =>
         \A n \in (reviews[i].rev + 1)..Newest : history[n] = "links"]_reviewVars

\* A closed review is a record: whatever decision, cancellation, update or
\* feedback was under way when it closed, it never changes again.
ClosedIsFinal ==
    [][\A i \in DOMAIN reviews :
         reviews[i].status \in Closed => reviews'[i] = reviews[i]]_reviewVars

Applies(c) == tx[c] # None /\ tx[c].op = "apply" /\ history' # history /\ tx'[c] = None

\* Suggestions are applied to the very revision they were made on, and "apply
\* all" leaves no suggestion behind on the review it closes.
AppliedOnReviewed ==
    [][\A c \in Clients : Applies(c) =>
         /\ reviews[tx[c].id].rev = Newest
         /\ tx[c].all => reviews'[tx[c].id].open = {}]_reviewVars

-----------------------------------------------------------------------------
(* What comments of the code promise and the code does not keep. *)

\* "RequestPageReview opens a review for the current revision".
ReviewOpensOnHead ==
    [][Len(reviews') > Len(reviews) => reviews'[Len(reviews')].rev = Newest]_reviewVars

\* "lockReviewPage locks the page before its review row and returns the current
\* revision": so a decision is about the current revision.
DecidesOnHead ==
    [][\A i \in DOMAIN reviews : Decided(i) => reviews[i].rev = Newest]_reviewVars

\* "validateReviewDecisionState verifies freshness, openness, and reviewer
\* assignment": only an assigned reviewer or an administrator decides.
AssignedDecides ==
    [][\A c \in Clients, i \in DOMAIN reviews :
         (Decided(i) /\ tx[c] # None /\ tx'[c] = None)
            => c \in Administrators \cup reviews[i].reviewers]_reviewVars

\* "reviewer feedback must be addressed before another request": no review is
\* pending beside one whose changes were not made.
FeedbackAddressed ==
    ~(HasPending /\ \E i \in DOMAIN reviews : reviews[i].status = "changes_requested")
=============================================================================
