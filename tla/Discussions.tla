----------------------------- MODULE Discussions -----------------------------
(***************************************************************************)
(* What happens around a page: comments and inline suggestions, the        *)
(* notifications of mentions, replies and watches, the inbox, private      *)
(* drafts and the presence of editors.  Adding a comment commits it first  *)
(* and works off its effects afterwards, one recipient after the other,    *)
(* each with the delivery of webhooks that EXTENDS brings in.              *)
(*                                                                         *)
(* One page is modelled.  Its source is the content of a few spans, each a *)
(* number; 0 is what the page starts with.  Whoever changes the source     *)
(* adds a revision in the same transaction, so that the page and its       *)
(* newest revision are one, while a reader takes them in two statements.   *)
(* A request whose server ends is dropped.                                 *)
(***************************************************************************)
EXTENDS Webhooks, Sequences

CONSTANTS Users,
          Spans,       \* the passages of the page a suggestion can select
          Keys,        \* idempotency keys plugins use
          Mentioned,   \* the sets of users a text may mention
          InitialThreads, \* the open suggestions there may be at the start
          MaxContents,  \* bound on the contents of a span
          MaxRevisions, \* bound on revisions of the page
          MaxComments,  \* bound on comments
          MaxRows,      \* bound on notifications
          MaxRequests   \* bound on requests that begin, deletions of notifications apart

\* Suggestions about the first revision that nobody has applied yet.
Opened == [author : Users, parent : {0}, resolved : {FALSE}, applied : {FALSE},
           sug : [number : {1}, span : Spans, original : {0}, replacement : 1..MaxContents]]

ASSUME DiscussionsAssumption ==
    /\ Mentioned \subseteq SUBSET Users
    /\ {MaxContents, MaxRevisions, MaxComments, MaxRows, MaxRequests} \subseteq Nat
    /\ \A t \in InitialThreads : t \in Seq(Opened) /\ Len(t) <= MaxComments

VARIABLES
    revisions, \* page_revisions, the newest one being the page's source
    comments,  \* page_comments, in the order of their identifiers
    allowed,   \* ApplicationSettings.DiscussionsEnabled
    enabled,   \* the enabled users
    watches,   \* page_watches
    inbox,     \* notifications
    rows,      \* the last identifier given to a notification
    told,      \* history: how often webhooks were told of a user's notification with a
               \* plugin's key, less the times that user has deleted it
    drafts,    \* the base revision of page_drafts, by user
    presence,  \* page_edit_presence: "recent" or "lapsed" heartbeats
    request,   \* the request each client has under way
    begun      \* how many requests have begun

talk == <<revisions, comments, allowed, enabled, watches, inbox, rows, told, drafts, presence>>
vars == <<hookVars, talk, request, begun>>

Sources == [Spans -> 0..MaxContents]
Ids == 1..MaxComments
Suggestions == [number : Nat, span : Spans, original : 0..MaxContents, replacement : 0..MaxContents]

Newest == Len(revisions)
Source == revisions[Newest]

NoRequest == [step |-> "idle", actor |-> None, on |-> 0, to |-> {}, text |-> None, sug |-> None, key |-> None]

\* A plugin's notification is unique by recipient and key.
UniqueKeys == \A m, n \in inbox :
    m.key # None /\ m.key = n.key /\ m.user = n.user => m = n

TypeOK ==
    /\ HooksTypeOK
    /\ Newest # 0 /\ \A n \in 1..Newest : revisions[n] \in Sources
    /\ DOMAIN comments \subseteq Ids
    /\ \A k \in DOMAIN comments :
          /\ comments[k].author \in Users
          /\ comments[k].parent \in DOMAIN comments \cup {0}
          /\ comments[k].sug # None => comments[k].sug.number <= Newest
    /\ enabled \subseteq Users
    /\ \A n \in inbox : n.user \in Users /\ n.id \in 1..rows
    /\ UniqueKeys
    /\ rows \in 0..MaxRows
    /\ \A u \in Users : drafts[u] \in 0..Newest
    /\ presence \in [Users -> {"none", "recent", "lapsed"}]
    /\ begun \in 0..MaxRequests

Step(c, s) == request' = [request EXCEPT ![c].step = s]
Begin(c, r) == request[c] = NoRequest /\ Idle(c) /\ edit[c] = None /\ request' = [request EXCEPT ![c] = r]
Done(c) == request' = [request EXCEPT ![c] = NoRequest]
NoDelivery == UNCHANGED hookVars
AtStep(c, s) == request[c].step = s /\ Idle(c)

-----------------------------------------------------------------------------
(* Comments *)

\* AddComment up to its insert.  A reply names a comment of the same page.
AddComment(c, u, parent, mentions) ==
    /\ allowed
    /\ parent \in DOMAIN comments \cup {0}
    /\ Begin(c, [NoRequest EXCEPT !.step = "insert", !.actor = u, !.on = parent, !.to = mentions])
    /\ UNCHANGED talk /\ NoDelivery

AddPageComment(c) ==
    /\ AtStep(c, "insert")
    /\ Len(comments) < MaxComments
    /\ comments' = Append(comments, [author |-> request[c].actor, parent |-> request[c].on,
                                     resolved |-> FALSE, sug |-> None, applied |-> FALSE])
    /\ Step(c, "mentions")
    /\ UNCHANGED <<revisions, allowed, enabled, watches, inbox, rows, told, drafts, presence>>
    /\ NoDelivery

ResolvePageComment(k, resolved) ==
    /\ allowed
    /\ k \in DOMAIN comments
    /\ comments' = [comments EXCEPT ![k].resolved = resolved]
    /\ UNCHANGED <<revisions, allowed, enabled, watches, inbox, rows, told, drafts, presence, request>>
    /\ NoDelivery

-----------------------------------------------------------------------------
(* Inline suggestions *)

revisionMatchesPage(text) == Source = text
suggestionMatchesSource(text, g) == text[g.span] = g.original
Replaced(text, g) == [text EXCEPT ![g.span] = g.replacement]

\* AddSuggestion reads the page and locates the selection.
AddSuggestion(c, u, x, v, mentions) ==
    /\ allowed
    /\ v # Source[x]
    /\ Begin(c, [NoRequest EXCEPT !.step = "prepare", !.actor = u, !.to = mentions, !.text = Source,
          !.sug = [number |-> 0, span |-> x, original |-> Source[x], replacement |-> v]])
    /\ UNCHANGED talk /\ NoDelivery

\* The newest revision is read by another statement, and must be what the page was.
LatestRevision(c) ==
    /\ AtStep(c, "prepare")
    /\ IF revisionMatchesPage(request[c].text)
       THEN request' = [request EXCEPT ![c].step = "suggest", ![c].sug.number = Newest]
       ELSE Done(c)
    /\ UNCHANGED talk /\ NoDelivery

\* The page is locked and must still be what was read.
AddPageSuggestion(c) ==
    LET r == request[c] IN
    /\ AtStep(c, "suggest")
    /\ IF Source = r.text /\ Newest = r.sug.number
       THEN /\ Len(comments) < MaxComments
            /\ comments' = Append(comments, [author |-> r.actor, parent |-> 0, resolved |-> FALSE,
                                             sug |-> r.sug, applied |-> FALSE])
            /\ Step(c, "mentions")
       ELSE Done(c) /\ UNCHANGED comments
    /\ UNCHANGED <<revisions, allowed, enabled, watches, inbox, rows, told, drafts, presence>>
    /\ NoDelivery

\* ApplyCommentSuggestion reads the comment and the page.
ApplyCommentSuggestion(c, u, k) ==
    /\ allowed
    /\ k \in DOMAIN comments /\ comments[k].sug # None /\ ~comments[k].applied
    /\ Begin(c, [NoRequest EXCEPT !.step = "load", !.actor = u, !.on = k, !.text = Source,
                                  !.sug = comments[k].sug])
    /\ UNCHANGED talk /\ NoDelivery

\* The newest revision, and the source that results.
loadApplicableCommentSuggestion(c) ==
    LET r == request[c] IN
    /\ AtStep(c, "load")
    /\ IF r.sug.number = Newest /\ revisionMatchesPage(r.text) /\ suggestionMatchesSource(r.text, r.sug)
       THEN request' = [request EXCEPT ![c].step = "apply", ![c].text = Replaced(r.text, r.sug)]
       ELSE Done(c)
    /\ UNCHANGED talk /\ NoDelivery

\* Mutant of validateCommentSuggestion: it is enough that the passage is still there.
validatePassage(k, text) ==
    ~comments[k].applied /\ suggestionMatchesSource(Source, comments[k].sug)

\* Under the locks of page and comment: still unapplied, still current, and the
\* caller's result is what the stored suggestion makes of the stored source.
validateCommentSuggestion(k, text) ==
    LET g == comments[k].sug IN
    /\ ~comments[k].applied
    /\ g.number = Newest /\ suggestionMatchesSource(Source, g)
    /\ text = Replaced(Source, g)

ApplyPageCommentSuggestion(c) ==
    LET r == request[c] IN
    /\ AtStep(c, "apply")
    /\ IF validateCommentSuggestion(r.on, r.text)
       THEN /\ revisions' = Append(revisions, r.text)
            /\ comments' = [comments EXCEPT ![r.on].applied = TRUE]
            /\ Step(c, "watchers")
       ELSE Done(c) /\ UNCHANGED <<revisions, comments>>
    /\ UNCHANGED <<allowed, enabled, watches, inbox, rows, told, drafts, presence>>
    /\ NoDelivery

\* A save of another editor, or the link rewrite after a move: both replace the source
\* and append what they stored as a revision.
SourceChanges(x, v) ==
    /\ Newest < MaxRevisions
    /\ v # Source[x]
    /\ revisions' = Append(revisions, [Source EXCEPT ![x] = v])
    /\ UNCHANGED <<comments, allowed, enabled, watches, inbox, rows, told, drafts, presence, request>>
    /\ NoDelivery

-----------------------------------------------------------------------------
(* Notifications *)

\* Only the statement that inserted the row emits its creation.
emitCreated(c, u, k, created) ==
    IF created
    THEN /\ told' = IF k = None THEN told ELSE [told EXCEPT ![u][k] = @ + 1]
         /\ emission' = Emitting(c, "notification.created")
    ELSE UNCHANGED <<told, emission>>

\* Mutant of CreateNotification: the statement knows no conflict.
InsertNotification(c, u, kind, k) ==
    /\ rows < MaxRows
    /\ inbox' = inbox \cup {[id |-> rows + 1, user |-> u, kind |-> kind, key |-> k, read |-> FALSE]}
    /\ rows' = rows + 1
    /\ emitCreated(c, u, k, TRUE)

\* INSERT ... ON CONFLICT: a retry with a plugin's key finds the row of the first try.
CreateNotification(c, u, kind, k) ==
    IF \E n \in inbox : k # None /\ n.key = k /\ n.user = u
    THEN emitCreated(c, u, k, FALSE) /\ UNCHANGED <<inbox, rows>>
    ELSE InsertNotification(c, u, kind, k)

\* SendCore and createCore: a recipient who is disabled by now gets nothing.
SendCore(c, u, kind) ==
    IF u \in enabled THEN CreateNotification(c, u, kind, None)
    ELSE UNCHANGED <<inbox, rows, told, emission>>

EffectsLeaveAlone == UNCHANGED <<revisions, comments, allowed, enabled, watches, drafts, presence,
                                 webhook, headerIds, key, edit, deliveries>>

\* The distinct users the text mentions, the actor too.
SendMentions(c) ==
    /\ AtStep(c, "mentions")
    /\ EffectsLeaveAlone
    /\ \/ /\ request[c].to = {}
          /\ Step(c, "reply")
          /\ UNCHANGED <<inbox, rows, told, emission>>
       \/ \E u \in request[c].to :
             /\ request' = [request EXCEPT ![c].to = @ \ {u}]
             /\ SendCore(c, u, "mention")

\* The author of the comment that is answered, unless that is the actor.
NotifyReply(c) ==
    LET r == request[c] IN
    /\ AtStep(c, "reply")
    /\ EffectsLeaveAlone
    /\ Step(c, "watchers")
    /\ IF r.on # 0 /\ comments[r.on].author # r.actor
       THEN SendCore(c, comments[r.on].author, "reply")
       ELSE UNCHANGED <<inbox, rows, told, emission>>

PageWatcherUserIDs(actor) == {u \in enabled \ {actor} : watches[u] # "none"}

\* The recipients are resolved once.
notifyWatchers(c) ==
    /\ AtStep(c, "watchers")
    /\ request' = [request EXCEPT ![c].step = "watching", ![c].to = PageWatcherUserIDs(request[c].actor)]
    /\ UNCHANGED talk /\ NoDelivery

notifyUser(c) ==
    /\ AtStep(c, "watching")
    /\ EffectsLeaveAlone
    /\ \/ /\ request[c].to = {}
          /\ Step(c, "event")
          /\ UNCHANGED <<inbox, rows, told, emission>>
       \/ \E u \in request[c].to :
             /\ request' = [request EXCEPT ![c].to = @ \ {u}]
             /\ SendCore(c, u, "watch")

\* recordAudit, and the event of the comment itself.  Those of suggestions are none
\* that a webhook can ask for.
sendEvent(c) ==
    /\ AtStep(c, "event")
    /\ emission' = IF request[c].text = None THEN Emitting(c, "comment.created") ELSE emission
    /\ Done(c)
    /\ UNCHANGED <<talk, webhook, headerIds, key, edit, deliveries>>

\* SendPlugin: the recipient is looked up, and the row is inserted by another statement.
SendPlugin(c, u, k) ==
    /\ u \in enabled
    /\ Begin(c, [NoRequest EXCEPT !.step = "plugin", !.to = {u}, !.key = k])
    /\ UNCHANGED talk /\ NoDelivery

CreatePluginNotification(c) ==
    /\ AtStep(c, "plugin")
    /\ EffectsLeaveAlone
    /\ \E u \in request[c].to : CreateNotification(c, u, "plugin", request[c].key)
    /\ Done(c)

-----------------------------------------------------------------------------
(* The inbox: every statement names the row and its owner. *)

InboxOnly == UNCHANGED <<revisions, comments, allowed, enabled, watches, rows, drafts,
                         presence, request, hookVars>>

\* MarkNotificationRead, MarkNotificationUnread and OpenNotification.
MarkNotification(u, id, read) ==
    /\ \E n \in inbox : n.id = id /\ n.user = u
    /\ inbox' = {IF n.id = id THEN [n EXCEPT !.read = read] ELSE n : n \in inbox}
    /\ UNCHANGED told /\ InboxOnly

MarkAllNotificationsRead(u) ==
    /\ inbox' = {IF n.user = u THEN [n EXCEPT !.read = TRUE] ELSE n : n \in inbox}
    /\ UNCHANGED told /\ InboxOnly

DeleteNotification(u, id) ==
    /\ \E n \in inbox :
          /\ n.id = id /\ n.user = u
          /\ inbox' = inbox \ {n}
          /\ told' = IF n.key = None THEN told ELSE [told EXCEPT ![u][n.key] = @ - 1]
    /\ InboxOnly

InboxRequest(u) ==
    \/ \E id \in 1..rows, read \in BOOLEAN : MarkNotification(u, id, read)
    \/ MarkAllNotificationsRead(u)

-----------------------------------------------------------------------------
(* Drafts, presence and watches *)

EditorsOnly == UNCHANGED <<revisions, comments, allowed, enabled, inbox, rows, told, request, hookVars>>

\* The base revision is the newest one at the first autosave, and stays.
SavePageDraft(u) ==
    /\ drafts' = [drafts EXCEPT ![u] = IF @ = 0 THEN Newest ELSE @]
    /\ UNCHANGED <<watches, presence>> /\ EditorsOnly

DeletePageDraft(u) ==
    /\ drafts' = [drafts EXCEPT ![u] = 0]
    /\ UNCHANGED <<watches, presence>> /\ EditorsOnly

TouchPageEditor(u) ==
    /\ presence' = [presence EXCEPT ![u] = "recent"]
    /\ UNCHANGED <<watches, drafts>> /\ EditorsOnly

LeavePageEditor(u) ==
    /\ presence' = [presence EXCEPT ![u] = "none"]
    /\ UNCHANGED <<watches, drafts>> /\ EditorsOnly

\* No heartbeat for pageEditorPresenceTTL.
HeartbeatLapses(u) ==
    /\ presence[u] = "recent"
    /\ presence' = [presence EXCEPT ![u] = "lapsed"]
    /\ UNCHANGED <<watches, drafts>> /\ EditorsOnly

\* A watch of the page, or of a subtree it lies in.
SetPageWatch(u, scope) ==
    /\ watches' = [watches EXCEPT ![u] = scope]
    /\ UNCHANGED <<drafts, presence>> /\ EditorsOnly

EditorRequest(u) ==
    \/ SavePageDraft(u) \/ DeletePageDraft(u)
    \/ TouchPageEditor(u) \/ LeavePageEditor(u) \/ HeartbeatLapses(u)
    \/ \E scope \in {"none", "page", "subtree"} : SetPageWatch(u, scope)

-----------------------------------------------------------------------------
(* Administration and failures *)

\* An account is disabled or enabled.
SetEnabled(u) ==
    /\ enabled' = IF u \in enabled THEN enabled \ {u} ELSE enabled \cup {u}
    /\ UNCHANGED <<revisions, comments, allowed, watches, inbox, rows, told, drafts, presence,
                   request, hookVars>>

SetDiscussions ==
    /\ allowed' = ~allowed
    /\ UNCHANGED <<revisions, comments, enabled, watches, inbox, rows, told, drafts, presence,
                   request, hookVars>>

\* The servers come back with or without an encryption key; nothing under way survives.
Restart ==
    /\ \E k \in BOOLEAN : key' = k
    /\ request' = [c \in Clients |-> NoRequest]
    /\ edit' = [c \in Clients |-> None]
    /\ emission' = [c \in Clients |-> NoEmission]
    /\ UNCHANGED <<talk, webhook, headerIds, deliveries>>

-----------------------------------------------------------------------------

Init ==
    /\ HooksInit
    /\ revisions = <<[x \in Spans |-> 0]>>
    /\ comments \in InitialThreads
    /\ allowed = TRUE
    /\ enabled = Users
    /\ watches = [u \in Users |-> "page"]
    /\ inbox = {} /\ rows = 0
    /\ told = [u \in Users |-> [k \in Keys |-> 0]]
    /\ drafts = [u \in Users |-> 0]
    /\ presence = [u \in Users |-> "none"]
    /\ request = [c \in Clients |-> NoRequest]
    /\ begun = 0

DiscussionRequest(c) ==
    \/ \E u \in Users, parent \in Ids \cup {0}, m \in Mentioned : AddComment(c, u, parent, m)
    \/ \E u \in Users, x \in Spans, v \in 0..MaxContents, m \in Mentioned : AddSuggestion(c, u, x, v, m)
    \/ \E u \in Users, k \in Ids : ApplyCommentSuggestion(c, u, k)
    \/ \E u \in Users, k \in Keys : SendPlugin(c, u, k)

Other ==
    \/ \E k \in Ids, b \in BOOLEAN : ResolvePageComment(k, b)
    \/ \E u \in Users : InboxRequest(u) \/ EditorRequest(u) \/ SetEnabled(u)
    \/ SetDiscussions
    \/ Restart

ContinueRequest(c) ==
    \/ AddPageComment(c) \/ LatestRevision(c) \/ AddPageSuggestion(c)
    \/ loadApplicableCommentSuggestion(c) \/ ApplyPageCommentSuggestion(c)
    \/ SendMentions(c) \/ NotifyReply(c) \/ notifyWatchers(c) \/ notifyUser(c) \/ sendEvent(c)
    \/ CreatePluginNotification(c)

\* The source is read by suggestions alone: it changes only while one is being made or
\* applied.
SourceMatters == \E c \in Clients : request[c].step \in {"prepare", "suggest", "load", "apply"}

AdminRequest(c) == request[c] = NoRequest /\ AdminWebhookRequest(c) /\ UNCHANGED <<talk, request>>

BeginAny ==
    /\ begun < MaxRequests
    /\ begun' = begun + 1
    /\ Other \/ \E c \in Clients : DiscussionRequest(c) \/ AdminRequest(c)

Next ==
    \/ BeginAny
    \/ /\ SourceMatters
       /\ \E x \in Spans, v \in 0..MaxContents : SourceChanges(x, v)
       /\ UNCHANGED begun
    \/ \E u \in Users, id \in 1..rows : DeleteNotification(u, id) /\ UNCHANGED begun
    \/ \E c \in Clients : ContinueRequest(c) /\ UNCHANGED begun
    \/ \E c \in Clients : ContinueDelivery(c) /\ UNCHANGED <<talk, request, begun>>

Spec == Init /\ [][Next]_vars

-----------------------------------------------------------------------------

\* Every applied suggestion made the next revision of the one it was prepared on, by
\* replacing its own passage and nothing else, and of two suggestions about one revision
\* at most one is ever applied: though the comment, the page and the newest revision are
\* read one after the other and before any lock, while others save, move and apply.
SuggestionsMeetTheirRevision ==
    /\ \A k \in DOMAIN comments : comments[k].applied =>
          LET g == comments[k].sug IN
          /\ g.number < Newest
          /\ suggestionMatchesSource(revisions[g.number], g)
          /\ revisions[g.number + 1] = Replaced(revisions[g.number], g)
    /\ \A j, k \in DOMAIN comments :
          comments[j].applied /\ comments[k].applied /\ comments[j].sug.number = comments[k].sug.number => j = k

\* Webhooks hear of a notification at most once, however often a plugin retries the
\* mutation that sends it, at the same time or later, and once more only for each time
\* its recipient has deleted it.
CreationIsEmittedOnce == \A u \in Users, k \in Keys : told[u][k] <= 1
=============================================================================
