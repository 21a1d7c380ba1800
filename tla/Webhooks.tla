------------------------------ MODULE Webhooks ------------------------------
(***************************************************************************)
(* Outgoing webhooks: their configuration with encrypted request headers,  *)
(* and the delivery of events.  An event is emitted inside the request     *)
(* that caused it, after that request has committed: the webhooks are      *)
(* listed once and served one after the other, each with its retries, and  *)
(* nothing of it survives the end of the server.                           *)
(*                                                                         *)
(* A webhook has at most one header.  Of its value only the form matters,  *)
(* in which the column stores it: plain, or encrypted.                     *)
(***************************************************************************)
EXTENDS Naturals, FiniteSets

CONSTANTS Hooks,    \* the rows of webhooks there may be
          Clients,  \* requests under way at a time
          None,
          MaxRetry, \* bound on configured retries
          MaxIds    \* bound on the identifiers of header rows

ASSUME WebhooksAssumption == MaxRetry \in Nat /\ MaxIds \in Nat \ {0}

Events == {"notification.created", "comment.created"}

VARIABLES
    webhook,    \* webhooks with their webhook_headers
    headerIds,  \* the last identifier given to a header row
    key,        \* whether an encryption key is configured
    edit,       \* the form each client has submitted and not yet stored
    emission,   \* the event each client is delivering
    deliveries  \* webhook_deliveries: the newest row of each webhook

hookVars == <<webhook, headerIds, key, edit, emission, deliveries>>

Forms == {"plain", "cipher"}
Headers == [id : 1..MaxIds, sensitive : BOOLEAN, form : Forms]
Absent == [exists |-> FALSE, events |-> {}, retries |-> 0, enabled |-> FALSE, header |-> None]
Rows == [exists : {TRUE}, events : (SUBSET Events) \ {{}}, retries : 0..MaxRetry,
         enabled : BOOLEAN, header : Headers \cup {None}]

NoEmission == [step |-> "idle", event |-> None, left |-> {}, now |-> None, attempts |-> 0]

HooksTypeOK ==
    /\ webhook \in [Hooks -> Rows \cup {Absent}]
    /\ headerIds \in 0..MaxIds
    /\ key \in BOOLEAN
    /\ \A c \in Clients : emission[c].step \in {"idle", "headers", "next", "send"}
    /\ deliveries \in [Hooks -> [attempts : 0..(MaxRetry + 1), ok : BOOLEAN] \cup {None}]
    /\ \A h \in Hooks : deliveries[h] # None => webhook[h].exists
    /\ \A h \in Hooks : webhook[h].header # None => webhook[h].header.id <= headerIds

HooksInit ==
    /\ \E h \in Hooks :
          webhook = [x \in Hooks |-> IF x = h
             THEN [exists |-> TRUE, events |-> Events, retries |-> MaxRetry, enabled |-> TRUE,
                   header |-> [id |-> 1, sensitive |-> TRUE, form |-> "cipher"]]
             ELSE Absent]
    /\ headerIds = 1
    /\ key = TRUE
    /\ edit = [c \in Clients |-> None]
    /\ emission = [c \in Clients |-> NoEmission]
    /\ deliveries = [h \in Hooks |-> None]

-----------------------------------------------------------------------------
(* Configuration *)

\* What a header row of the form says: which stored row it stands for (0: none),
\* whether it is sensitive, and whether a value was entered.
HeaderInputs == [id : 0..MaxIds, sensitive : BOOLEAN, blank : BOOLEAN]
WebhookInputs == [events : SUBSET Events, retries : 0..MaxRetry, enabled : BOOLEAN,
                  header : HeaderInputs \cup {None}]

validateWebhookInput(i) == i.events # {}

\* Mutant of preserveWebhookHeaderValue: a header that is sensitive no longer keeps its value.
preserveUnmarked(previous, i) == previous # None /\ previous.sensitive

\* A masked value comes back blank: the stored one is kept while both sides are sensitive.
preserveWebhookHeaderValue(previous, i) ==
    previous # None /\ previous.sensitive /\ i.sensitive

existingWebhookHeader(h, id) ==
    IF webhook[h].header # None /\ webhook[h].header.id = id THEN webhook[h].header ELSE None

\* prepareWebhookHeaders refuses what the form cannot be stored as.
AcceptsHeader(h, i) ==
    LET previous == existingWebhookHeader(h, i.id) IN
    /\ i.id # 0 => previous # None
    /\ IF i.blank THEN preserveWebhookHeaderValue(previous, i) ELSE i.sensitive => key

\* The form in which the value will be stored.
prepareWebhookHeaderValue(h, i) ==
    IF i.blank THEN existingWebhookHeader(h, i.id).form
    ELSE IF i.sensitive THEN "cipher" ELSE "plain"

\* SaveWebhook validates and reads the stored headers before the transaction.
SaveWebhook(c, h, i) ==
    /\ edit[c] = None
    /\ validateWebhookInput(i)
    /\ i.header # None => AcceptsHeader(h, i.header)
    /\ edit' = [edit EXCEPT ![c] =
          [hook |-> h, create |-> ~webhook[h].exists, events |-> i.events, retries |-> i.retries,
           enabled |-> i.enabled,
           header |-> IF i.header = None THEN None
                      ELSE [sensitive |-> i.header.sensitive,
                            form |-> prepareWebhookHeaderValue(h, i.header)]]]
    /\ UNCHANGED <<webhook, headerIds, key, emission, deliveries>>

\* The header row is deleted and inserted again, under another identifier.
replaceWebhookHeaders(header) ==
    IF header = None THEN None
    ELSE [id |-> headerIds + 1, sensitive |-> header.sensitive, form |-> header.form]

\* createWebhook and updateWebhook: the row and its header in one transaction.  An
\* update of a webhook deleted meanwhile finds no row.
StoreWebhook(c) ==
    LET e == edit[c] IN
    /\ e # None
    /\ edit' = [edit EXCEPT ![c] = None]
    /\ IF e.create = ~webhook[e.hook].exists
       THEN /\ e.header # None => headerIds < MaxIds
            /\ webhook' = [webhook EXCEPT ![e.hook] =
                  [exists |-> TRUE, events |-> e.events, retries |-> e.retries,
                   enabled |-> e.enabled, header |-> replaceWebhookHeaders(e.header)]]
            /\ headerIds' = IF e.header = None THEN headerIds ELSE headerIds + 1
       ELSE UNCHANGED <<webhook, headerIds>>
    /\ UNCHANGED <<key, emission, deliveries>>

DeleteWebhook(h) ==
    /\ webhook[h].exists
    /\ webhook' = [webhook EXCEPT ![h] = Absent]
    /\ deliveries' = [deliveries EXCEPT ![h] = None]
    /\ UNCHANGED <<headerIds, key, edit, emission>>

-----------------------------------------------------------------------------
(* Delivery *)

\* Emit lists the enabled webhooks that asked for the event; their headers are read
\* by later statements.
Listed(e) ==
    {[hook |-> h, retries |-> webhook[h].retries, header |-> None] :
        h \in {x \in Hooks : webhook[x].enabled /\ e \in webhook[x].events}}

Emitting(c, e) == [emission EXCEPT ![c] = [NoEmission EXCEPT !.step = "headers", !.event = e,
                                                             !.left = Listed(e)]]

Idle(c) == emission[c].step = "idle"

\* The headers of every listed webhook, whatever became of it since.
webhookHeaders(c) ==
    /\ emission[c].step = "headers"
    /\ emission' = [emission EXCEPT ![c].step = "next",
          ![c].left = {[n EXCEPT !.header = webhook[n.hook].header] : n \in emission[c].left}]
    /\ UNCHANGED <<webhook, headerIds, key, edit, deliveries>>

\* recordWebhookDelivery: refused when the webhook is gone, and that is only logged.
Recorded(h, n, ok) ==
    IF webhook[h].exists THEN [deliveries EXCEPT ![h] = [attempts |-> n, ok |-> ok]]
    ELSE deliveries

\* The lookup of actor and recipient for the template may fail at any time.
webhookNotificationFails == TRUE

\* The form in which a request carries the header: a sensitive one is decrypted, which
\* needs the key, and fails on what was never encrypted.
webhookRequestHeaders(header) ==
    IF header = None \/ ~header.sensitive THEN header
    ELSE IF key /\ header.form = "cipher" THEN [header EXCEPT !.form = "plain"]
    ELSE [header EXCEPT !.form = "unreadable"]

Unreadable(header) == header # None /\ header.form = "unreadable"

\* A delivery that cannot be prepared, because a header cannot be decrypted or the users
\* it names cannot be looked up, ends before its first attempt, and the next is served.
deliver(c) ==
    LET e == emission[c] IN
    /\ e.step = "next"
    /\ UNCHANGED <<webhook, headerIds, key, edit>>
    /\ \/ /\ e.left = {}
          /\ emission' = [emission EXCEPT ![c] = NoEmission]
          /\ UNCHANGED deliveries
       \/ \E n \in e.left :
             LET rest == [e EXCEPT !.left = @ \ {n}]
                 header == webhookRequestHeaders(n.header)
             IN \/ /\ ~Unreadable(header)
                   /\ emission' = [emission EXCEPT ![c] =
                         [rest EXCEPT !.step = "send", !.attempts = 0, !.now = [n EXCEPT !.header = header]]]
                   /\ UNCHANGED deliveries
                \/ /\ Unreadable(header) \/ webhookNotificationFails
                   /\ emission' = [emission EXCEPT ![c] = rest]
                   /\ deliveries' = Recorded(n.hook, 0, FALSE)

\* One attempt.  A failure that may pass is tried again while retries are left.
Send(c) ==
    LET e == emission[c]
        n == e.attempts + 1
        next == [emission EXCEPT ![c] = [e EXCEPT !.step = "next", !.now = None, !.attempts = 0]]
    IN /\ e.step = "send"
       /\ UNCHANGED <<webhook, headerIds, key, edit>>
       /\ \/ /\ emission' = next
             /\ \E ok \in BOOLEAN : deliveries' = Recorded(e.now.hook, n, ok)
          \/ /\ n <= e.now.retries
             /\ emission' = [emission EXCEPT ![c].attempts = n]
             /\ UNCHANGED deliveries

\* TestWebhook sends one configured event, to a disabled webhook too.
TestWebhook(c, h, e) ==
    /\ Idle(c)
    /\ e \in webhook[h].events
    /\ emission' = [emission EXCEPT ![c] =
          [NoEmission EXCEPT !.step = "headers", !.event = e,
              !.left = {[hook |-> h, retries |-> webhook[h].retries, header |-> None]}]]
    /\ UNCHANGED <<webhook, headerIds, key, edit, deliveries>>

ContinueDelivery(c) == StoreWebhook(c) \/ webhookHeaders(c) \/ deliver(c) \/ Send(c)

AdminWebhookRequest(c) ==
    \/ \E h \in Hooks, i \in WebhookInputs : SaveWebhook(c, h, i)
    \/ \E h \in Hooks : DeleteWebhook(h)
    \/ \E h \in Hooks, e \in Events : TestWebhook(c, h, e)

-----------------------------------------------------------------------------

\* What the list of webhooks shows of a header, and what revealing it shows.
maskedWebhookHeaders(header) == IF header.sensitive THEN "masked" ELSE header.form
RevealWebhookHeader(header) ==
    IF ~header.sensitive THEN header.form
    ELSE IF key /\ header.form = "cipher" THEN "plain" ELSE "refused"

\* Whatever several administrators keep of each other's headers with forms loaded before
\* or after a save: no ciphertext is taken for a value, shown as one or sent as one, and
\* while a key is configured every stored header can be read and sent.
HeadersMatchTheirMark ==
    /\ \A h \in Hooks : webhook[h].header # None =>
          /\ maskedWebhookHeaders(webhook[h].header) # "cipher"
          /\ RevealWebhookHeader(webhook[h].header) = IF webhook[h].header.sensitive /\ ~key THEN "refused" ELSE "plain"
    /\ \A c \in Clients : emission[c].now # None /\ emission[c].now.header # None =>
          emission[c].now.header.form = "plain"
=============================================================================
