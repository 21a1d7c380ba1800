--------------------------- MODULE DiscussionsProofs ---------------------------
(***************************************************************************)
(* What holds of webhooks, comments, suggestions and notifications for any *)
(* users, clients, webhooks, spans and plugin keys.  HInv is the invariant *)
(* of webhooks: in which form a header is wherever it is on its way.  DInv *)
(* adds what a request between two transactions relies on.                 *)
(***************************************************************************)
EXTENDS Discussions, FiniteSetTheorems, TLAPS

(* Webhooks *)

\* A header that is marked sensitive is encrypted, and no other one.
Matches(x) == x.form = IF x.sensitive THEN "cipher" ELSE "plain"

\* A header as a row holds it, as a form is to store it, and as a request sends it.
Stored == {x \in Headers : Matches(x)} \cup {None}
Prepared == {x \in [sensitive : BOOLEAN, form : Forms] : Matches(x)} \cup {None}
Sent == {x \in Headers : x.form = "plain"} \cup {None}

Edit == [hook : Hooks, create : BOOLEAN, events : (SUBSET Events) \ {{}}, retries : 0..MaxRetry,
         enabled : BOOLEAN, header : Prepared]

Listing(headers) == [hook : Hooks, retries : 0..MaxRetry, header : headers]

Emission == [step : {"idle", "headers", "next", "send"}, event : Events \cup {None},
             left : SUBSET Listing(Stored), now : Listing(Sent) \cup {None}, attempts : 0..MaxRetry]

HInv ==
    /\ HooksTypeOK
    /\ \A h \in Hooks : webhook[h].header \in Stored
    /\ edit \in [Clients -> Edit \cup {None}]
    /\ emission \in [Clients -> Emission]
    /\ \A c \in Clients : emission[c].step = "send" => emission[c].now \in Listing(Sent)

(* Discussions *)

Steps == {"idle", "insert", "mentions", "reply", "watchers", "watching", "event",
          "prepare", "suggest", "load", "apply", "plugin"}

Kinds == {"mention", "reply", "watch", "plugin"}

Comment == [author : Users, parent : Ids \cup {0}, resolved : BOOLEAN, sug : Suggestions \cup {None},
            applied : BOOLEAN]

Request == [step : Steps, actor : Users \cup {None}, on : Ids \cup {0}, to : SUBSET Users,
            text : Sources \cup {None}, sug : Suggestions \cup {None}, key : Keys \cup {None}]

\* What the steps of a request rely on: whose it is, the comment it answers among
\* those there are, and a suggestion about a revision there is.
Sound(r, thread, newest) ==
    /\ r.step \notin {"idle", "plugin"} => r.actor \in Users
    /\ r.on \in DOMAIN thread \cup {0}
    /\ r.step \in {"load", "apply"} => r.on \in DOMAIN thread /\ thread[r.on].sug = r.sug
    /\ r.step \in {"prepare", "suggest", "load", "apply"} =>
          /\ r.text \in Sources
          /\ r.sug \in Suggestions /\ r.sug.number <= newest

\* Comments stay, with what they suggest.
Keeps(thread, later) ==
    /\ DOMAIN thread \subseteq DOMAIN later
    /\ \A k \in DOMAIN thread : later[k].sug = thread[k].sug

Requests ==
    /\ request \in [Clients -> Request]
    /\ \A c \in Clients : Sound(request[c], comments, Newest)

PageOK ==
    /\ revisions \in Seq(Sources)
    /\ Newest \in Nat \ {0}

\* Comments answer comments there are, and suggest about revisions there are.
Thread ==
    /\ DOMAIN comments \subseteq Ids
    /\ comments \in Seq(Comment)
    /\ \A k \in DOMAIN comments :
          /\ comments[k] \in Comment
          /\ comments[k].parent \in DOMAIN comments \cup {0}
          /\ comments[k].sug # None => comments[k].sug.number <= Newest

\* A plugin's notification was announced once for the row that there is, and otherwise as
\* often as it was deleted.
Present(u, k) == \E n \in inbox : k # None /\ n.key = k /\ n.user = u

Inbox ==
    /\ rows \in 0..MaxRows
    /\ inbox \subseteq [id : 1..rows, user : Users, kind : Kinds, key : Keys \cup {None}, read : BOOLEAN]
    /\ UniqueKeys
    /\ told \in [Users -> [Keys -> 0..1]]
    /\ \A u \in Users, k \in Keys : k # None => (told[u][k] = 1 <=> Present(u, k))

Editors ==
    /\ enabled \subseteq Users
    /\ watches \in [Users -> {"none", "page", "subtree"}]
    /\ drafts \in [Users -> Nat] /\ \A u \in Users : drafts[u] <= Newest
    /\ presence \in [Users -> {"none", "recent", "lapsed"}]

TInv == PageOK /\ Thread /\ Requests /\ Inbox /\ Editors /\ begun \in 0..MaxRequests

DInv == HInv /\ TInv

-----------------------------------------------------------------------------
(* HInv *)

LEMMA HooksInitInvariant == HooksInit => HInv
<1> SUFFICES ASSUME HooksInit PROVE HInv
  OBVIOUS
<1> DEFINE header == [id |-> 1, sensitive |-> TRUE, form |-> "cipher"]
           first == [exists |-> TRUE, events |-> Events, retries |-> MaxRetry, enabled |-> TRUE, header |-> header]
<1>1. PICK h \in Hooks : webhook = [x \in Hooks |-> IF x = h THEN first ELSE Absent]
  BY DEF HooksInit
<1>2. header \in Headers /\ Matches(header) /\ MaxRetry \in 0..MaxRetry /\ 1 \in 0..MaxIds
  BY WebhooksAssumption DEF Headers, Forms, Matches
<1>3. first \in Rows
  BY <1>2 DEF Rows, Events
<1>4. webhook \in [Hooks -> Rows \cup {Absent}]
  BY <1>1, <1>3
<1>5. \A x \in Hooks : /\ webhook[x].header \in {header, None}
                       /\ webhook[x].header = header \/ webhook[x] = Absent
  BY <1>1 DEF Absent
<1>6. NoEmission \in Emission /\ NoEmission.step # "send" /\ NoEmission.step = "idle"
  BY WebhooksAssumption DEF NoEmission, Emission
<1>7. HooksTypeOK
  <2>1. \A x \in Hooks : webhook[x].header # None => webhook[x].header.id <= headerIds
    BY <1>5 DEF HooksInit
  <2> QED
    BY <1>2, <1>4, <1>6, <2>1 DEF HooksInit, HooksTypeOK
<1>8. \A x \in Hooks : webhook[x].header \in Stored
  BY <1>2, <1>5 DEF Stored
<1> QED
  BY <1>6, <1>7, <1>8 DEF HooksInit, HInv

\* A header that is kept under the mark it had, or prepared under a new one, is in the
\* form its mark says.
LEMMA PreparedMatches ==
    ASSUME HInv, NEW h \in Hooks, NEW i \in HeaderInputs, AcceptsHeader(h, i)
    PROVE  [sensitive |-> i.sensitive, form |-> prepareWebhookHeaderValue(h, i)] \in Prepared
<1> DEFINE previous == existingWebhookHeader(h, i.id)
<1>1. i.sensitive \in BOOLEAN /\ i.blank \in BOOLEAN
  BY DEF HeaderInputs
<1>2. webhook[h].header \in Stored
  BY DEF HInv
<1>3. CASE i.blank
  <2>1. previous # None /\ previous.sensitive /\ i.sensitive
    BY <1>3 DEF AcceptsHeader, preserveWebhookHeaderValue
  <2>2. previous \in Headers /\ Matches(previous)
    BY <1>2, <2>1 DEF existingWebhookHeader, Stored
  <2> QED
    BY <1>1, <1>3, <2>1, <2>2 DEF Prepared, Matches, prepareWebhookHeaderValue, Headers, Forms
<1>4. CASE ~i.blank
  BY <1>1, <1>4 DEF Prepared, Matches, prepareWebhookHeaderValue, Forms
<1> QED
  BY <1>1, <1>3, <1>4

LEMMA SaveWebhookInvariant ==
    ASSUME HInv, NEW c \in Clients, NEW h \in Hooks, NEW i \in WebhookInputs, SaveWebhook(c, h, i)
    PROVE  HInv'
<1> DEFINE header == IF i.header = None THEN None
                     ELSE [sensitive |-> i.header.sensitive, form |-> prepareWebhookHeaderValue(h, i.header)]
           e == [hook |-> h, create |-> ~webhook[h].exists, events |-> i.events, retries |-> i.retries,
                 enabled |-> i.enabled, header |-> header]
<1>1. i.header \in HeaderInputs \cup {None} /\ i.events \in (SUBSET Events) \ {{}} /\ i.retries \in 0..MaxRetry
      /\ i.enabled \in BOOLEAN
  BY DEF WebhookInputs, SaveWebhook, validateWebhookInput
<1>2. header \in Prepared
  <2>1. CASE i.header = None
    BY <2>1 DEF Prepared
  <2>2. CASE i.header # None
    BY <1>1, <2>2, PreparedMatches DEF SaveWebhook
  <2> QED
    BY <2>1, <2>2
<1>3. (~webhook[h].exists) \in BOOLEAN
  OBVIOUS
<1>4. e \in Edit
  BY <1>1, <1>2, <1>3 DEF Edit
<1>5. edit' = [edit EXCEPT ![c] = e] /\ UNCHANGED <<webhook, headerIds, key, emission, deliveries>>
  BY DEF SaveWebhook
<1> HIDE DEF e
<1>6. edit' \in [Clients -> Edit \cup {None}]
  BY <1>4, <1>5 DEF HInv
<1> QED
  BY <1>5, <1>6 DEF HInv, HooksTypeOK

LEMMA StoreWebhookInvariant ==
    ASSUME HInv, NEW c \in Clients, StoreWebhook(c)
    PROVE  HInv'
<1> PICK e \in Edit : e = edit[c]
  BY DEF HInv, StoreWebhook
<1>1. edit' \in [Clients -> Edit \cup {None}]
  BY DEF HInv, StoreWebhook
<1>2. UNCHANGED <<key, emission, deliveries>>
  BY DEF StoreWebhook
<1>3. CASE e.create = ~webhook[e.hook].exists
  <2> DEFINE header == IF e.header = None THEN None
                       ELSE [id |-> headerIds + 1, sensitive |-> e.header.sensitive, form |-> e.header.form]
             stored == [exists |-> TRUE, events |-> e.events, retries |-> e.retries,
                        enabled |-> e.enabled, header |-> header]
  <2>1. /\ e.header # None => headerIds < MaxIds
        /\ webhook' = [webhook EXCEPT ![e.hook] = stored]
        /\ headerIds' = IF e.header = None THEN headerIds ELSE headerIds + 1
    BY <1>3 DEF StoreWebhook, replaceWebhookHeaders
  <2>2. headerIds \in 0..MaxIds /\ headerIds' \in 0..MaxIds /\ headerIds <= headerIds'
    BY <2>1, WebhooksAssumption DEF HInv, HooksTypeOK
  <2>3. e.header \in Prepared /\ e.hook \in Hooks
    BY DEF Edit
  <2>4. header \in Stored /\ (header # None => header \in Headers /\ header.id <= headerIds')
    <3>1. CASE e.header = None
      BY <3>1 DEF Stored
    <3>2. CASE e.header # None
      <4>1. headerIds + 1 \in 1..MaxIds /\ headerIds' = headerIds + 1
        BY <2>1, <2>2, <3>2, WebhooksAssumption
      <4>2. e.header.sensitive \in BOOLEAN /\ e.header.form \in Forms /\ Matches(e.header)
        BY <2>3, <3>2 DEF Prepared
      <4>3. header \in Headers /\ Matches(header) /\ header.id = headerIds'
        BY <3>2, <4>1, <4>2 DEF Headers, Matches
      <4> QED
        BY <2>2, <4>3 DEF Stored
    <3> QED
      BY <3>1, <3>2
  <2>5. header \in Headers \cup {None}
    BY <2>4
  <2>6. stored \in Rows /\ stored.exists /\ stored.header = header
    BY <2>5 DEF Rows, Edit
  <2> HIDE DEF header, stored
  <2>7. \A h \in Hooks : webhook'[h] = IF h = e.hook THEN stored ELSE webhook[h]
    BY <2>1, <2>3 DEF HInv, HooksTypeOK
  <2>8. webhook' \in [Hooks -> Rows \cup {Absent}]
    BY <2>1, <2>6 DEF HInv, HooksTypeOK
  <2>9. \A h \in Hooks : deliveries[h] # None => webhook'[h].exists
    BY <2>6, <2>7 DEF HInv, HooksTypeOK
  <2>10. \A h \in Hooks : webhook'[h].header # None => webhook'[h].header.id <= headerIds'
    <3> SUFFICES ASSUME NEW h \in Hooks, webhook'[h].header # None
                 PROVE  webhook'[h].header.id <= headerIds'
      OBVIOUS
    <3>1. CASE h = e.hook
      BY <2>4, <2>6, <2>7, <3>1
    <3>2. CASE h # e.hook
      <4>1. webhook'[h].header = webhook[h].header /\ webhook[h].header \in Headers
        BY <2>7, <3>2 DEF HInv, Stored
      <4>2. webhook[h].header.id <= headerIds /\ webhook[h].header.id \in Nat
        BY <4>1 DEF HInv, HooksTypeOK, Headers
      <4> QED
        BY <2>2, <4>1, <4>2
    <3> QED
      BY <3>1, <3>2
  <2>11. \A h \in Hooks : webhook'[h].header \in Stored
    BY <2>4, <2>6, <2>7 DEF HInv
  <2> QED
    BY <1>1, <1>2, <2>2, <2>8, <2>9, <2>10, <2>11 DEF HInv, HooksTypeOK
<1>4. CASE e.create # ~webhook[e.hook].exists
  <2>1. UNCHANGED <<webhook, headerIds>>
    BY <1>4 DEF StoreWebhook
  <2> QED
    BY <1>1, <1>2, <2>1 DEF HInv, HooksTypeOK
<1> QED
  BY <1>3, <1>4

LEMMA DeleteWebhookInvariant ==
    ASSUME HInv, NEW h \in Hooks, DeleteWebhook(h)
    PROVE  HInv'
<1>1. /\ webhook' = [webhook EXCEPT ![h] = Absent]
      /\ deliveries' = [deliveries EXCEPT ![h] = None]
      /\ UNCHANGED <<headerIds, key, edit, emission>>
  BY DEF DeleteWebhook
<1>2. Absent.header = None
  BY DEF Absent
<1>3. \A x \in Hooks : /\ webhook'[x] = IF x = h THEN Absent ELSE webhook[x]
                       /\ deliveries'[x] = IF x = h THEN None ELSE deliveries[x]
  BY <1>1 DEF HInv, HooksTypeOK
<1>4. webhook' \in [Hooks -> Rows \cup {Absent}]
  BY <1>1 DEF HInv, HooksTypeOK
<1>5. deliveries' \in [Hooks -> [attempts : 0..(MaxRetry + 1), ok : BOOLEAN] \cup {None}]
  BY <1>1 DEF HInv, HooksTypeOK
<1>6. \A x \in Hooks : deliveries'[x] # None => webhook'[x].exists
  BY <1>3 DEF HInv, HooksTypeOK
<1>7. \A x \in Hooks : /\ webhook'[x].header # None => webhook'[x].header.id <= headerIds'
                       /\ webhook'[x].header \in Stored
  BY <1>1, <1>2, <1>3 DEF HInv, HooksTypeOK, Stored
<1> QED
  BY <1>1, <1>4, <1>5, <1>6, <1>7 DEF HInv, HooksTypeOK
\* A client's delivery goes on, and what it records is of a webhook that exists.
LEMMA DeliveryGoesOn ==
    ASSUME HInv, NEW c \in Clients, NEW e \in Emission, e.step = "send" => e.now \in Listing(Sent),
           emission' = [emission EXCEPT ![c] = e], UNCHANGED <<webhook, headerIds, key, edit>>,
           \/ UNCHANGED deliveries
           \/ \E h \in Hooks, n \in 0..(MaxRetry + 1), ok \in BOOLEAN : deliveries' = Recorded(h, n, ok)
    PROVE  HInv'
<1>1. /\ emission' \in [Clients -> Emission]
      /\ \A d \in Clients : emission'[d] = IF d = c THEN e ELSE emission[d]
  BY DEF HInv
<1>2. \A d \in Clients : /\ emission'[d].step \in {"idle", "headers", "next", "send"}
                         /\ emission'[d].step = "send" => emission'[d].now \in Listing(Sent)
  BY <1>1 DEF HInv, Emission
<1>3. /\ deliveries' \in [Hooks -> [attempts : 0..(MaxRetry + 1), ok : BOOLEAN] \cup {None}]
      /\ \A x \in Hooks : deliveries'[x] # None => webhook[x].exists
  <2>1. CASE UNCHANGED deliveries
    BY <2>1 DEF HInv, HooksTypeOK
  <2>2. ASSUME NEW h \in Hooks, NEW n \in 0..(MaxRetry + 1), NEW ok \in BOOLEAN,
               deliveries' = Recorded(h, n, ok)
        PROVE  <1>3
    <3> DEFINE record == [attempts |-> n, ok |-> ok]
    <3>1. record \in [attempts : 0..(MaxRetry + 1), ok : BOOLEAN]
      OBVIOUS
    <3> HIDE DEF record
    <3>2. deliveries' = IF webhook[h].exists THEN [deliveries EXCEPT ![h] = record] ELSE deliveries
      BY <2>2 DEF Recorded, record
    <3> QED
      BY <3>1, <3>2 DEF HInv, HooksTypeOK
  <2> QED
    BY <2>1, <2>2
<1> QED
  BY <1>1, <1>2, <1>3 DEF HInv, HooksTypeOK

LEMMA NoAttempt == 0 \in 0..MaxRetry
  BY WebhooksAssumption

\* What is listed has no header yet.
LEMMA ListedIsListing ==
    ASSUME HInv, NEW h \in Hooks
    PROVE  [hook |-> h, retries |-> webhook[h].retries, header |-> None] \in Listing(Stored)
<1>1. webhook[h] \in Rows \cup {Absent}
  BY DEF HInv, HooksTypeOK
<1>2. webhook[h].retries \in 0..MaxRetry
  <2>1. CASE webhook[h] \in Rows
    BY <2>1 DEF Rows
  <2>2. CASE webhook[h] = Absent
    BY <2>2, NoAttempt DEF Absent
  <2> QED
    BY <1>1, <2>1, <2>2
<1> QED
  BY <1>2 DEF Listing, Stored

LEMMA EmittingIsEmission ==
    ASSUME NEW e \in Events, NEW left \in SUBSET Listing(Stored)
    PROVE  /\ [NoEmission EXCEPT !.step = "headers", !.event = e, !.left = left] \in Emission
           /\ [NoEmission EXCEPT !.step = "headers", !.event = e, !.left = left].step = "headers"
  BY NoAttempt DEF NoEmission, Emission

\* The emission of an event by a client whose delivery is over.
LEMMA EmittingInvariant ==
    ASSUME HInv, NEW c \in Clients, NEW e \in Events,
           emission' = Emitting(c, e), UNCHANGED <<webhook, headerIds, key, edit, deliveries>>
    PROVE  HInv'
<1>1. Listed(e) \in SUBSET Listing(Stored)
  BY ListedIsListing DEF Listed
<1> QED
  BY <1>1, EmittingIsEmission, DeliveryGoesOn DEF Emitting

LEMMA TestWebhookInvariant ==
    ASSUME HInv, NEW c \in Clients, NEW h \in Hooks, NEW e \in Events, TestWebhook(c, h, e)
    PROVE  HInv'
<1> DEFINE left == {[hook |-> h, retries |-> webhook[h].retries, header |-> None]}
<1>1. left \in SUBSET Listing(Stored)
  BY ListedIsListing
<1> QED
  BY <1>1, EmittingIsEmission, DeliveryGoesOn DEF TestWebhook

LEMMA WebhookHeadersInvariant ==
    ASSUME HInv, NEW c \in Clients, webhookHeaders(c)
    PROVE  HInv'
<1> DEFINE left == {[n EXCEPT !.header = webhook[n.hook].header] : n \in emission[c].left}
           e == [emission[c] EXCEPT !.step = "next", !.left = left]
<1>1. emission[c] \in Emission
  BY DEF HInv
<1>2. left \in SUBSET Listing(Stored)
  <2> SUFFICES ASSUME NEW n \in emission[c].left
               PROVE  [n EXCEPT !.header = webhook[n.hook].header] \in Listing(Stored)
    OBVIOUS
  <2>1. n \in Listing(Stored)
    BY <1>1 DEF Emission
  <2>2. webhook[n.hook].header \in Stored
    BY <2>1 DEF HInv, Listing
  <2> QED
    BY <2>1, <2>2 DEF Listing
<1> HIDE DEF left
<1>3. e \in Emission /\ e.step = "next"
  BY <1>1, <1>2 DEF Emission
<1>4. emission' = [emission EXCEPT ![c] = e]
  BY DEF webhookHeaders, HInv, left
<1> HIDE DEF e
<1> QED
  BY <1>3, <1>4, DeliveryGoesOn DEF webhookHeaders

\* A header that can be read is sent as what was entered.
LEMMA ReadableIsSent ==
    ASSUME NEW header \in Stored, ~Unreadable(webhookRequestHeaders(header))
    PROVE  webhookRequestHeaders(header) \in Sent
<1>1. CASE header = None
  BY <1>1 DEF webhookRequestHeaders, Sent
<1>2. CASE header # None
  <2>1. header \in Headers /\ Matches(header)
    BY <1>2 DEF Stored
  <2>2. CASE ~header.sensitive
    BY <2>1, <2>2 DEF Matches, webhookRequestHeaders, Sent
  <2>3. CASE header.sensitive /\ key /\ header.form = "cipher"
    <3>1. webhookRequestHeaders(header) = [header EXCEPT !.form = "plain"]
      BY <1>2, <2>3 DEF webhookRequestHeaders
    <3> QED
      BY <2>1, <3>1 DEF Headers, Forms, Sent
  <2>4. CASE header.sensitive /\ ~(key /\ header.form = "cipher")
    <3>1. webhookRequestHeaders(header) = [header EXCEPT !.form = "unreadable"]
      BY <1>2, <2>4 DEF webhookRequestHeaders
    <3>2. [header EXCEPT !.form = "unreadable"].form = "unreadable"
      BY <2>1 DEF Headers
    <3>3. [header EXCEPT !.form = "unreadable"] = None
      BY <3>1, <3>2 DEF Unreadable
    <3> QED
      BY <3>1, <3>3 DEF Sent
  <2> QED
    BY <2>2, <2>3, <2>4
<1> QED
  BY <1>1, <1>2

LEMMA DeliverInvariant ==
    ASSUME HInv, NEW c \in Clients, deliver(c)
    PROVE  HInv'
<1>1. emission[c] \in Emission /\ emission[c].step = "next" /\ UNCHANGED <<webhook, headerIds, key, edit>>
  BY DEF HInv, deliver
<1>2. CASE emission' = [emission EXCEPT ![c] = NoEmission] /\ UNCHANGED deliveries
  <2>1. NoEmission \in Emission /\ NoEmission.step = "idle"
    BY WebhooksAssumption DEF NoEmission, Emission
  <2> QED
    BY <1>1, <1>2, <2>1, DeliveryGoesOn
<1>3. ASSUME NEW n \in emission[c].left,
             LET rest == [emission[c] EXCEPT !.left = emission[c].left \ {n}]
                 header == webhookRequestHeaders(n.header)
             IN \/ /\ ~Unreadable(header)
                   /\ emission' = [emission EXCEPT ![c] =
                         [rest EXCEPT !.step = "send", !.attempts = 0, !.now = [n EXCEPT !.header = header]]]
                   /\ UNCHANGED deliveries
                \/ /\ emission' = [emission EXCEPT ![c] = rest]
                   /\ deliveries' = Recorded(n.hook, 0, FALSE)
      PROVE  HInv'
  <2> DEFINE rest == [emission[c] EXCEPT !.left = emission[c].left \ {n}]
             header == webhookRequestHeaders(n.header)
             now == [n EXCEPT !.header = header]
             e == [rest EXCEPT !.step = "send", !.attempts = 0, !.now = now]
  <2>1. n \in Listing(Stored) /\ n.header \in Stored /\ n.hook \in Hooks
    BY <1>1, <1>3 DEF Emission, Listing
  <2>2. rest \in Emission /\ rest.step = "next"
    BY <1>1 DEF Emission
  <2>3. CASE /\ ~Unreadable(header)
             /\ emission' = [emission EXCEPT ![c] = e]
             /\ UNCHANGED deliveries
    <3>1. header \in Sent
      BY <2>1, <2>3, ReadableIsSent
    <3> HIDE DEF header
    <3>2. now \in Listing(Sent)
      BY <2>1, <3>1 DEF Listing
    <3> HIDE DEF now, rest
    <3>3. e \in Emission /\ e.step = "send" /\ e.now = now
      BY <2>2, <3>2, NoAttempt DEF Emission
    <3> HIDE DEF e
    <3> QED
      BY <1>1, <2>3, <3>2, <3>3, DeliveryGoesOn
  <2>4. CASE /\ emission' = [emission EXCEPT ![c] = rest]
             /\ deliveries' = Recorded(n.hook, 0, FALSE)
    <3> HIDE DEF rest
    <3>1. 0 \in 0..(MaxRetry + 1)
      BY WebhooksAssumption
    <3> QED
      BY <1>1, <2>1, <2>2, <2>4, <3>1, DeliveryGoesOn
  <2> QED
    BY <1>3, <2>3, <2>4
<1> QED
  BY <1>2, <1>3 DEF deliver

LEMMA SendInvariant ==
    ASSUME HInv, NEW c \in Clients, Send(c)
    PROVE  HInv'
<1>1. /\ emission[c] \in Emission /\ emission[c].step = "send" /\ emission[c].now \in Listing(Sent)
      /\ UNCHANGED <<webhook, headerIds, key, edit>>
  BY DEF HInv, Send
<1>2. /\ emission[c].now.hook \in Hooks /\ emission[c].now.retries \in 0..MaxRetry
      /\ emission[c].attempts \in 0..MaxRetry
  BY <1>1 DEF Listing, Emission
<1>3. emission[c].attempts + 1 \in 0..(MaxRetry + 1)
  BY <1>2, WebhooksAssumption
<1>4. CASE /\ emission' = [emission EXCEPT ![c] =
                 [emission[c] EXCEPT !.step = "next", !.now = None, !.attempts = 0]]
           /\ \E ok \in BOOLEAN : deliveries' = Recorded(emission[c].now.hook, emission[c].attempts + 1, ok)
  <2> DEFINE e == [emission[c] EXCEPT !.step = "next", !.now = None, !.attempts = 0]
  <2>1. e \in Emission /\ e.step = "next"
    BY <1>1, NoAttempt DEF Emission
  <2> HIDE DEF e
  <2> QED
    BY <1>1, <1>2, <1>3, <1>4, <2>1, DeliveryGoesOn DEF e
<1>5. CASE /\ emission[c].attempts + 1 <= emission[c].now.retries
           /\ emission' = [emission EXCEPT ![c].attempts = emission[c].attempts + 1]
           /\ UNCHANGED deliveries
  <2> DEFINE e == [emission[c] EXCEPT !.attempts = emission[c].attempts + 1]
  <2>1. emission[c].attempts + 1 \in 0..MaxRetry
    BY <1>2, <1>5, WebhooksAssumption
  <2>2. e \in Emission /\ e.now = emission[c].now
    BY <1>1, <2>1 DEF Emission
  <2>3. emission' = [emission EXCEPT ![c] = e]
    BY <1>5
  <2> HIDE DEF e
  <2> QED
    BY <1>1, <1>5, <2>2, <2>3, DeliveryGoesOn
<1> QED
  BY <1>4, <1>5 DEF Send

LEMMA DeliveryInvariant ==
    ASSUME HInv, NEW c \in Clients, ContinueDelivery(c)
    PROVE  HInv'
  BY StoreWebhookInvariant, WebhookHeadersInvariant, DeliverInvariant, SendInvariant DEF ContinueDelivery

LEMMA AdminWebhookInvariant ==
    ASSUME HInv, NEW c \in Clients, AdminWebhookRequest(c)
    PROVE  HInv'
  BY SaveWebhookInvariant, DeleteWebhookInvariant, TestWebhookInvariant DEF AdminWebhookRequest

\* The servers come back, with or without a key.
LEMMA HooksRestart ==
    ASSUME HInv, Restart
    PROVE  HInv'
<1>1. NoEmission \in Emission /\ NoEmission.step = "idle"
  BY WebhooksAssumption DEF NoEmission, Emission
<1>2. edit' = [c \in Clients |-> None] /\ emission' = [c \in Clients |-> NoEmission]
      /\ key' \in BOOLEAN /\ UNCHANGED <<webhook, headerIds, deliveries>>
  BY DEF Restart
<1> QED
  BY <1>1, <1>2 DEF HInv, HooksTypeOK

\* The invariant says what HeadersMatchTheirMark says.
LEMMA FormsAreMarked == HInv => HeadersMatchTheirMark
<1> SUFFICES ASSUME HInv PROVE HeadersMatchTheirMark
  OBVIOUS
<1>1. ASSUME NEW h \in Hooks, webhook[h].header # None
      PROVE  /\ maskedWebhookHeaders(webhook[h].header) # "cipher"
             /\ RevealWebhookHeader(webhook[h].header)
                    = IF webhook[h].header.sensitive /\ ~key THEN "refused" ELSE "plain"
  <2>1. webhook[h].header \in Headers /\ Matches(webhook[h].header)
    BY <1>1 DEF HInv, Stored
  <2> QED
    BY <2>1 DEF Headers, Matches, maskedWebhookHeaders, RevealWebhookHeader
<1>2. ASSUME NEW c \in Clients, emission[c].now # None, emission[c].now.header # None
      PROVE  emission[c].now.header.form = "plain"
  <2>1. emission[c].now \in Listing(Sent)
    BY <1>2 DEF HInv, Emission
  <2> QED
    BY <1>2, <2>1 DEF Listing, Sent
<1> QED
  BY <1>1, <1>2 DEF HeadersMatchTheirMark
-----------------------------------------------------------------------------
(* Parts of TInv *)

LEMMA TypesFollow == DInv => TypeOK
<1> SUFFICES ASSUME DInv PROVE TypeOK
  OBVIOUS
<1>1. \A k \in DOMAIN comments : comments[k].author \in Users
  BY DEF DInv, TInv, Thread, Comment
<1>2. \A n \in inbox : n.user \in Users /\ n.id \in 1..rows
  BY DEF DInv, TInv, Inbox
<1>3. \A u \in Users : drafts[u] \in 0..Newest
  BY DEF DInv, TInv, Editors, PageOK, Newest, Keeps
<1> QED
  BY <1>1, <1>2, <1>3 DEF DInv, HInv, TInv, PageOK, Newest, Keeps, Thread, Inbox, Editors, TypeOK

LEMMA BeginningRequest ==
    /\ NoRequest \in Request
    /\ \A ids, n : Sound(NoRequest, ids, n)
<1> QED
  BY DEF NoRequest, Request, Sound, Steps

\* What was there when a request read it still is: comments stay, revisions are added.
LEMMA SoundStays ==
    ASSUME NEW r \in Request, NEW K, NEW n \in Nat, Sound(r, K, n), NEW L, Keeps(K, L),
           NEW m \in Nat, n <= m
    PROVE  Sound(r, L, m)
<1>1. r.step \in {"prepare", "suggest", "load", "apply"} => r.sug.number \in Nat
  BY DEF Sound, Suggestions
<1>2. r.on \in DOMAIN L \cup {0}
  BY DEF Sound, Keeps
<1>3. r.step \in {"load", "apply"} => r.on \in DOMAIN L /\ L[r.on].sug = r.sug
  BY DEF Sound, Keeps
<1> QED
  BY <1>1, <1>2, <1>3 DEF Sound

\* One client's request goes on, or none does.
LEMMA RequestGoesOn ==
    ASSUME PageOK, PageOK', Requests, NEW c \in Clients, NEW r \in Request,
           Sound(r, comments', Newest'),
           request' = [request EXCEPT ![c] = r],
           Keeps(comments, comments'), Newest <= Newest'
    PROVE  Requests'
<1>1. Newest \in Nat /\ Newest' \in Nat
  BY DEF PageOK, Newest, Keeps
<1>2. /\ request' \in [Clients -> Request]
      /\ \A d \in Clients : request'[d] = IF d = c THEN r ELSE request[d]
  BY DEF Requests
<1>3. \A d \in Clients : Sound(request[d], comments', Newest')
  BY <1>1, SoundStays DEF Requests
<1> QED
  BY <1>2, <1>3 DEF Requests

LEMMA RequestsStay ==
    ASSUME PageOK, PageOK', Requests, UNCHANGED request,
           Keeps(comments, comments'), Newest <= Newest'
    PROVE  Requests'
<1>1. Newest \in Nat /\ Newest' \in Nat
  BY DEF PageOK, Newest, Keeps
<1>2. \A d \in Clients : Sound(request[d], comments', Newest')
  BY <1>1, SoundStays DEF Requests
<1> QED
  BY <1>2 DEF Requests

\* The steps after a comment or a suggestion is stored need no more than it had.
LEMMA EffectIsSound ==
    ASSUME NEW r \in Request, NEW K, NEW n, Sound(r, K, n), r.step \notin {"idle", "plugin"},
           NEW s \in {"mentions", "reply", "watchers", "watching", "event"}, NEW to \in SUBSET Users
    PROVE  LET x == [r EXCEPT !.step = s, !.to = to] IN x \in Request /\ Sound(x, K, n)
<1>1. [r EXCEPT !.step = s, !.to = to] \in Request
  BY DEF Request, Steps
<1>2. /\ [r EXCEPT !.step = s, !.to = to].step = s
      /\ [r EXCEPT !.step = s, !.to = to].on = r.on
      /\ [r EXCEPT !.step = s, !.to = to].actor = r.actor
  BY DEF Request
<1> QED
  BY <1>1, <1>2 DEF Sound

\* Nothing of the page, its comments and its editors changes.
LEMMA TalkStays ==
    ASSUME TInv, UNCHANGED <<revisions, comments, enabled, watches, drafts, presence>>,
           Requests', Inbox', begun' \in 0..MaxRequests
    PROVE  TInv'
<1>1. PageOK' /\ Thread' /\ Editors'
  BY DEF TInv, PageOK, Newest, Keeps, Thread, Editors
<1> QED
  BY <1>1 DEF TInv

LEMMA InboxStays == Inbox /\ UNCHANGED <<inbox, rows, told>> => Inbox'
  BY DEF Inbox, UniqueKeys, Present

LEMMA AllStays ==
    ASSUME TInv, UNCHANGED <<talk, request>>, begun' \in 0..MaxRequests
    PROVE  TInv'
<1>1. Requests' /\ Inbox'
  BY InboxStays DEF TInv, Requests, Newest, talk
<1> QED
  BY <1>1, TalkStays DEF talk
-----------------------------------------------------------------------------
(* Comments and suggestions *)

LEMMA IsBegun ==
    ASSUME Requests, NEW c \in Clients, NEW r, Begin(c, r)
    PROVE  request' = [request EXCEPT ![c] = r]
  BY DEF Begin

LEMMA AddCommentKeeps ==
    ASSUME TInv, begun' \in 0..MaxRequests, NEW c \in Clients, NEW u \in Users, NEW parent \in Ids \cup {0},
           NEW m \in SUBSET Users, AddComment(c, u, parent, m)
    PROVE  TInv'
<1> DEFINE r == [NoRequest EXCEPT !.step = "insert", !.actor = u, !.on = parent, !.to = m]
<1>1. /\ request' = [request EXCEPT ![c] = r] /\ parent \in DOMAIN comments \cup {0}
      /\ UNCHANGED talk
  BY DEF AddComment, Begin
<1>2. r \in Request
  BY DEF NoRequest, Request, Steps
<1>3. r.step = "insert" /\ r.actor = u /\ r.on = parent
  BY DEF NoRequest
<1> HIDE DEF r
<1>4. Sound(r, comments, Newest)
  BY <1>1, <1>3 DEF Sound
<1>5. Newest \in Nat /\ PageOK /\ PageOK' /\ revisions' = revisions /\ comments' = comments
  BY <1>1 DEF TInv, PageOK, Newest, Keeps, talk
<1>a. /\ Sound(r, comments', Newest')
      /\ Keeps(comments, comments') /\ Newest <= Newest'
  BY <1>1, <1>4, <1>5 DEF Newest, Keeps
<1>b. Requests
  BY DEF TInv
<1>6. Requests'
  BY <1>1, <1>2, <1>5, <1>a, <1>b, RequestGoesOn
<1> QED
  BY <1>1, <1>6, InboxStays, TalkStays DEF TInv, talk

\* A comment is added after those there are.
LEMMA CommentAdded ==
    ASSUME TInv, PageOK', Newest' = Newest, Len(comments) < MaxComments, NEW x \in Comment,
           x.parent \in DOMAIN comments \cup {0}, x.sug # None => x.sug.number <= Newest,
           comments' = Append(comments, x)
    PROVE  Thread' /\ Keeps(comments, comments')
<1>1. comments \in Seq(Comment) /\ MaxComments \in Nat /\ Len(comments) \in Nat
  BY DiscussionsAssumption DEF TInv, Thread
<1>2. /\ comments' \in Seq(Comment) /\ Len(comments') = Len(comments) + 1
      /\ DOMAIN comments = 1..Len(comments) /\ DOMAIN comments' = 1..(Len(comments) + 1)
      /\ \A k \in DOMAIN comments : k \in DOMAIN comments' /\ comments'[k] = comments[k]
      /\ comments'[Len(comments) + 1] = x
  BY <1>1
<1>3. DOMAIN comments' \subseteq Ids
  BY <1>1, <1>2 DEF Ids
<1>4. \A k \in DOMAIN comments' : k \in DOMAIN comments \/ comments'[k] = x
  BY <1>1, <1>2
<1> QED
  BY <1>2, <1>3, <1>4 DEF TInv, Thread, Keeps

\* One comment is changed, in what leaves its suggestion and its parent.
LEMMA CommentChanged ==
    ASSUME Thread, NEW k \in DOMAIN comments, NEW x \in Comment, comments' = [comments EXCEPT ![k] = x],
           x.parent = comments[k].parent, x.sug = comments[k].sug
    PROVE  /\ comments' \in Seq(Comment) /\ DOMAIN comments' = DOMAIN comments
           /\ \A j \in DOMAIN comments : comments'[j] \in Comment
           /\ Keeps(comments, comments')
           /\ \A j \in DOMAIN comments : comments'[j].parent = comments[j].parent /\ comments'[j].sug = comments[j].sug
  BY DEF Thread, Keeps

LEMMA AddPageCommentKeeps ==
    ASSUME TInv, begun' \in 0..MaxRequests, NEW c \in Clients, AddPageComment(c)
    PROVE  TInv'
<1> DEFINE x == [author |-> request[c].actor, parent |-> request[c].on, resolved |-> FALSE,
                 sug |-> None, applied |-> FALSE]
           r == [request[c] EXCEPT !.step = "mentions", !.to = request[c].to]
<1>1. /\ request[c].step = "insert" /\ Len(comments) < MaxComments
      /\ comments' = Append(comments, x)
      /\ request' = [request EXCEPT ![c].step = "mentions"]
      /\ UNCHANGED <<revisions, allowed, enabled, watches, inbox, rows, told, drafts, presence>>
  BY DEF AddPageComment, AtStep, Step
<1>2. /\ request[c] \in Request /\ Sound(request[c], comments, Newest)
      /\ Newest \in Nat
  BY DEF TInv, Requests, PageOK, Newest, Keeps
<1>3. PageOK' /\ Newest' = Newest
  BY <1>1 DEF TInv, PageOK, Newest
<1>4. x \in Comment /\ x.parent \in DOMAIN comments \cup {0} /\ x.sug = None
  BY <1>1, <1>2 DEF Comment, Sound, Request
<1> HIDE DEF x
<1>5. Thread' /\ Keeps(comments, comments')
  BY <1>1, <1>3, <1>4, CommentAdded
<1>6. r \in Request /\ Sound(r, comments, Newest)
  BY <1>1, <1>2, EffectIsSound DEF Request
<1>7. request' = [request EXCEPT ![c] = r]
  BY <1>1, <1>2 DEF TInv, Requests, Request
<1> HIDE DEF r
<1>8. Sound(r, comments', Newest')
  BY <1>1, <1>2, <1>3, <1>5, <1>6, SoundStays
<1>a. PageOK /\ Requests /\ Newest <= Newest'
  BY <1>1, <1>2 DEF TInv, Newest
<1>9. Requests'
  BY <1>3, <1>5, <1>6, <1>7, <1>8, <1>a, RequestGoesOn
<1>10. Editors' /\ Inbox'
  BY <1>1, InboxStays DEF TInv, Editors, Newest
<1> QED
  BY <1>3, <1>5, <1>9, <1>10 DEF TInv

LEMMA ResolveKeeps ==
    ASSUME TInv, begun' \in 0..MaxRequests, NEW k \in Ids, NEW b \in BOOLEAN, ResolvePageComment(k, b)
    PROVE  TInv'
<1>1. /\ k \in DOMAIN comments
      /\ comments' = [comments EXCEPT ![k].resolved = b]
      /\ UNCHANGED <<revisions, allowed, enabled, watches, inbox, rows, told, drafts, presence, request>>
  BY DEF ResolvePageComment
<1> DEFINE x == [comments[k] EXCEPT !.resolved = b]
<1>2. /\ comments[k] \in Comment /\ comments' = [comments EXCEPT ![k] = x]
      /\ x \in Comment /\ x.parent = comments[k].parent /\ x.sug = comments[k].sug
  BY <1>1 DEF TInv, Thread, Comment
<1> HIDE DEF x
<1>3. /\ comments' \in Seq(Comment) /\ DOMAIN comments' = DOMAIN comments
      /\ \A j \in DOMAIN comments : comments'[j] \in Comment
      /\ Keeps(comments, comments')
      /\ \A j \in DOMAIN comments : comments'[j].parent = comments[j].parent /\ comments'[j].sug = comments[j].sug
  BY <1>1, <1>2, CommentChanged DEF TInv
<1>4. PageOK /\ PageOK' /\ Editors' /\ Inbox' /\ Newest <= Newest' /\ Requests
  BY <1>1, InboxStays DEF TInv, PageOK, Newest, Editors
<1>5. Thread'
  BY <1>1, <1>3 DEF TInv, Thread, Newest
<1>6. Requests'
  BY <1>1, <1>3, <1>4, RequestsStay
<1> QED
  BY <1>4, <1>5, <1>6 DEF TInv

LEMMA SourceThere == PageOK => Source \in Sources /\ Newest \in Nat
  BY DEF PageOK, Newest, Keeps, Source

\* A revision is added after the ones there are.
LEMMA Appended ==
    ASSUME PageOK, NEW x \in Sources, revisions' = Append(revisions, x)
    PROVE  /\ PageOK' /\ Newest' = Newest + 1
           /\ revisions'[Newest + 1] = x
           /\ \A n \in 1..Newest : revisions'[n] = revisions[n]
<1>1. /\ Append(revisions, x) \in Seq(Sources)
      /\ Len(Append(revisions, x)) = Len(revisions) + 1
      /\ Append(revisions, x)[Len(revisions) + 1] = x
      /\ \A n \in 1..Len(revisions) : Append(revisions, x)[n] = revisions[n]
  BY DEF PageOK
<1>2. Newest' = Len(revisions') /\ Newest = Len(revisions)
  BY DEF Newest
<1> QED
  BY <1>1, <1>2 DEF PageOK

\* A request that reads on goes to its next step with what it has read.
LEMMA ReadingKeeps ==
    ASSUME TInv, begun' \in 0..MaxRequests, NEW c \in Clients, NEW r \in Request,
           Sound(r, comments, Newest), request' = [request EXCEPT ![c] = r], UNCHANGED talk
    PROVE  TInv'
<1>1. /\ PageOK /\ PageOK' /\ Requests /\ Sound(r, comments', Newest')
      /\ Keeps(comments, comments') /\ Newest <= Newest'
  BY DEF TInv, PageOK, Newest, Keeps, talk
<1>2. Requests'
  BY <1>1, RequestGoesOn
<1> QED
  BY <1>2, InboxStays, TalkStays DEF TInv, talk

LEMMA AddSuggestionKeeps ==
    ASSUME TInv, begun' \in 0..MaxRequests, NEW c \in Clients, NEW u \in Users, NEW x \in Spans,
           NEW v \in 0..MaxContents, NEW m \in Mentioned, AddSuggestion(c, u, x, v, m)
    PROVE  TInv'
<1> DEFINE g == [number |-> 0, span |-> x, original |-> Source[x], replacement |-> v]
           r == [NoRequest EXCEPT !.step = "prepare", !.actor = u, !.to = m, !.text = Source, !.sug = g]
<1>1. request' = [request EXCEPT ![c] = r] /\ UNCHANGED talk
  BY DEF AddSuggestion, Begin
<1>2. Source \in Sources /\ Newest \in Nat /\ m \in SUBSET Users
  BY SourceThere, DiscussionsAssumption DEF TInv
<1>3. g \in Suggestions /\ g.number <= Newest
  BY <1>2 DEF Suggestions, Sources
<1> HIDE DEF g
<1>4. /\ r \in Request
      /\ r.step = "prepare" /\ r.actor = u /\ r.text = Source /\ r.sug = g /\ r.on = 0
  BY <1>2, <1>3 DEF NoRequest, Request, Steps
<1> HIDE DEF r
<1>5. Sound(r, comments, Newest)
  BY <1>2, <1>3, <1>4 DEF Sound
<1> QED
  BY <1>1, <1>4, <1>5, ReadingKeeps

\* A request that is over.
LEMMA DoneKeepsRequests ==
    ASSUME PageOK, PageOK', Requests, NEW c \in Clients, Done(c),
           Keeps(comments, comments'), Newest <= Newest'
    PROVE  Requests'
  BY BeginningRequest, RequestGoesOn DEF Done

LEMMA LatestRevisionKeeps ==
    ASSUME TInv, begun' \in 0..MaxRequests, NEW c \in Clients, LatestRevision(c)
    PROVE  TInv'
<1> DEFINE g == [request[c].sug EXCEPT !.number = Newest]
           r == [request[c] EXCEPT !.step = "suggest", !.sug = g]
<1>1. request[c].step = "prepare" /\ UNCHANGED talk
  BY DEF LatestRevision, AtStep
<1>2. /\ request[c] \in Request /\ Sound(request[c], comments, Newest) /\ Newest \in Nat
      /\ request[c].sug \in Suggestions /\ request[c].text \in Sources /\ request[c].actor \in Users
  BY <1>1 DEF TInv, Requests, Sound, PageOK, Newest, Keeps
<1>3. CASE request' = [request EXCEPT ![c].step = "suggest", ![c].sug.number = Newest]
  <2>1. g \in Suggestions /\ g.number = Newest
    BY <1>2 DEF Suggestions
  <2>2. request' = [request EXCEPT ![c] = r]
    BY <1>2, <1>3 DEF TInv, Requests, Request
  <2> HIDE DEF g
  <2>3. /\ r \in Request /\ r.step = "suggest" /\ r.sug = g /\ r.on = request[c].on
        /\ r.text = request[c].text /\ r.actor = request[c].actor
    BY <1>2, <2>1 DEF Request, Steps
  <2> HIDE DEF r
  <2>4. Sound(r, comments, Newest)
    BY <1>2, <2>1, <2>3 DEF Sound
  <2> QED
    BY <1>1, <2>2, <2>3, <2>4, ReadingKeeps
<1>4. CASE Done(c)
  BY <1>1, <1>4, BeginningRequest, ReadingKeeps DEF Done
<1> QED
  BY <1>3, <1>4 DEF LatestRevision

LEMMA AddPageSuggestionKeeps ==
    ASSUME TInv, begun' \in 0..MaxRequests, NEW c \in Clients, AddPageSuggestion(c)
    PROVE  TInv'
<1> DEFINE x == [author |-> request[c].actor, parent |-> 0, resolved |-> FALSE,
                 sug |-> request[c].sug, applied |-> FALSE]
           r == [request[c] EXCEPT !.step = "mentions", !.to = request[c].to]
<1>1. /\ request[c].step = "suggest"
      /\ UNCHANGED <<revisions, allowed, enabled, watches, inbox, rows, told, drafts, presence>>
  BY DEF AddPageSuggestion, AtStep
<1>2. /\ request[c] \in Request /\ Sound(request[c], comments, Newest)
      /\ Newest \in Nat
  BY DEF TInv, Requests, PageOK, Newest, Keeps
<1>3. PageOK' /\ Editors' /\ Inbox' /\ Newest' = Newest
  BY <1>1, InboxStays DEF TInv, PageOK, Newest, Keeps, Editors
<1>4. CASE /\ Len(comments) < MaxComments
           /\ comments' = Append(comments, x)
           /\ Step(c, "mentions")
  <2>1. x \in Comment /\ x.parent \in DOMAIN comments \cup {0} /\ x.sug.number <= Newest
    BY <1>1, <1>2 DEF Comment, Sound, Request
  <2> HIDE DEF x
  <2>2. Thread' /\ Keeps(comments, comments')
    BY <1>1, <1>3, <1>4, <2>1, CommentAdded
  <2>3. r \in Request /\ Sound(r, comments, Newest)
    BY <1>1, <1>2, EffectIsSound DEF Request
  <2>4. request' = [request EXCEPT ![c] = r]
    BY <1>2, <1>4 DEF TInv, Requests, Request, Step
  <2> HIDE DEF r
  <2>5. Sound(r, comments', Newest')
    BY <1>1, <1>2, <1>3, <2>2, <2>3, SoundStays
  <2>a. PageOK /\ Requests /\ Newest <= Newest'
    BY <1>1, <1>2 DEF TInv, Newest
  <2>6. Requests'
    BY <1>3, <2>2, <2>3, <2>4, <2>5, <2>a, RequestGoesOn
  <2> QED
    BY <1>3, <2>2, <2>6 DEF TInv
<1>5. CASE Done(c) /\ UNCHANGED comments
  <2>1. Thread' /\ Requests'
    <3>1. Thread' /\ Keeps(comments, comments') /\ PageOK /\ Requests /\ Newest <= Newest'
      BY <1>1, <1>2, <1>3, <1>5 DEF TInv, Thread, Keeps, Newest
    <3> QED
      BY <1>3, <1>5, <3>1, DoneKeepsRequests
  <2> QED
    BY <1>3, <2>1 DEF TInv
<1> QED
  BY <1>4, <1>5 DEF AddPageSuggestion

LEMMA ApplyCommentSuggestionKeeps ==
    ASSUME TInv, begun' \in 0..MaxRequests, NEW c \in Clients, NEW u \in Users, NEW k \in Ids,
           ApplyCommentSuggestion(c, u, k)
    PROVE  TInv'
<1> DEFINE r == [NoRequest EXCEPT !.step = "load", !.actor = u, !.on = k, !.text = Source, !.sug = comments[k].sug]
<1>1. /\ k \in DOMAIN comments /\ comments[k].sug # None
      /\ request' = [request EXCEPT ![c] = r] /\ UNCHANGED talk
  BY DEF ApplyCommentSuggestion, Begin
<1>2. /\ Source \in Sources /\ Newest \in Nat
      /\ comments[k].sug \in Suggestions /\ comments[k].sug.number <= Newest
  BY <1>1, SourceThere DEF TInv, Thread, Comment
<1>3. /\ r \in Request
      /\ r.step = "load" /\ r.actor = u /\ r.on = k /\ r.text = Source /\ r.sug = comments[k].sug
  BY <1>2 DEF NoRequest, Request, Steps
<1> HIDE DEF r
<1>4. Sound(r, comments, Newest)
  BY <1>1, <1>2, <1>3 DEF Sound
<1> QED
  BY <1>1, <1>3, <1>4, ReadingKeeps

LEMMA LoadKeeps ==
    ASSUME TInv, begun' \in 0..MaxRequests, NEW c \in Clients, loadApplicableCommentSuggestion(c)
    PROVE  TInv'
<1> DEFINE text == Replaced(request[c].text, request[c].sug)
           r == [request[c] EXCEPT !.step = "apply", !.text = text]
<1>1. request[c].step = "load" /\ UNCHANGED talk
  BY DEF loadApplicableCommentSuggestion, AtStep
<1>2. /\ request[c] \in Request /\ Sound(request[c], comments, Newest)
      /\ request[c].sug \in Suggestions /\ request[c].text \in Sources /\ request[c].actor \in Users
  BY <1>1 DEF TInv, Requests, Sound
<1>3. CASE request' = [request EXCEPT ![c].step = "apply", ![c].text = text]
  <2>1. text \in Sources
    BY <1>2 DEF Replaced, Sources, Suggestions
  <2> HIDE DEF text
  <2>2. request' = [request EXCEPT ![c] = r]
    BY <1>2, <1>3 DEF TInv, Requests, Request
  <2>3. /\ r \in Request /\ r.step = "apply" /\ r.sug = request[c].sug /\ r.on = request[c].on
        /\ r.text = text /\ r.actor = request[c].actor
    BY <1>2, <2>1 DEF Request, Steps
  <2> HIDE DEF r
  <2>4. Sound(r, comments, Newest)
    BY <1>1, <1>2, <2>1, <2>3 DEF Sound
  <2> QED
    BY <1>1, <2>2, <2>3, <2>4, ReadingKeeps
<1>4. CASE Done(c)
  BY <1>1, <1>4, BeginningRequest, ReadingKeeps DEF Done
<1> QED
  BY <1>3, <1>4 DEF loadApplicableCommentSuggestion

\* A new revision leaves every comment, suggestion and draft about one there is.
LEMMA NewRevision ==
    ASSUME TInv, PageOK', Newest' = Newest + 1 \/ Newest' = Newest,
           UNCHANGED <<enabled, watches, drafts, presence>>
    PROVE  /\ Newest <= Newest' /\ Newest \in Nat
           /\ Editors'
           /\ UNCHANGED comments => Thread'
<1>1. Newest \in Nat /\ Newest' \in Nat /\ Newest <= Newest'
  BY DEF TInv, PageOK, Newest, Keeps
<1>2. Editors'
  <2>1. ASSUME NEW u \in Users PROVE drafts[u] <= Newest'
    <3>1. drafts[u] \in Nat /\ drafts[u] <= Newest
      BY DEF TInv, Editors
    <3> QED
      BY <1>1, <3>1
  <2> QED
    BY <2>1 DEF TInv, Editors
<1>3. ASSUME UNCHANGED comments PROVE Thread'
  <2>1. ASSUME NEW k \in DOMAIN comments, comments[k].sug # None
        PROVE  comments[k].sug.number <= Newest'
    <3>1. comments[k].sug.number \in Nat /\ comments[k].sug.number <= Newest
      BY <2>1 DEF TInv, Thread, Comment, Suggestions
    <3> QED
      BY <1>1, <3>1
  <2> QED
    BY <1>3, <2>1 DEF TInv, Thread
<1> QED
  BY <1>1, <1>2, <1>3

LEMMA ApplyPageCommentSuggestionKeeps ==
    ASSUME TInv, begun' \in 0..MaxRequests, NEW c \in Clients, ApplyPageCommentSuggestion(c)
    PROVE  TInv'
<1> DEFINE r == [request[c] EXCEPT !.step = "watchers", !.to = request[c].to]
<1>1. /\ request[c].step = "apply"
      /\ UNCHANGED <<allowed, enabled, watches, inbox, rows, told, drafts, presence>>
  BY DEF ApplyPageCommentSuggestion, AtStep
<1>2. /\ request[c] \in Request /\ Sound(request[c], comments, Newest)
      /\ request[c].text \in Sources /\ request[c].on \in DOMAIN comments
  BY <1>1 DEF TInv, Requests, Sound
<1>3. Inbox'
  BY <1>1, InboxStays DEF TInv
<1>4. CASE /\ revisions' = Append(revisions, request[c].text)
           /\ comments' = [comments EXCEPT ![request[c].on].applied = TRUE]
           /\ Step(c, "watchers")
  <2>1. PageOK' /\ Newest' = Newest + 1
    BY <1>2, <1>4, Appended DEF TInv
  <2>2. Editors' /\ Newest <= Newest' /\ Newest \in Nat
    BY <1>1, <2>1, NewRevision
  <2> DEFINE x == [comments[request[c].on] EXCEPT !.applied = TRUE]
  <2>a. /\ comments[request[c].on] \in Comment /\ comments' = [comments EXCEPT ![request[c].on] = x]
        /\ x \in Comment /\ x.parent = comments[request[c].on].parent /\ x.sug = comments[request[c].on].sug
    BY <1>2, <1>4 DEF TInv, Thread, Comment
  <2> HIDE DEF x
  <2>3. /\ DOMAIN comments' = DOMAIN comments /\ comments' \in Seq(Comment) /\ Keeps(comments, comments')
        /\ \A k \in DOMAIN comments : comments'[k] \in Comment
        /\ \A k \in DOMAIN comments : comments'[k].parent = comments[k].parent /\ comments'[k].sug = comments[k].sug
    BY <1>2, <2>a, CommentChanged DEF TInv
  <2>4. ASSUME NEW k \in DOMAIN comments, comments[k].sug # None
        PROVE  comments[k].sug.number <= Newest'
    <3>1. comments[k].sug.number \in Nat /\ comments[k].sug.number <= Newest
      BY <2>4 DEF TInv, Thread, Comment, Suggestions
    <3> QED
      BY <2>1, <2>2, <3>1
  <2>5. Thread'
    BY <2>3, <2>4 DEF TInv, Thread
  <2>6. r \in Request /\ Sound(r, comments, Newest)
    BY <1>1, <1>2, EffectIsSound DEF Request
  <2>7. request' = [request EXCEPT ![c] = r]
    BY <1>2, <1>4 DEF TInv, Requests, Request, Step
  <2> HIDE DEF r
  <2>8. Sound(r, comments', Newest')
    BY <2>1, <2>2, <2>3, <2>6, SoundStays
  <2>9. PageOK /\ Requests
    BY DEF TInv
  <2>10. Requests'
    BY <2>1, <2>2, <2>3, <2>6, <2>7, <2>8, <2>9, RequestGoesOn
  <2> QED
    BY <1>3, <2>1, <2>2, <2>5, <2>10 DEF TInv
<1>5. CASE Done(c) /\ UNCHANGED <<revisions, comments>>
  <2>1. PageOK' /\ Editors' /\ Thread' /\ PageOK /\ Requests /\ Newest <= Newest'
    BY <1>1, <1>5 DEF TInv, PageOK, Newest, Keeps, Editors, Thread
  <2>2. Requests'
    <3>1. Keeps(comments, comments')
      BY <1>5 DEF Keeps
    <3> QED
      BY <1>5, <2>1, <3>1, DoneKeepsRequests
  <2> QED
    BY <1>3, <2>1, <2>2 DEF TInv
<1> QED
  BY <1>4, <1>5 DEF ApplyPageCommentSuggestion

LEMMA SourceChangeKeeps ==
    ASSUME TInv, begun' \in 0..MaxRequests, NEW x \in Spans, NEW v \in 0..MaxContents, SourceChanges(x, v)
    PROVE  TInv'
<1>1. /\ revisions' = Append(revisions, [Source EXCEPT ![x] = v])
      /\ UNCHANGED <<comments, allowed, enabled, watches, inbox, rows, told, drafts, presence, request>>
  BY DEF SourceChanges
<1>2. [Source EXCEPT ![x] = v] \in Sources
  BY SourceThere DEF TInv, Sources
<1>3. PageOK' /\ Newest' = Newest + 1
  BY <1>1, <1>2, Appended DEF TInv
<1>4. Editors' /\ Thread' /\ Newest <= Newest'
  BY <1>1, <1>3, NewRevision
<1>5. Inbox' /\ Requests'
  <2>1. Keeps(comments, comments')
    BY <1>1 DEF Keeps
  <2> QED
    BY <1>1, <1>3, <1>4, <2>1, InboxStays, RequestsStay DEF TInv
<1> QED
  BY <1>3, <1>4, <1>5 DEF TInv

-----------------------------------------------------------------------------
(* Notifications *)

\* A retry finds the row of the first try; a first try gives the next row to its user,
\* and emits it for the first time.
LEMMA CreateNotificationKeeps ==
    ASSUME Inbox, NEW c \in Clients, NEW u \in Users, NEW kind \in Kinds, NEW k \in Keys \cup {None},
           CreateNotification(c, u, kind, k)
    PROVE  Inbox' /\ (UNCHANGED emission \/ emission' = Emitting(c, "notification.created"))
<1> DEFINE new == [id |-> rows + 1, user |-> u, kind |-> kind, key |-> k, read |-> FALSE]
<1>1. CASE Present(u, k)
  BY <1>1, InboxStays DEF CreateNotification, emitCreated, Present
<1>2. CASE ~Present(u, k)
  <2>1. /\ rows < MaxRows /\ rows' = rows + 1
        /\ inbox' = inbox \cup {new}
        /\ told' = IF k = None THEN told ELSE [told EXCEPT ![u][k] = told[u][k] + 1]
        /\ emission' = Emitting(c, "notification.created")
    BY <1>2 DEF CreateNotification, InsertNotification, emitCreated, Present
  <2>2. /\ rows \in Nat /\ MaxRows \in Nat /\ rows' \in 0..MaxRows /\ rows + 1 \in 1..rows'
        /\ 1..rows \subseteq 1..rows'
    BY <2>1, DiscussionsAssumption DEF Inbox
  <2>3. new \in [id : 1..rows', user : Users, kind : Kinds, key : Keys \cup {None}, read : BOOLEAN]
    BY <2>2
  <2>4. inbox \subseteq [id : 1..rows', user : Users, kind : Kinds, key : Keys \cup {None}, read : BOOLEAN]
    BY <2>2 DEF Inbox
  <2>5. new.key = k /\ new.user = u
    OBVIOUS
  <2> HIDE DEF new
  <2>6. UniqueKeys'
    BY <1>2, <2>1, <2>5 DEF Inbox, UniqueKeys, Present
  <2>7. \A v \in Users, j \in Keys : j # None => (Present(v, j)' <=> Present(v, j) \/ (v = u /\ j = k))
    BY <2>1, <2>5 DEF Present
  <2>8. told \in [Users -> [Keys -> 0..1]]
    BY DEF Inbox
  <2>9. /\ told' \in [Users -> [Keys -> 0..1]]
        /\ \A v \in Users, j \in Keys : j # None => (told'[v][j] = 1 <=> Present(v, j)')
    <3>1. CASE k = None
      BY <2>1, <2>7, <2>8, <3>1 DEF Inbox
    <3>2. CASE k # None
      <4>1. k \in Keys /\ told[u][k] = 0
        BY <1>2, <2>8, <3>2 DEF Inbox
      <4>2. told' = [told EXCEPT ![u] = [told[u] EXCEPT ![k] = 1]]
        BY <2>1, <2>8, <3>2, <4>1
      <4>3. told' \in [Users -> [Keys -> 0..1]]
        BY <2>8, <4>1, <4>2
      <4>4. \A v \in Users, j \in Keys : told'[v][j] = IF v = u /\ j = k THEN 1 ELSE told[v][j]
        BY <2>8, <4>1, <4>2
      <4> QED
        BY <2>7, <4>3, <4>4 DEF Inbox
    <3> QED
      BY <3>1, <3>2
  <2> QED
    BY <2>1, <2>2, <2>3, <2>4, <2>6, <2>9 DEF Inbox
<1> QED
  BY <1>1, <1>2

LEMMA SendCoreKeeps ==
    ASSUME TInv, NEW c \in Clients, NEW u, NEW kind \in Kinds, SendCore(c, u, kind)
    PROVE  Inbox' /\ (UNCHANGED emission \/ emission' = Emitting(c, "notification.created"))
<1>1. CASE u \in enabled
  <2>1. u \in Users
    BY <1>1 DEF TInv, Editors
  <2> QED
    BY <1>1, <2>1, CreateNotificationKeeps DEF SendCore, TInv
<1>2. CASE u \notin enabled
  BY <1>2, InboxStays DEF SendCore, TInv
<1> QED
  BY <1>1, <1>2

\* One step of the effects of a comment: the request goes on to s, with the recipients
\* that are left.
LEMMA EffectKeeps ==
    ASSUME TInv, begun' \in 0..MaxRequests, NEW c \in Clients, request[c].step \notin {"idle", "plugin"},
           UNCHANGED <<revisions, comments, enabled, watches, drafts, presence>>, Inbox',
           NEW s \in {"mentions", "reply", "watchers", "watching", "event"}, NEW to \in SUBSET Users,
           request' = [request EXCEPT ![c] = [request[c] EXCEPT !.step = s, !.to = to]]
    PROVE  TInv'
<1> DEFINE r == [request[c] EXCEPT !.step = s, !.to = to]
<1>1. request[c] \in Request /\ Sound(request[c], comments, Newest)
  BY DEF TInv, Requests
<1>2. r \in Request /\ Sound(r, comments, Newest)
  BY <1>1, EffectIsSound
<1> HIDE DEF r
<1>3. /\ PageOK /\ PageOK' /\ Requests /\ Sound(r, comments', Newest')
      /\ Keeps(comments, comments') /\ Newest <= Newest'
  BY <1>2 DEF TInv, PageOK, Newest, Keeps
<1>4. request' = [request EXCEPT ![c] = r]
  BY DEF r
<1>5. Requests'
  BY <1>2, <1>3, <1>4, RequestGoesOn
<1> QED
  BY <1>5, TalkStays
\* What a step of a request does to deliveries: nothing, or it begins one.
Emits(c) ==
    /\ UNCHANGED <<webhook, headerIds, key, edit, deliveries>>
    /\ UNCHANGED emission \/ \E e \in Events : emission' = Emitting(c, e)

LEMMA StepForm ==
    ASSUME Requests, NEW c \in Clients, NEW s
    PROVE  /\ [request EXCEPT ![c].step = s]
                = [request EXCEPT ![c] = [request[c] EXCEPT !.step = s, !.to = request[c].to]]
           /\ \A to : [request EXCEPT ![c].step = s, ![c].to = to]
                = [request EXCEPT ![c] = [request[c] EXCEPT !.step = s, !.to = to]]
           /\ \A to : [request EXCEPT ![c].to = to]
                = [request EXCEPT ![c] = [request[c] EXCEPT !.step = request[c].step, !.to = to]]
           /\ request[c].to \in SUBSET Users
  BY DEF Requests, Request

LEMMA SendMentionsKeeps ==
    ASSUME TInv, begun' \in 0..MaxRequests, NEW c \in Clients, SendMentions(c)
    PROVE  TInv' /\ Emits(c)
<1>1. /\ request[c].step = "mentions"
      /\ UNCHANGED <<revisions, comments, enabled, watches, drafts, presence>>
      /\ UNCHANGED <<webhook, headerIds, key, edit, deliveries>>
      /\ Inbox /\ Requests /\ request[c].to \in SUBSET Users
  BY StepForm DEF SendMentions, AtStep, EffectsLeaveAlone, TInv
<1>2. CASE Step(c, "reply") /\ UNCHANGED <<inbox, rows, told, emission>>
  <2>1. request' = [request EXCEPT ![c] = [request[c] EXCEPT !.step = "reply", !.to = request[c].to]]
    BY <1>1, <1>2, StepForm DEF Step
  <2>2. Inbox'
    BY <1>1, <1>2, InboxStays
  <2>3. TInv'
    BY <1>1, <2>1, <2>2, EffectKeeps
  <2> QED
    BY <1>1, <1>2, <2>3 DEF Emits
<1>3. ASSUME NEW u \in request[c].to, SendCore(c, u, "mention"),
             request' = [request EXCEPT ![c].to = request[c].to \ {u}]
      PROVE  TInv' /\ Emits(c)
  <2> DEFINE to == request[c].to \ {u}
  <2>a. request' = [request EXCEPT ![c].to = to]
    BY <1>3
  <2> HIDE DEF to
  <2>b. request' = [request EXCEPT ![c] = [request[c] EXCEPT !.step = request[c].step, !.to = to]]
    BY <1>1, <2>a, StepForm
  <2>1. request' = [request EXCEPT ![c] = [request[c] EXCEPT !.step = "mentions", !.to = to]]
    BY <1>1, <2>b
  <2>2. Inbox' /\ (UNCHANGED emission \/ emission' = Emitting(c, "notification.created"))
    BY <1>3, SendCoreKeeps DEF Kinds
  <2>3. to \in SUBSET Users
    BY <1>1 DEF to
  <2>4. TInv'
    BY <1>1, <2>1, <2>2, <2>3, EffectKeeps
  <2> QED
    BY <1>1, <2>2, <2>4 DEF Emits, Events
<1> QED
  BY <1>2, <1>3 DEF SendMentions

LEMMA NotifyReplyKeeps ==
    ASSUME TInv, begun' \in 0..MaxRequests, NEW c \in Clients, NotifyReply(c)
    PROVE  TInv' /\ Emits(c)
<1>1. /\ request[c].step = "reply"
      /\ UNCHANGED <<revisions, comments, enabled, watches, drafts, presence>>
      /\ UNCHANGED <<webhook, headerIds, key, edit, deliveries>>
      /\ Step(c, "watchers")
      /\ Inbox /\ Requests /\ request[c].to \in SUBSET Users
  BY StepForm DEF NotifyReply, AtStep, EffectsLeaveAlone, TInv
<1>2. request' = [request EXCEPT ![c] = [request[c] EXCEPT !.step = "watchers", !.to = request[c].to]]
  BY <1>1, StepForm DEF Step
<1>3. Inbox' /\ (UNCHANGED emission \/ emission' = Emitting(c, "notification.created"))
  BY <1>1, SendCoreKeeps, InboxStays DEF NotifyReply, Kinds
<1>4. TInv'
  BY <1>1, <1>2, <1>3, EffectKeeps
<1> QED
  BY <1>1, <1>3, <1>4 DEF Emits, Events

LEMMA NotifyWatchersKeeps ==
    ASSUME TInv, begun' \in 0..MaxRequests, NEW c \in Clients, notifyWatchers(c)
    PROVE  TInv' /\ Emits(c)
<1> DEFINE to == PageWatcherUserIDs(request[c].actor)
<1>1. /\ request[c].step = "watchers"
      /\ request' = [request EXCEPT ![c].step = "watching", ![c].to = to]
      /\ UNCHANGED <<talk, hookVars>>
      /\ Inbox /\ Requests
  BY DEF notifyWatchers, AtStep, NoDelivery, TInv
<1>2. to \in SUBSET Users
  BY DEF PageWatcherUserIDs, TInv, Editors
<1> HIDE DEF to
<1>3. request' = [request EXCEPT ![c] = [request[c] EXCEPT !.step = "watching", !.to = to]]
  BY <1>1, StepForm
<1>4. Inbox'
  BY <1>1, InboxStays DEF talk
<1>5. TInv'
  BY <1>1, <1>2, <1>3, <1>4, EffectKeeps DEF talk
<1> QED
  BY <1>1, <1>5 DEF Emits, hookVars

LEMMA NotifyUserKeeps ==
    ASSUME TInv, begun' \in 0..MaxRequests, NEW c \in Clients, notifyUser(c)
    PROVE  TInv' /\ Emits(c)
<1>1. /\ request[c].step = "watching"
      /\ UNCHANGED <<revisions, comments, enabled, watches, drafts, presence>>
      /\ UNCHANGED <<webhook, headerIds, key, edit, deliveries>>
      /\ Inbox /\ Requests /\ request[c].to \in SUBSET Users
  BY StepForm DEF notifyUser, AtStep, EffectsLeaveAlone, TInv
<1>2. CASE Step(c, "event") /\ UNCHANGED <<inbox, rows, told, emission>>
  <2>1. request' = [request EXCEPT ![c] = [request[c] EXCEPT !.step = "event", !.to = request[c].to]]
    BY <1>1, <1>2, StepForm DEF Step
  <2>2. Inbox'
    BY <1>1, <1>2, InboxStays
  <2>3. TInv'
    BY <1>1, <2>1, <2>2, EffectKeeps
  <2> QED
    BY <1>1, <1>2, <2>3 DEF Emits
<1>3. ASSUME NEW u \in request[c].to, SendCore(c, u, "watch"),
             request' = [request EXCEPT ![c].to = request[c].to \ {u}]
      PROVE  TInv' /\ Emits(c)
  <2> DEFINE to == request[c].to \ {u}
  <2>a. request' = [request EXCEPT ![c].to = to]
    BY <1>3
  <2> HIDE DEF to
  <2>b. request' = [request EXCEPT ![c] = [request[c] EXCEPT !.step = request[c].step, !.to = to]]
    BY <1>1, <2>a, StepForm
  <2>1. request' = [request EXCEPT ![c] = [request[c] EXCEPT !.step = "watching", !.to = to]]
    BY <1>1, <2>b
  <2>2. Inbox' /\ (UNCHANGED emission \/ emission' = Emitting(c, "notification.created"))
    BY <1>3, SendCoreKeeps DEF Kinds
  <2>3. to \in SUBSET Users
    BY <1>1 DEF to
  <2>4. TInv'
    BY <1>1, <2>1, <2>2, <2>3, EffectKeeps
  <2> QED
    BY <1>1, <2>2, <2>4 DEF Emits, Events
<1> QED
  BY <1>2, <1>3 DEF notifyUser

\* The page, the comments and the editors stay, and a client's request is over.
LEMMA OverKeeps ==
    ASSUME TInv, begun' \in 0..MaxRequests, NEW c \in Clients, Done(c), Inbox',
           UNCHANGED <<revisions, comments, enabled, watches, drafts, presence>>
    PROVE  TInv'
<1>1. /\ PageOK /\ PageOK' /\ Requests /\ Keeps(comments, comments')
      /\ Newest <= Newest'
  BY DEF TInv, PageOK, Newest, Keeps
<1>2. Requests'
  BY <1>1, DoneKeepsRequests
<1> QED
  BY <1>2, TalkStays

LEMMA SendEventKeeps ==
    ASSUME TInv, begun' \in 0..MaxRequests, NEW c \in Clients, sendEvent(c)
    PROVE  TInv' /\ Emits(c)
<1>1. /\ UNCHANGED emission \/ emission' = Emitting(c, "comment.created")
      /\ Done(c)
      /\ UNCHANGED <<talk, webhook, headerIds, key, edit, deliveries>>
  BY DEF sendEvent
<1>2. Inbox'
  BY <1>1, InboxStays DEF TInv, talk
<1>3. TInv'
  BY <1>1, <1>2, OverKeeps DEF talk
<1> QED
  BY <1>1, <1>3 DEF Emits, Events

LEMMA SendPluginKeeps ==
    ASSUME TInv, begun' \in 0..MaxRequests, NEW c \in Clients, NEW u \in Users, NEW k \in Keys,
           SendPlugin(c, u, k)
    PROVE  TInv'
<1> DEFINE r == [NoRequest EXCEPT !.step = "plugin", !.to = {u}, !.key = k]
<1>1. request' = [request EXCEPT ![c] = r] /\ UNCHANGED talk
  BY DEF SendPlugin, Begin
<1>2. r \in Request /\ r.step = "plugin" /\ r.on = 0
  BY DEF NoRequest, Request, Steps
<1> HIDE DEF r
<1>3. /\ PageOK /\ PageOK' /\ Requests /\ Sound(r, comments', Newest')
      /\ Keeps(comments, comments') /\ Newest <= Newest'
  BY <1>1, <1>2 DEF TInv, PageOK, Newest, Keeps, Sound, talk
<1>4. Requests'
  BY <1>1, <1>2, <1>3, RequestGoesOn
<1> QED
  BY <1>1, <1>4, InboxStays, TalkStays DEF TInv, talk

LEMMA CreatePluginNotificationKeeps ==
    ASSUME TInv, begun' \in 0..MaxRequests, NEW c \in Clients, CreatePluginNotification(c)
    PROVE  TInv' /\ Emits(c)
<1>1. PICK u \in request[c].to : CreateNotification(c, u, "plugin", request[c].key)
  BY DEF CreatePluginNotification
<1>2. request[c].to \in SUBSET Users /\ request[c].key \in Keys \cup {None}
  BY DEF TInv, Requests, Request
<1>3. Inbox' /\ (UNCHANGED emission \/ emission' = Emitting(c, "notification.created"))
  BY <1>1, <1>2, CreateNotificationKeeps DEF TInv, Kinds
<1>4. /\ Done(c) /\ UNCHANGED <<revisions, comments, enabled, watches, drafts, presence>>
      /\ UNCHANGED <<webhook, headerIds, key, edit, deliveries>>
  BY DEF CreatePluginNotification, EffectsLeaveAlone
<1>5. TInv'
  BY <1>3, <1>4, OverKeeps
<1> QED
  BY <1>3, <1>4, <1>5 DEF Emits, Events

-----------------------------------------------------------------------------
(* The inbox, the editors and the administration *)

LEMMA InboxRequestKeeps ==
    ASSUME TInv, begun' \in 0..MaxRequests, NEW u \in Users, InboxRequest(u)
    PROVE  TInv'
<1> DEFINE Notification == [id : 1..rows, user : Users, kind : Kinds, key : Keys \cup {None}, read : BOOLEAN]
<1>1. /\ UNCHANGED <<revisions, comments, enabled, watches, drafts, presence, request>>
      /\ UNCHANGED <<rows, told>>
      /\ inbox \subseteq Notification /\ UniqueKeys
  BY DEF InboxRequest, MarkNotification, MarkAllNotificationsRead, InboxOnly, TInv, Inbox
<1>2. inbox' \subseteq Notification /\ UniqueKeys'
  <2>1. ASSUME NEW id \in 1..rows, NEW read \in BOOLEAN, MarkNotification(u, id, read)
        PROVE  inbox' \subseteq Notification /\ UniqueKeys'
    <3>1. inbox' = {IF n.id = id THEN [n EXCEPT !.read = read] ELSE n : n \in inbox}
      BY <2>1 DEF MarkNotification
    <3>2. inbox' \subseteq Notification
      BY <1>1, <3>1
    <3>3. UniqueKeys'
      BY <1>1, <3>1 DEF UniqueKeys
    <3> QED
      BY <3>2, <3>3
  <2>2. CASE MarkAllNotificationsRead(u)
    <3>1. inbox' = {IF n.user = u THEN [n EXCEPT !.read = TRUE] ELSE n : n \in inbox}
      BY <2>2 DEF MarkAllNotificationsRead
    <3>2. inbox' \subseteq Notification
      BY <1>1, <3>1
    <3>3. ASSUME NEW n \in inbox'
          PROVE  \E m \in inbox : /\ m.key = n.key /\ m.user = n.user
                                  /\ n = IF m.user = u THEN [m EXCEPT !.read = TRUE] ELSE m
      BY <1>1, <3>1
    <3>4. ASSUME NEW m \in inbox', NEW n \in inbox', m.key # None, m.key = n.key, m.user = n.user
          PROVE  m = n
      <4>1. PICK x \in inbox : /\ x.key = m.key /\ x.user = m.user
                               /\ m = IF x.user = u THEN [x EXCEPT !.read = TRUE] ELSE x
        BY <3>3
      <4>2. PICK y \in inbox : /\ y.key = n.key /\ y.user = n.user
                               /\ n = IF y.user = u THEN [y EXCEPT !.read = TRUE] ELSE y
        BY <3>3
      <4>3. x = y
        BY <1>1, <3>4, <4>1, <4>2 DEF UniqueKeys
      <4> QED
        BY <4>1, <4>2, <4>3
    <3>5. UniqueKeys'
      BY <3>4 DEF UniqueKeys
    <3> QED
      BY <3>2, <3>5
  <2> QED
    BY <2>1, <2>2 DEF InboxRequest
<1>3. ASSUME NEW v \in Users, NEW j \in Keys PROVE Present(v, j)' <=> Present(v, j)
  <2>1. ASSUME NEW n \in inbox PROVE \E m \in inbox' : m.key = n.key /\ m.user = n.user
    <3>1. ASSUME NEW id \in 1..rows, NEW read \in BOOLEAN, MarkNotification(u, id, read)
          PROVE  \E m \in inbox' : m.key = n.key /\ m.user = n.user
      <4>1. (IF n.id = id THEN [n EXCEPT !.read = read] ELSE n) \in inbox'
        BY <3>1 DEF MarkNotification
      <4> QED
        BY <1>1, <4>1
    <3>2. CASE MarkAllNotificationsRead(u)
      <4>1. (IF n.user = u THEN [n EXCEPT !.read = TRUE] ELSE n) \in inbox'
        BY <3>2 DEF MarkAllNotificationsRead
      <4> QED
        BY <1>1, <4>1
    <3> QED
      BY <3>1, <3>2 DEF InboxRequest
  <2>2. ASSUME NEW m \in inbox' PROVE \E n \in inbox : m.key = n.key /\ m.user = n.user
    <3>1. ASSUME NEW id \in 1..rows, NEW read \in BOOLEAN, MarkNotification(u, id, read)
          PROVE  \E n \in inbox : m.key = n.key /\ m.user = n.user
      <4>1. PICK n \in inbox : m = IF n.id = id THEN [n EXCEPT !.read = read] ELSE n
        BY <3>1 DEF MarkNotification
      <4> QED
        BY <1>1, <4>1
    <3>2. CASE MarkAllNotificationsRead(u)
      <4>1. PICK n \in inbox : m = IF n.user = u THEN [n EXCEPT !.read = TRUE] ELSE n
        BY <3>2 DEF MarkAllNotificationsRead
      <4> QED
        BY <1>1, <4>1
    <3> QED
      BY <3>1, <3>2 DEF InboxRequest
  <2> QED
    BY <2>1, <2>2 DEF Present
<1>5. Inbox'
  BY <1>1, <1>2, <1>3 DEF TInv, Inbox
<1>4. Requests'
  BY <1>1 DEF TInv, Requests, Newest
<1> QED
  BY <1>1, <1>4, <1>5, TalkStays

\* Deleting the row of a key takes back what was told of it.
LEMMA DeleteNotificationKeeps ==
    ASSUME TInv, begun' \in 0..MaxRequests, NEW u \in Users, NEW id \in 1..rows, DeleteNotification(u, id)
    PROVE  TInv'
<1>1. PICK n \in inbox :
          /\ n.id = id /\ n.user = u
          /\ inbox' = inbox \ {n}
          /\ told' = IF n.key = None THEN told ELSE [told EXCEPT ![u][n.key] = told[u][n.key] - 1]
  BY DEF DeleteNotification
<1>2. UNCHANGED <<revisions, comments, enabled, watches, drafts, presence, request, rows>>
  BY DEF DeleteNotification, InboxOnly
<1>3. /\ told \in [Users -> [Keys -> 0..1]] /\ n.key \in Keys \cup {None} /\ UniqueKeys
      /\ \A v \in Users, k \in Keys : k # None => (told[v][k] = 1 <=> Present(v, k))
  BY DEF TInv, Inbox
<1>4. /\ told' \in [Users -> [Keys -> 0..1]]
      /\ \A v \in Users, k \in Keys : k # None => (told'[v][k] = 1 <=> Present(v, k)')
  <2>1. \A v \in Users, k \in Keys : k # None => (Present(v, k)' <=> Present(v, k) /\ ~(v = u /\ k = n.key))
    BY <1>1, <1>3 DEF Present, UniqueKeys
  <2>2. CASE n.key = None
    BY <1>1, <1>3, <2>1, <2>2
  <2>3. CASE n.key # None
    <3>1. n.key \in Keys /\ Present(u, n.key)
      BY <1>1, <1>3, <2>3 DEF Present
    <3>2. told[u][n.key] = 1
      BY <1>3, <2>3, <3>1
    <3>3. told' = [told EXCEPT ![u] = [told[u] EXCEPT ![n.key] = 0]]
      BY <1>1, <1>3, <2>3, <3>1, <3>2
    <3>4. told' \in [Users -> [Keys -> 0..1]]
      BY <1>3, <3>1, <3>3
    <3>5. \A v \in Users, k \in Keys : told'[v][k] = IF v = u /\ k = n.key THEN 0 ELSE told[v][k]
      BY <1>3, <3>1, <3>3
    <3> QED
      BY <1>3, <2>1, <3>4, <3>5
  <2> QED
    BY <2>2, <2>3
<1>5. UniqueKeys'
  BY <1>1, <1>3 DEF UniqueKeys
<1>6. Inbox'
  BY <1>1, <1>2, <1>4, <1>5 DEF TInv, Inbox
<1>7. Requests'
  BY <1>2 DEF TInv, Requests, Newest
<1> QED
  BY <1>2, <1>6, <1>7, TalkStays DEF TInv

LEMMA EditorRequestKeeps ==
    ASSUME TInv, begun' \in 0..MaxRequests, NEW u \in Users, EditorRequest(u)
    PROVE  TInv'
<1>1. UNCHANGED <<revisions, comments, enabled, inbox, rows, told, request>>
  BY DEF EditorRequest, SavePageDraft, DeletePageDraft, TouchPageEditor, LeavePageEditor, HeartbeatLapses,
         SetPageWatch, EditorsOnly
<1>2. PageOK' /\ Thread' /\ Requests' /\ Inbox'
  BY <1>1, InboxStays DEF TInv, PageOK, Newest, Thread, Requests
<1>3. Newest \in Nat
  BY DEF TInv, PageOK, Newest, Keeps
<1>4. Editors'
  <2>1. CASE SavePageDraft(u)
    BY <1>1, <1>3, <2>1 DEF SavePageDraft, TInv, Editors, Newest
  <2>2. CASE DeletePageDraft(u)
    BY <1>1, <1>3, <2>2 DEF DeletePageDraft, TInv, Editors, Newest
  <2>3. CASE TouchPageEditor(u) \/ LeavePageEditor(u) \/ HeartbeatLapses(u)
    BY <1>1, <2>3 DEF TouchPageEditor, LeavePageEditor, HeartbeatLapses, TInv, Editors, Newest
  <2>4. ASSUME NEW scope \in {"none", "page", "subtree"}, SetPageWatch(u, scope)
        PROVE  Editors'
    BY <1>1, <2>4 DEF SetPageWatch, TInv, Editors, Newest
  <2> QED
    BY <2>1, <2>2, <2>3, <2>4 DEF EditorRequest
<1> QED
  BY <1>2, <1>4 DEF TInv

LEMMA AdministrationKeeps ==
    ASSUME TInv, begun' \in 0..MaxRequests, NEW u \in Users, SetEnabled(u) \/ SetDiscussions
    PROVE  TInv'
<1>1. UNCHANGED <<revisions, comments, watches, inbox, rows, told, drafts, presence, request>>
  BY DEF SetEnabled, SetDiscussions
<1>2. enabled' \subseteq Users
  BY DEF SetEnabled, SetDiscussions, TInv, Editors
<1> QED
  BY <1>1, <1>2, InboxStays DEF TInv, PageOK, Newest, Keeps, Thread, Requests, Editors

LEMMA RestartKeeps ==
    ASSUME TInv, begun' \in 0..MaxRequests, Restart
    PROVE  TInv'
<1>1. Requests'
  BY BeginningRequest DEF Restart, Requests, talk
<1> QED
  BY <1>1, InboxStays, TalkStays DEF Restart, TInv, talk
-----------------------------------------------------------------------------
(* The specification *)

LEMMA InitInvariant == Init => DInv
<1> SUFFICES ASSUME Init PROVE DInv
  OBVIOUS
<1>1. HInv
  BY HooksInitInvariant DEF Init
<1>2. {MaxContents, MaxComments, MaxRows, MaxRequests} \subseteq Nat
  BY DiscussionsAssumption
<1>3. 0 \in 0..MaxContents /\ 0 \in 0..MaxRows /\ 0 \in 0..MaxRequests /\ 1..MaxContents \subseteq 0..MaxContents
  BY <1>2
<1>4. [x \in Spans |-> 0] \in Sources
  BY <1>3 DEF Sources
<1>5. PageOK
  BY <1>3, <1>4 DEF Init, PageOK, Newest, Keeps
<1>6. comments \in Seq(Opened) /\ Len(comments) <= MaxComments /\ Newest = 1
  BY DiscussionsAssumption DEF Init, Newest
<1>7. Thread
  <2>1. DOMAIN comments = 1..Len(comments) /\ Len(comments) \in Nat /\ comments \in [DOMAIN comments -> Opened]
    BY <1>6
  <2>2. DOMAIN comments \subseteq Ids
    BY <1>2, <1>6, <2>1 DEF Ids
  <2>3. ASSUME NEW o \in Opened
        PROVE  o \in Comment /\ o.parent = 0 /\ o.sug.number = 1 /\ ~o.applied
    <3>1. o.sug \in Suggestions
      BY <1>3 DEF Opened, Suggestions
    <3> QED
      BY <3>1 DEF Opened, Comment
  <2> QED
    BY <1>6, <2>1, <2>2, <2>3 DEF Thread
<1>8. Requests
  BY BeginningRequest DEF Init, Requests
<1>9. Inbox
  BY <1>2, <1>3 DEF Init, Inbox, UniqueKeys, Present
<1>10. Editors
  BY <1>5 DEF Init, Editors, PageOK, Newest, Keeps
<1> QED
  BY <1>1, <1>3, <1>5, <1>7, <1>8, <1>9, <1>10 DEF DInv, TInv, Init

\* A step of a request touches webhooks in that it begins a delivery.
LEMMA EmitsKeeps ==
    ASSUME HInv, NEW c \in Clients, Emits(c)
    PROVE  HInv'
<1>1. CASE UNCHANGED hookVars
  BY <1>1 DEF HInv, HooksTypeOK, hookVars
<1>2. ASSUME NEW e \in Events, emission' = Emitting(c, e) PROVE HInv'
  BY <1>2, EmittingInvariant DEF Emits
<1> QED
  BY <1>1, <1>2 DEF Emits, hookVars

LEMMA HooksStay == HInv /\ UNCHANGED hookVars => HInv'
  BY DEF HInv, HooksTypeOK, hookVars

LEMMA BeginKeeps ==
    ASSUME DInv, BeginAny
    PROVE  DInv'
<1>1. begun' \in 0..MaxRequests
  BY DiscussionsAssumption DEF BeginAny, DInv, TInv
<1>2. HInv /\ TInv
  BY DEF DInv
<1>3. ASSUME NEW c \in Clients, DiscussionRequest(c) PROVE DInv'
  <2>1. UNCHANGED hookVars
    BY <1>3 DEF DiscussionRequest, AddComment, AddSuggestion, ApplyCommentSuggestion, SendPlugin, NoDelivery
  <2>2. TInv'
    <3>1. Mentioned \subseteq SUBSET Users
      BY DiscussionsAssumption
    <3> QED
      BY <1>1, <1>2, <1>3, <3>1, AddCommentKeeps, AddSuggestionKeeps, ApplyCommentSuggestionKeeps, SendPluginKeeps
         DEF DiscussionRequest
  <2> QED
    BY <1>2, <2>1, <2>2, HooksStay DEF DInv
<1>4. ASSUME NEW c \in Clients, AdminRequest(c) PROVE DInv'
  BY <1>1, <1>2, <1>4, AdminWebhookInvariant, AllStays DEF AdminRequest, DInv
<1>5. CASE Other
  <2>1. ASSUME NEW k \in Ids, NEW b \in BOOLEAN, ResolvePageComment(k, b) PROVE DInv'
    BY <1>1, <1>2, <2>1, ResolveKeeps, HooksStay DEF ResolvePageComment, NoDelivery, DInv
  <2>2. ASSUME NEW u \in Users, InboxRequest(u) PROVE DInv'
    <3>1. UNCHANGED hookVars
      BY <2>2 DEF InboxRequest, MarkNotification, MarkAllNotificationsRead, InboxOnly
    <3> QED
      BY <1>1, <1>2, <2>2, <3>1, InboxRequestKeeps, HooksStay DEF DInv
  <2>3. ASSUME NEW u \in Users, EditorRequest(u) PROVE DInv'
    <3>1. UNCHANGED hookVars
      BY <2>3 DEF EditorRequest, SavePageDraft, DeletePageDraft, TouchPageEditor, LeavePageEditor,
                  HeartbeatLapses, SetPageWatch, EditorsOnly
    <3> QED
      BY <1>1, <1>2, <2>3, <3>1, EditorRequestKeeps, HooksStay DEF DInv
  <2>4. ASSUME NEW u \in Users, SetEnabled(u) PROVE DInv'
    BY <1>1, <1>2, <2>4, AdministrationKeeps, HooksStay DEF SetEnabled, DInv
  <2>5. CASE SetDiscussions
    <3>1. UNCHANGED hookVars /\ UNCHANGED <<revisions, comments, enabled, watches, drafts, presence>>
          /\ UNCHANGED <<inbox, rows, told, request>>
      BY <2>5 DEF SetDiscussions
    <3>2. Requests'
      BY <1>2, <3>1 DEF TInv, Requests, Newest
    <3>3. TInv'
      BY <1>1, <1>2, <3>1, <3>2, InboxStays, TalkStays DEF TInv
    <3> QED
      BY <1>2, <3>1, <3>3, HooksStay DEF DInv
  <2>6. CASE Restart
    BY <1>1, <1>2, <2>6, HooksRestart, RestartKeeps DEF DInv
  <2> QED
    BY <1>5, <2>1, <2>2, <2>3, <2>4, <2>5, <2>6 DEF Other
<1> QED
  BY <1>3, <1>4, <1>5 DEF BeginAny

LEMMA ContinueKeeps ==
    ASSUME DInv, NEW c \in Clients, ContinueRequest(c), UNCHANGED begun
    PROVE  DInv'
<1>1. begun' \in 0..MaxRequests /\ HInv /\ TInv
  BY DEF DInv, TInv
<1>2. CASE AddPageComment(c)
  BY <1>1, <1>2, AddPageCommentKeeps, HooksStay DEF AddPageComment, NoDelivery, DInv
<1>3. CASE AddPageSuggestion(c)
  BY <1>1, <1>3, AddPageSuggestionKeeps, HooksStay DEF AddPageSuggestion, NoDelivery, DInv
<1>a. CASE LatestRevision(c) \/ loadApplicableCommentSuggestion(c)
  BY <1>1, <1>a, LatestRevisionKeeps, LoadKeeps, HooksStay
     DEF LatestRevision, loadApplicableCommentSuggestion, NoDelivery, DInv
<1>4. CASE ApplyPageCommentSuggestion(c)
  BY <1>1, <1>4, ApplyPageCommentSuggestionKeeps, HooksStay DEF ApplyPageCommentSuggestion, NoDelivery, DInv
<1>5. CASE SendMentions(c) \/ NotifyReply(c) \/ notifyWatchers(c) \/ notifyUser(c) \/ sendEvent(c)
           \/ CreatePluginNotification(c)
  BY <1>1, <1>5, SendMentionsKeeps, NotifyReplyKeeps, NotifyWatchersKeeps, NotifyUserKeeps, SendEventKeeps,
     CreatePluginNotificationKeeps, EmitsKeeps DEF DInv
<1> QED
  BY <1>2, <1>3, <1>4, <1>5, <1>a DEF ContinueRequest

LEMMA StepInvariant == DInv /\ [Next]_vars => DInv'
<1> SUFFICES ASSUME DInv, [Next]_vars PROVE DInv'
  OBVIOUS
<1>1. begun \in 0..MaxRequests /\ HInv /\ TInv
  BY DEF DInv, TInv
<1>2. CASE BeginAny
  BY <1>2, BeginKeeps
<1>3. ASSUME NEW x \in Spans, NEW v \in 0..MaxContents, SourceChanges(x, v), UNCHANGED begun PROVE DInv'
  BY <1>1, <1>3, SourceChangeKeeps, HooksStay DEF SourceChanges, NoDelivery, DInv
<1>a. ASSUME NEW u \in Users, NEW id \in 1..rows, DeleteNotification(u, id), UNCHANGED begun PROVE DInv'
  BY <1>1, <1>a, DeleteNotificationKeeps, HooksStay DEF DeleteNotification, InboxOnly, DInv
<1>4. ASSUME NEW c \in Clients, ContinueRequest(c), UNCHANGED begun PROVE DInv'
  BY <1>4, ContinueKeeps
<1>5. ASSUME NEW c \in Clients, ContinueDelivery(c), UNCHANGED <<talk, request, begun>> PROVE DInv'
  BY <1>1, <1>5, DeliveryInvariant, AllStays DEF DInv
<1>6. CASE UNCHANGED vars
  BY <1>1, <1>6, HooksStay, AllStays DEF vars, DInv
<1> QED
  BY <1>2, <1>3, <1>4, <1>5, <1>6, <1>a DEF Next

\* Webhooks, comments and notifications are what a request that is under way takes
\* them to be, whatever the others do between its transactions.
THEOREM Invariance == Spec => []DInv
<1>1. Init => DInv
  BY InitInvariant
<1>2. DInv /\ [Next]_vars => DInv'
  BY StepInvariant
<1> QED
  BY <1>1, <1>2, PTL DEF Spec

\* Every variable of the discussions has its type: comments answer comments there are
\* and suggest about revisions there are, and a plugin's key has one notification of a user.
THEOREM TypeCorrectness == Spec => []TypeOK
<1>1. DInv => TypeOK
  BY TypesFollow
<1> QED
  BY <1>1, Invariance, PTL

\* Whatever several administrators keep of each other's headers, with forms loaded before
\* or after a save and with the key gone for a while, no ciphertext is ever shown or sent
\* as a value (prepareWebhookHeaders, webhookRequestHeaders).
THEOREM SecretsStaySealed == Spec => []HeadersMatchTheirMark
<1>1. DInv => HeadersMatchTheirMark
  BY FormsAreMarked DEF DInv
<1> QED
  BY <1>1, Invariance, PTL

\* However often and on however many clients a plugin retries SendPlugin, webhooks hear
\* of its notification at most once, and once more for each time the recipient deleted
\* it (CreateNotification, emitCreated, DeleteNotification).
THEOREM CreationsAreToldOnce == Spec => []CreationIsEmittedOnce
<1>1. DInv => CreationIsEmittedOnce
  <2>1. DInv => \A u \in Users, k \in Keys : told[u][k] \in 0..1
    BY DEF DInv, TInv, Inbox
  <2> QED
    BY <2>1 DEF CreationIsEmittedOnce
<1> QED
  BY <1>1, Invariance, PTL
-----------------------------------------------------------------------------
(* Suggestions *)

\* What SuggestionsMeetTheirRevision says of one comment.
MeetsItsRevision(k) ==
    LET g == comments[k].sug IN
    /\ g \in Suggestions
    /\ 0 < g.number /\ g.number < Newest
    /\ suggestionMatchesSource(revisions[g.number], g)
    /\ revisions[g.number + 1] = Replaced(revisions[g.number], g)

AppliedInv ==
    /\ \A k \in DOMAIN comments : comments[k].applied => MeetsItsRevision(k)
    /\ \A j, k \in DOMAIN comments :
          comments[j].applied /\ comments[k].applied /\ comments[j].sug.number = comments[k].sug.number => j = k

\* The revisions there are stay as they are, and no comment becomes applied or changes
\* its suggestion.
LEMMA AppliedStays ==
    ASSUME AppliedInv, PageOK, PageOK', Newest <= Newest', \A n \in 1..Newest : revisions'[n] = revisions[n],
           \A k \in DOMAIN comments' : comments'[k].applied =>
               k \in DOMAIN comments /\ comments[k].applied /\ comments'[k].sug = comments[k].sug
    PROVE  AppliedInv'
<1>1. ASSUME NEW k \in DOMAIN comments', comments'[k].applied PROVE MeetsItsRevision(k)'
  <2>1. MeetsItsRevision(k) /\ comments'[k].sug = comments[k].sug
    BY <1>1 DEF AppliedInv
  <2> DEFINE n == comments[k].sug.number
  <2>2. n \in 1..Newest /\ n + 1 \in 1..Newest /\ n < Newest'
    BY <2>1 DEF MeetsItsRevision, Suggestions, PageOK
  <2>3. revisions'[n] = revisions[n] /\ revisions'[n + 1] = revisions[n + 1]
    BY <2>2
  <2> QED
    BY <2>1, <2>2, <2>3 DEF MeetsItsRevision, suggestionMatchesSource, Replaced
<1> QED
  BY <1>1 DEF AppliedInv

LEMMA ApplyingMeetsItsRevision ==
    ASSUME TInv, AppliedInv, NEW c \in Clients, ApplyPageCommentSuggestion(c)
    PROVE  AppliedInv'
<1> PICK k : k = request[c].on
  OBVIOUS
<1> DEFINE g == comments[k].sug
<1>1. /\ request[c].step = "apply" /\ Sound(request[c], comments, Newest)
      /\ k \in DOMAIN comments /\ request[c].text \in Sources /\ PageOK /\ Newest \in Nat
  BY DEF ApplyPageCommentSuggestion, AtStep, TInv, Requests, Sound, PageOK
<1>2. CASE UNCHANGED <<revisions, comments>>
  BY <1>2 DEF AppliedInv, MeetsItsRevision, Newest
<1>3. CASE /\ validateCommentSuggestion(k, request[c].text)
           /\ revisions' = Append(revisions, request[c].text)
           /\ comments' = [comments EXCEPT ![k].applied = TRUE]
  <2>1. /\ PageOK' /\ Newest' = Newest + 1
        /\ revisions'[Newest + 1] = request[c].text
        /\ \A n \in 1..Newest : revisions'[n] = revisions[n]
    BY <1>1, <1>3, Appended
  <2>2. /\ DOMAIN comments' = DOMAIN comments
        /\ \A j \in DOMAIN comments : comments'[j].sug = comments[j].sug
        /\ \A j \in DOMAIN comments : j # k => comments'[j] = comments[j]
        /\ comments[k] \in Comment
    BY <1>1, <1>3 DEF TInv, Thread, Comment
  <2>3. /\ g.number = Newest /\ suggestionMatchesSource(revisions[Newest], g)
        /\ request[c].text = Replaced(revisions[Newest], g)
    BY <1>3 DEF validateCommentSuggestion, Source
  <2>4. g \in Suggestions
    BY <1>1 DEF Sound
  <2>5. 0 < Newest
    BY <1>1 DEF PageOK
  <2>6. MeetsItsRevision(k)'
    <3>1. comments'[k].sug = g /\ 0 < g.number /\ g.number < Newest'
      BY <1>1, <2>1, <2>2, <2>3, <2>5
    <3>2. revisions'[g.number] = revisions[g.number] /\ revisions'[g.number + 1] = request[c].text
      BY <1>1, <2>1, <2>3, <2>5
    <3>3. MeetsItsRevision(k)' <=>
             LET h == comments'[k].sug IN
             /\ h \in Suggestions
             /\ 0 < h.number /\ h.number < Newest'
             /\ suggestionMatchesSource(revisions'[h.number], h)
             /\ revisions'[h.number + 1] = Replaced(revisions'[h.number], h)
      BY DEF MeetsItsRevision, suggestionMatchesSource, Replaced, Suggestions
    <3> QED
      BY <2>3, <2>4, <3>1, <3>2, <3>3
  <2>7. ASSUME NEW j \in DOMAIN comments', comments'[j].applied, j # k
        PROVE  MeetsItsRevision(j)' /\ comments'[j].sug.number < Newest
    <3>1. MeetsItsRevision(j) /\ comments'[j].sug = comments[j].sug
      BY <2>2, <2>7 DEF AppliedInv
    <3> DEFINE n == comments[j].sug.number
    <3>2. n \in 1..Newest /\ n + 1 \in 1..Newest /\ n < Newest /\ n < Newest'
      BY <1>1, <2>1, <3>1 DEF MeetsItsRevision, Suggestions
    <3>3. revisions'[n] = revisions[n] /\ revisions'[n + 1] = revisions[n + 1]
      BY <2>1, <3>2
    <3> QED
      BY <3>1, <3>2, <3>3 DEF MeetsItsRevision, suggestionMatchesSource, Replaced
  <2>8. comments'[k].sug.number = Newest
    BY <1>1, <2>2, <2>3
  <2>9. ASSUME NEW i \in DOMAIN comments', NEW j \in DOMAIN comments', comments'[i].applied, comments'[j].applied,
               comments'[i].sug.number = comments'[j].sug.number
        PROVE  i = j
    <3>1. CASE i # k /\ j # k
      BY <2>2, <2>9, <3>1 DEF AppliedInv
    <3>2. CASE i = k /\ j # k
      BY <1>1, <2>7, <2>8, <2>9, <3>2
    <3>3. CASE j = k /\ i # k
      BY <1>1, <2>7, <2>8, <2>9, <3>3
    <3> QED
      BY <3>1, <3>2, <3>3
  <2> QED
    BY <2>6, <2>7, <2>9 DEF AppliedInv
<1> QED
  BY <1>2, <1>3 DEF ApplyPageCommentSuggestion

\* What a step that is not the application of a suggestion does to the thread.
OthersKeep ==
    \A k \in DOMAIN comments' : comments'[k].applied =>
        k \in DOMAIN comments /\ comments[k].applied /\ comments'[k].sug = comments[k].sug

LEMMA OthersApplyNothing ==
    ASSUME TInv, [Next]_vars, \A c \in Clients : ~ApplyPageCommentSuggestion(c)
    PROVE  OthersKeep
<1>0. UNCHANGED comments => OthersKeep
  BY DEF OthersKeep
<1>1. ASSUME NEW x, ~x.applied,
             comments' = Append(comments, x)
      PROVE  OthersKeep
  BY <1>1 DEF OthersKeep, TInv, Thread
<1>2. ASSUME NEW c \in Clients, AddPageComment(c) PROVE OthersKeep
  BY <1>1, <1>2 DEF AddPageComment
<1>3. ASSUME NEW c \in Clients, AddPageSuggestion(c) PROVE OthersKeep
  BY <1>0, <1>1, <1>3 DEF AddPageSuggestion
<1>4. ASSUME NEW j \in Ids, NEW b \in BOOLEAN, ResolvePageComment(j, b) PROVE OthersKeep
  <2>1. j \in DOMAIN comments /\ comments' = [comments EXCEPT ![j].resolved = b]
    BY <1>4 DEF ResolvePageComment
  <2>2. ASSUME NEW k \in DOMAIN comments
        PROVE  comments'[k].applied = comments[k].applied /\ comments'[k].sug = comments[k].sug
    BY <2>1 DEF TInv, Thread, Comment
  <2> QED
    BY <2>1, <2>2 DEF OthersKeep
<1>5. CASE BeginAny
  <2>1. ASSUME NEW c \in Clients, DiscussionRequest(c) PROVE UNCHANGED comments
    BY <2>1 DEF DiscussionRequest, AddComment, AddSuggestion, ApplyCommentSuggestion, SendPlugin, talk
  <2>2. ASSUME NEW c \in Clients, AdminRequest(c) PROVE UNCHANGED comments
    BY <2>2 DEF AdminRequest, talk
  <2>3. CASE Other
    BY <1>0, <1>4, <2>3 DEF Other, InboxRequest, MarkNotification, MarkAllNotificationsRead,
       InboxOnly, EditorRequest, SavePageDraft, DeletePageDraft, TouchPageEditor,
       LeavePageEditor, HeartbeatLapses, SetPageWatch, EditorsOnly, SetEnabled, SetDiscussions, Restart, talk
  <2> QED
    BY <1>0, <1>5, <2>1, <2>2, <2>3 DEF BeginAny
<1>6. ASSUME NEW x \in Spans, NEW v \in 0..MaxContents, SourceChanges(x, v) PROVE OthersKeep
  BY <1>0, <1>6 DEF SourceChanges
<1>7. ASSUME NEW u \in Users, NEW id \in 1..rows, DeleteNotification(u, id) PROVE OthersKeep
  BY <1>0, <1>7 DEF DeleteNotification, InboxOnly
<1>8. ASSUME NEW c \in Clients, ContinueRequest(c) PROVE OthersKeep
  BY <1>0, <1>2, <1>3, <1>8 DEF ContinueRequest, LatestRevision, loadApplicableCommentSuggestion, SendMentions,
     NotifyReply, notifyWatchers, notifyUser, sendEvent, CreatePluginNotification, EffectsLeaveAlone, talk
<1>9. CASE UNCHANGED talk
  BY <1>0, <1>9 DEF talk
<1> QED
  BY <1>5, <1>6, <1>7, <1>8, <1>9 DEF Next, vars

\* Revisions are only ever added.
LEMMA RevisionsStay ==
    ASSUME TInv, [Next]_vars, \A c \in Clients : ~ApplyPageCommentSuggestion(c)
    PROVE  PageOK' /\ Newest <= Newest' /\ \A n \in 1..Newest : revisions'[n] = revisions[n]
<1>1. ASSUME NEW x \in Spans, NEW v \in 0..MaxContents, SourceChanges(x, v)
      PROVE  PageOK' /\ Newest <= Newest' /\ \A n \in 1..Newest : revisions'[n] = revisions[n]
  <2>1. [Source EXCEPT ![x] = v] \in Sources /\ Newest \in Nat /\ PageOK
    BY SourceThere DEF TInv, Sources
  <2>2. revisions' = Append(revisions, [Source EXCEPT ![x] = v])
    BY <1>1 DEF SourceChanges
  <2>3. PageOK' /\ Newest' = Newest + 1 /\ \A n \in 1..Newest : revisions'[n] = revisions[n]
    BY <2>1, <2>2, Appended
  <2> QED
    BY <2>1, <2>3
<1>2. CASE UNCHANGED revisions
  BY <1>2 DEF TInv, PageOK, Newest
<1>3. CASE BeginAny
  <2>1. ASSUME NEW c \in Clients, DiscussionRequest(c) PROVE UNCHANGED revisions
    BY <2>1 DEF DiscussionRequest, AddComment, AddSuggestion, ApplyCommentSuggestion, SendPlugin, talk
  <2>2. ASSUME NEW c \in Clients, AdminRequest(c) PROVE UNCHANGED revisions
    BY <2>2 DEF AdminRequest, talk
  <2>3. CASE Other
    <3>1. ASSUME NEW u \in Users, InboxRequest(u) \/ EditorRequest(u) PROVE UNCHANGED revisions
      BY <3>1 DEF InboxRequest, MarkNotification, MarkAllNotificationsRead, InboxOnly, EditorRequest,
         SavePageDraft, DeletePageDraft, TouchPageEditor, LeavePageEditor, HeartbeatLapses, SetPageWatch, EditorsOnly
    <3>2. ASSUME NEW u \in Users, SetEnabled(u) PROVE UNCHANGED revisions
      BY <3>2 DEF SetEnabled
    <3>3. ASSUME SetDiscussions \/ Restart PROVE UNCHANGED revisions
      BY <3>3 DEF SetDiscussions, Restart, talk
    <3>4. ASSUME NEW k \in Ids, NEW b \in BOOLEAN, ResolvePageComment(k, b) PROVE UNCHANGED revisions
      BY <3>4 DEF ResolvePageComment
    <3> QED
      BY <1>2, <2>3, <3>1, <3>2, <3>3, <3>4 DEF Other
  <2> QED
    BY <1>2, <1>3, <2>1, <2>2, <2>3 DEF BeginAny
<1>4. ASSUME NEW u \in Users, NEW id \in 1..rows, DeleteNotification(u, id) PROVE UNCHANGED revisions
  BY <1>4 DEF DeleteNotification, InboxOnly
<1>5. ASSUME NEW c \in Clients, ContinueRequest(c) PROVE UNCHANGED revisions
  BY <1>5 DEF ContinueRequest, AddPageComment, AddPageSuggestion, LatestRevision, loadApplicableCommentSuggestion,
     SendMentions, NotifyReply, notifyWatchers, notifyUser, sendEvent, CreatePluginNotification,
     EffectsLeaveAlone, talk
<1>6. CASE UNCHANGED talk
  BY <1>2, <1>6 DEF talk
<1> QED
  BY <1>1, <1>2, <1>3, <1>4, <1>5, <1>6 DEF Next, vars

LEMMA AppliedInvariant == TInv /\ AppliedInv /\ [Next]_vars => AppliedInv'
<1> SUFFICES ASSUME TInv, AppliedInv, [Next]_vars PROVE AppliedInv'
  OBVIOUS
<1>1. ASSUME NEW c \in Clients, ApplyPageCommentSuggestion(c) PROVE AppliedInv'
  BY <1>1, ApplyingMeetsItsRevision
<1>2. CASE \A c \in Clients : ~ApplyPageCommentSuggestion(c)
  <2>1. PageOK' /\ Newest <= Newest' /\ \A n \in 1..Newest : revisions'[n] = revisions[n]
    BY <1>2, RevisionsStay
  <2>2. OthersKeep /\ PageOK
    BY <1>2, OthersApplyNothing DEF TInv
  <2> QED
    BY <2>1, <2>2, AppliedStays DEF OthersKeep
<1> QED
  BY <1>1, <1>2

\* A suggestion that was applied made the next revision of the one it was prepared on by
\* replacing its passage alone, whatever saves, moves and other suggestions commit between
\* reading it and locking the page (validateCommentSuggestion, ApplyPageCommentSuggestion).
THEOREM SuggestionsApplyToTheirRevision == Spec => []SuggestionsMeetTheirRevision
<1>1. Init => AppliedInv
  <2>1. Init => \A k \in DOMAIN comments : ~comments[k].applied
    <3>1. ASSUME Init PROVE comments \in Seq(Opened)
      BY <3>1, DiscussionsAssumption DEF Init
    <3>2. ASSUME Init, NEW k \in DOMAIN comments PROVE comments[k] \in Opened
      BY <3>1, <3>2
    <3> QED
      BY <3>2 DEF Opened
  <2> QED
    BY <2>1 DEF AppliedInv
<1>2. TInv /\ AppliedInv /\ [Next]_vars => AppliedInv'
  BY AppliedInvariant
<1>3. DInv => TInv
  BY DEF DInv
<1>4. AppliedInv => SuggestionsMeetTheirRevision
  BY DEF AppliedInv, MeetsItsRevision, SuggestionsMeetTheirRevision
<1> QED
  BY <1>1, <1>2, <1>3, <1>4, Invariance, PTL DEF Spec
=============================================================================
