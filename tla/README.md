# A TLA+ model of Kumbuka

Kumbuka is a wiki server written in Go. Pages live in PostgreSQL, several
servers may share one database, and plugins, packaged as WASM, contribute to
how pages are rendered. This directory models the parts of the server whose
correctness depends on the order in which requests, transactions, workers and
crashes take their steps, checks them with TLC on small instances, and proves
central properties of them with TLAPS for instances of any size.

Paths below are relative to the repository (`src/` in `PROJECT.json`).

## Inventory

| Part | State it keeps | Operations | What is hard | What makes it correct |
|---|---|---|---|---|
| Page store (`internal/postgres/page_save.go`, `page_concurrency.go`, `page_revision_metadata.go`, `page_bulk.go`, `page_recycle_bin.go`) | page row with token `updated_at`, revisions, tags, render artifact | save, conditional save, restore of a revision, bulk edits, bin | READ COMMITTED: reads before locks, creates that race, tokens some writers do not advance | the history is complete and ends with the page; a conditional save overwrites only what its editor saw |
| Paths, access and reads (`page_moves.go`, `page_aliases.go`, `application/access`, `application/pages/view.go`) | paths, aliases, links, icons, rules; a cache of icons in memory | save, move with children, bulk move, imports, purge; views by path, alias, permalink, list | destinations are validated, and rules asked, without locks | a path keeps leading to its page; nobody is shown a page whose path was hidden all along |
| Archives and media (`application/portablearchive`, `application/media`) | images, attachments, references in texts | upload, delete, export, restore | exports read in many statements; numbers of files change in a restore | archives keep what pages show; used files stay |
| Reviews (`page_approvals.go`, `page_review_feedback.go`, `application/pages/page_reviews.go`) | requests, reviewers, open suggestions | request, update, cancel, decide, comment, apply | statements that wait for a lock keep an older snapshot for their subselects | no outcome passes over a save; closed reviews are final |
| Discussions (`page_comments.go`, `application/pages/page_discussions.go`, `notifications.go`, `page_watches.go`, `drafts.go`) | comments, suggestions, inbox, watches, drafts, presence | comment, reply, resolve, apply a suggestion, notify, watch | effects after the commit, retried notifications, sources that change under a suggestion | an applied suggestion makes the next revision of the one it was prepared on; a notification is announced once |
| Webhooks (`application/webhooks`) | definitions with encrypted headers | save, delete, reveal, deliver with retries | forms that show a mask for a secret | no cipher text becomes a value |
| Plugin lifecycle (`pkg/plugin`) | installations in the database; loaded plugins, registry and lifetimes in memory | install, enable, disable, upgrade, uninstall, startup, shutdown | renders lease what an operation replaces; commits fail; servers share the store | nothing leased is closed, nothing is closed twice, the published plugins are consistent |
| Plugin runtime (`pkg/plugin/wasm`) | compiled code and its leases, instances, guests, gates | load, evict, call, call back into the host, close | deadlines and traps in the middle of a call; code shared by instances | code lives as long as it is leased; guests take one call at a time |
| Plugin catalog (`application/plugins`, `internal/pluginupdate`, `http/endpoint/admin_plugins.go`) | cached catalog, announcements, inventory | refresh, announce, review, install, update one or all, serve assets | decisions on an inventory read before a download; several servers refresh | permissions were approved; a release is announced once |
| Settings (`pkg/plugin/settings.go`, `resources.go`, `application/settings`) | plugin values under a quota, the row of application settings, PDF headers, preferences | save, rename, delete, storage calls of guests | saves computed from earlier reads; quotas on several servers | the quota holds, renames lose nothing, PDF settings are one form's |
| Content changes (`internal/pluginruntime/content_change_worker.go`) | queue table with leases | enqueue, claim, deliver, complete, retry | crashes, lapsing leases, lost replies, two workers | no event leaves the queue undelivered; each is delivered in the end |
| Render artifacts (`internal/pagecontent`, `http/endpoint/page_render.go`) | artifact and fingerprint of a page; pending flag, wake channel and lock in memory | mark, flush, full and single rebuild, view | wake-ups coalesce; plugins change during a render | requests are served; an artifact is what its fingerprint says |
| Accounts (`internal/http/auth`, `local_auth.go`, `oidc.go`, `authentication.go`, `user_admin.go`, `groups.go`) | users, credentials, sessions, identities, groups; a copy of the settings per server | setup, sign-in, password change and reset, login, link, approve, reject, relink, update | two administrators at one time, logins that wait for a row | one setup, current sessions, decisions stand |
| Migrations (`internal/postgres/migrations.go`) | schema and its history | baseline, adopt, migrate | servers of several releases start together and fail | the schema is whole |
| Markdown pipeline, search, PDF rendering, HTTP, browser code | none that outlives a request | | text processing | |

How they interact: an HTTP handler calls an application service, which runs one
transaction of the store. After its commit the service calls the content-change
worker, which enqueues an event per plugin; the worker of every server claims
and delivers them under a lease of the plugin registry. Comments, watches and
webhooks are worked off in the same request, after the commit too. A lifecycle
operation on a plugin commits to the database and replaces the published
registry; the administration handler then marks all renders dirty and wakes the
rebuild worker. Views, rebuilds and hooks lease the plugins they run, and the
runtime takes their calls one by one. A server accepts requests once it has
migrated the database.

## Modules

`PageStore` — one page. `pageRow`, `revisions` and `lockedBy` are the database;
`tx[c]` is the transaction of request `c` and `opened[c]` what its editor loaded.
An operation begins with its unlocked reads, waits for the row lock, works under
it and commits; what it wrote becomes visible at the commit. A source is its
prose and the target of its one wiki link, enough to tell a change of prose from
a rewrite of links. `Rollback` may end any transaction. Bulk edits, deletion and
restoring are one statement, and one step.

`PageReviews` — the reviews of one page. A statement with `FOR UPDATE` is two
steps, its snapshot and the rest of the transaction once the lock is granted,
because under READ COMMITTED the subselects of the statement keep the snapshot
while the locked row is read again. `history` only records what made each
revision, a save or a link rewrite. `RequestReview`, `CancelReview`,
`DecideReview`, `AddReviewComment` and `ApplyReviewSuggestions` are the
application services with their checks, the operators with `Page` in their
names the transactions.

`PageNamespace` — all pages by their paths. `db` is the committed state,
`tx[c]` a request: a list of tasks, each of which reads and validates, then
waits for whoever writes the same page or path, then writes. `cache` is the
icons a server keeps. `PageReads` EXTENDS it with one ordinary user who opens a
path, an alias or a list, rules and pages in separate statements (`reader`, with
`paths` what an answer shows and `seen` what the rules allowed since the request
began). The outgoing links that plugins list (`AccessibleCatalog.PageLinks`)
are filtered by the path a link names, and keep the page it resolves to
(`leads`), as the code does. And
`PortableArchive` EXTENDS that with texts, files, exports (`work`), an archive
(`shelf`) and its restore as a further transaction of the namespace. Exports and
deletions of files are not explored beside the user's reads.

`Webhooks`, `Discussions` — comments of one page, notifications, watches,
drafts and presence. The page is the sequence of its `revisions`: saves of
others and link rewrites both append one. A suggestion is prepared from the
comment, the page and the newest revision, read one after the other, and applied
under the page's lock. A request that has committed works off its recipients;
`told[u][k]` counts how often webhooks heard of a plugin's notification, less the
times its recipient deleted it. `Webhooks`, which `Discussions` EXTENDS, is the
delivery of each event and the administration of headers.

`PluginLifecycle` — servers, each with a `Manager` (`loaded`, `op`, `phase`)
and a `Registry` (`entries`), over one table (`store`). `op[s]` is the
operation that holds `Manager.mu`. Loading an instance, publishing (validation,
commit and publication under `Registry.mu`), retiring and the release of each
lease are separate steps; `lives[i]` is the lifetime of an instance with its
references, drain signal and closings. Startup follows `Bootstrap` step by step.

`Sandbox` — what `PluginLifecycle` calls loading and using an instance:
`entries` and `retained` are the process-wide cache, `inst`, `gate` and guests
the instances, `call[c]` a call through its steps, host calls included. `page`
is what a guest reads and updates, beside editors whose saves advance its
version and bulk edits of tags that do not.

`PluginCatalog` — the operations of administrators and the refreshes of several
servers over an inventory that stands for the manager of `PluginLifecycle`.

`PluginSettings`, `ApplicationSettings` — one plugin's values with the advisory
lock of their writers, and the application's own settings. They share the
encryption key; a behaviour of their run changes one of the two.

`ContentChangeQueue` — requests (`saver`), the queue table and the worker of
each server (`work`). Of time only the comparisons with `now()` are kept: a row
is ready, leased or waiting, and a lease may lapse under a worker, since nothing
renews it. `handled` and `lapsed` are history. `AtLeastOnce` is the abstract
queue it implements, with `pending` the rows that are not deleted and
`delivered` those that were handled.

`RenderRebuilds` — `dirty`, `wake` and `renderMu` are the fields of `Rebuilds`,
`job[a]` where each administration request, view and the worker stand. A plan
stands for all a fingerprint identifies; an artifact carries the plan it is
labelled with and, as history, the plan that produced it. `marks`, `asked`,
`taken`, `covered` and `announced` are history for the properties.

`Migrations` — processes that open one database. A schema is how often each
change was made, `history` what is recorded. `Startup` composes it with
`Accounts`: no request before the server is up. `Accounts` has the requests of
local accounts on several servers, each with its `snapshot` of the settings, and
for each account the `epoch` that whatever ends its sessions advances: a new
password, its reset by an administrator, the credential switched off, the account
disabled, a revocation;
`Identities` the logins of the provider and the proxy and the decisions on them,
step by step with their row locks; `AccountRows` the constants both need.
`Access` composes them all. Local requests and external logins are explored one
at a time, because they only share rows that a deployment uses in one mode.

The other modules are separate because they share no more than a page version
or a lease: link rewriting is in `PageStore`, `PageReviews`, `PageNamespace` and
`Discussions`, with the part each of them needs; artifacts are in `PageStore` (by
source) and `RenderRebuilds` (by plan).

Operators marked *Fault* or *Mutant* are not part of the model. Each is a
plausible bug of one definition, and `PROJECT.json` lists which property it must
violate when it takes that definition's place.

## Runs

| Run | Bounds | What it shows |
|---|---|---|
| `forms` | pages: 2 requests, 2 texts, 1 tag, 2 statuses, 2 stamps; settings: 2 servers, 2 requests, 2 features, 2 records, 1 key of the plugin, 4 header names | `HistoryIntact`, `ArtifactCurrent`, `NoLostUpdate`; quota and stored forms, renames, PDF settings |
| `rewrite_reverts` | the pages of `forms` | **violated**: a link rewrite reverts a save |
| `page_reviews` | an editor and an administrator, 3 revisions, 1 review, 2 suggestions; 2 servers, 2 changes, 1 plugin, 1 failure, 1 crash, 1 toggle | `OutcomeSeesSaves`, `ClosedIsFinal`, `AppliedOnReviewed`; the queue implements `AtLeastOnce`, delivery in the end included, and leases exclude until they lapse |
| `namespace` | 2 requests, 2 pages, 5 paths, 2 operations; 2 files of each kind, 3 file operations | paths keep leading, cached icons are stored, what is shown was viewable, archives keep content, used files stay |
| `link_targets` | 1 request, 2 pages, 2 operations | **violated**: a listed link shows a page the user may not view |
| `discussions` | 2 users, 2 requests, 1 webhook, 2 spans, 2 comments, 2 revisions, and any number of deleted notifications | applied suggestions make the revision after their own, creations are told once, headers match their mark |
| `plugin_lifecycle` | 1 server, 2 plugins of 2 versions that may require each other, one of them required, 2 renders, 3 loads, 1 lost reply | leases and closings, the published graph, restarts, replacement in one step, retirement in the end |
| `sandbox` | 3 instances of 2 binaries, a cache of 1, 2 callers, 2 calls, 3 guests | code is leased, guests take turns, updates replace what was read |
| `plugin_catalog` | 2 releases of a plugin that no stored render depends on, 2 requests, 2 servers, 2 changes, 1 refresh each | consents, announcements |
| `permission_changes` | 2 requests, 2 changes, packages of more and of fewer permissions | **violated**: permissions that were taken away come back unapproved |
| `render_rebuilds` | 1 page, 1 administrator, 1 view, 2 plans, 2 marks, 1 restart | requests are attended and answered, settled artifacts are honest |
| `access` | 2 servers, 3 releases; 2 accounts, 2 clients, 1 group; 2 subjects, 2 usernames, 3 decisions | the schema is whole; one setup, current sessions, saves are not undone; rejections, retirements and revocations stand |

`forms` and `page_reviews` each hold two parts without state in common (pages
and settings, reviews and the queue). They are explored one at a time, each
beside an initial state of the other; no step of one reads or writes what the
other has. In `access` local requests and external logins are explored one at a
time as described above, and in `namespace` a user's reads and the work on
archives.

Why the bounds suffice for the interesting cases: a race needs two requests and
a third version, so two clients and two stamps beyond creation (an operation
that has begun may still commit) cover an operation overtaken by another one;
two plugins are enough for a dependency, a cycle and a missing dependency, and
three loads for an upgrade beside another plugin or a restart; two servers and
two rows are enough for a lapsed lease within a batch. A path below each of two
paths is enough for a tree that moves onto an alias of its own. A cache of one
evicts whenever the second binary is loaded. Three releases are one before the
baseline's successor, one after and one between, so that a server can meet an
older and a newer schema. A notification can be deleted and sent again as often
as rows are left (3), so that a retry after a deletion and one beside the insert
are both met. Two suggestions about the first revision may be open at the start
(`InitialThreads`), so that one can be applied before the other within two
revisions, and texts mention nobody or one user (`Mentioned`). Two
administrators of rebuilds are covered by the proofs of `RenderRebuilds`, not by
TLC.

Where a run says `CHECK_DEADLOCK FALSE` all requests may be done and the bounds
used up. The bounds in guards are `MaxStamp`, `MaxRevisions`, `MaxReviews`,
`MaxSuggestions`, `MaxOps`, `MaxFiles`, `MaxFileOps`, `MaxContents`,
`MaxComments`, `MaxRows`, `MaxRequests`, `MaxRetry`, `MaxIds`, `MaxLoads`,
`MaxLostReplies`, `MaxGuests`, `MaxCalls`, `MaxEdits`, `MaxForms`, `MaxRefresh`,
`MaxChanges`, `MaxOverlap`, `MaxSaves`, `MaxFailures`, `MaxCrashes`,
`MaxToggles`, `MaxPlans`, `MaxMarks`, `MaxRestarts`, `MaxEpoch`, `MaxStarts`,
`MaxVersion`, `MaxCookies` and `MaxDecisions`. They only stop operations from
beginning (or faults from happening); whatever has begun can end. `MaxKeys`,
`MaxBytes`, `RetainedLimit`, `HTTPLimit`, `Quota` and `Concurrency` are limits
of the code with smaller values.

Some properties make an exception, and say so at their definition:

- `PathsKeepLeading` speaks of requests that no other commit overlaps,
  `UsedFilesStay` of deletions no text overlaps, `CachedIconsAreStored` of icon
  changes that did not overlap.
- `SessionsAreCurrent` counts the epoch in which a session is opened. A sign-in
  that compared the password before a reset or a revocation, and opens its
  session after it, is not caught: the code compares nothing when it inserts.
- `RejectionStands` and `RetirementStands` except requests that had asked before
  the decision; for a retired username these are both the adoption of an account
  and the registration of one (`authentication.go:152-186`, `:205`).
- `NoLostUpdate` and `UpdateReplacesWhatWasRead` are about what advances
  `updated_at`; tags and groups that bulk edits set are not.
- `CreationIsEmittedOnce` allows one more announcement for each deletion of the
  notification by its recipient: the key goes with the deleted row.

In each case the exception is a race, or a loss, the code leaves open; the
property shows that it is the only one. Two administrators who demote or disable
each other at one time are another: the code only protects the own account, and
no property speaks of it.

### Fairness

Liveness is checked under fairness the code justifies. Renders run under a
deadline of 30 seconds (`pkg/markdown/renderer.go`) and release their leases in
`defer`; hooks have deadlines; the goroutine that closes a drained instance only
waits for its signal; the content-change worker looks at the queue every five
seconds and after each wake-up; operations and startups that hold `Manager.mu`
run to their end or fail. The rebuild worker gets strong fairness for
`renderMu` alone: requests can take the lock again and again, but Go's mutex
hands itself to a waiter that has starved for a millisecond. Nothing is assumed
of administrators, views and editors; leases and retry times pass because time
does. The other modules state safety only and assume no fairness.

### Where code and comments disagree

Three runs end in a violation, each listed with its quotation under `findings`
in `PROJECT.json`:

- `rewrite_reverts`: the rewrite of links after a move reads a page without a
  lock and puts back what a save replaced meanwhile.
- `link_targets`: "PageLinks returns outgoing links without revealing
  inaccessible target pages", but it asks about the path a link names alone. A
  link to a former path of a page that has moved under a restricted one keeps
  the page's path and title, which plugins are given. (For a link it does
  hide, `PageLinks` keeps the target's number. Rendering, for its part, takes
  links unfiltered from the database, `view.go:81` and `application.go:231`:
  one rendering serves all readers, and is not counted as shown here.)
- `permission_changes`: "any permission-set change requires explicit
  administrator approval", but the set is compared with the inventory from
  before the download. If another administrator has narrowed the plugin's
  permissions meanwhile, the old set comes back without approval. What does hold
  is that nobody gets a set no administrator ever consented to
  (`PermissionsWereApproved`).

Other statements that the model refutes are kept as definitions. Six have a
configuration of their own:

- `MCPageStore_NoLostMembership.cfg`: bulk tags and groups do not advance
  `updated_at`, and a conditional save removes them.
- `MCSandbox_UpdateKeepsMetadata.cfg`: for the same reason a plugin's update
  (`UpdateContent`, "while preserving all page metadata") removes a tag that a
  bulk edit added between its load and its save.
- `MCPageReviews_DecidesOnHead.cfg`: a decision that waited for a move is
  accepted for the revision before it.
- `MCPluginLifecycle_SharedStore.cfg`: two servers store plugins that no server
  can start.
- `MCPageReviews_CommittedIsQueued.cfg`: a crash after the commit of a
  save loses its change for plugins.
- `MCPluginCatalog_RebuildsFollow.cfg`: an operation that undoes another
  administrator's is compared with an older snapshot and asks for no rebuild.

The others show a counterexample when they are added to the configuration of
their module's run:

- `ArtifactMatches` (`PageStore`): a link rewrite leaves the HTML of the former
  source in place, and a view serves it.
- `ReviewOpensOnHead`, `AssignedDecides` (`PageReviews`): other uses of a
  snapshot older than the lock. `FeedbackAddressed` needs `MaxReviews = 2`.
- `PathsAlwaysLead`, `CacheIsCoherent` (`PageNamespace`): of two moves of one
  page the second leaves no alias for the path in between; two writers of icons
  reach the table and the cache in different orders.
- `StylesMatchTheirVersion` (`PluginCatalog`): plugins change between the
  version of a style sheet and its contents.
- `StoredFeaturesAreConsistent` (`PluginSettings`): features are stored key by
  key, and the ones before a failure stay.
- `ExportUsesOneConfiguration`, `OtherPlacementsStay`, `ExpandedFoldersStay`
  (`ApplicationSettings`): the URL and the headers of the PDF service are read
  by two statements; saves write back placements and folders they read before.
- `RetiresDependentsFirst` (`PluginLifecycle`): at shutdown plugins are retired
  in the order of a Go map.
- `NoConcurrentDelivery` (`ContentChangeQueue`): a lease lapses during a batch.
- `FingerprintIsHonest` (`RenderRebuilds`): a settings change between a
  rebuild's render and its label stores old output under the new fingerprint,
  and nothing asks for another rebuild; a restart forgets a pending one.

Further observations, outside what the properties say: exports have no size limit while imports do; a relative
destination that an author wrote literally in the form archives use may become
a real address after a restore; counts of use ignore revisions and drafts; a
release whose required plugin lacks its own dependency fails every start.

## Proofs

Each proof module has the theorems of the components it extends. A component
and its neighbour in such a module have variables of their own; no theorem is
about both unless it says so.

`PageStoreProofs` proves of `PageStore`, for any set of requests, texts, tags and
statuses and any bound on stamps:

- `TypeCorrectness`, `HistoryIsIntact`, `ArtifactIsCurrent`: types, and the two
  invariants of `forms`;
- `NoUpdateIsLost`: its action property.

None of them is inductive alone. `IInv` adds that revisions are numbered
without a gap (`Numbered`), that a transaction in phase `locked` is the one that
holds `lockedBy` (`LockOwned`), and what a stamp identifies (`Versions`): no version
in a form, a transaction or the row has a stamp from the future; a form or a
render with the row's id and stamp carries the row's source and status; and a
conditional save that holds the lock still has the row its form shows. The last
part is why a writer that does not advance the token breaks `NoLostUpdate`, and
why tags are not covered.

`RenderRebuildsProofs` proves, for any pages, administrators, readers and
bounds:

- `TypeCorrectness`, `RequestsAreAttended`, `SettledArtifactsAreHonest`: types
  with the ownership of `renderMu`, and the two invariants of `render_rebuilds`.

`IInv` relates the flag to the marks that no rebuild has begun for (`Flagged`),
says that a rebuild begins with all pages ahead of it (`Started`), that a view's
label is never newer than its output (`ViewsAhead`), and, while no rebuild is
due, that the pages behind the running rebuild are honest and that whoever holds
`renderMu` is about to store an honest artifact (`Rebuilt`). The argument for
the last: a rebuild labels after it renders, so it is wrong only if the plan
changed in between; from then on a rebuild is due until the worker begins one,
and that one takes `renderMu` after everyone who rendered before.

Of `PageNamespace` and `PageReads` it proves, for any requests, pages and paths:

- `CachedIconsAreRight` and `ReadersSeeTheirOwn`: the invariants
  `CachedIconsAreStored` and `ShownWasViewable`;
- `ReadersOnlyRead`: the specification with readers implements the one without.

`TablesTyped` types the tables and what each transaction has in hand
(`Underway`). A transaction's view of the tables is a fold over its writes, so
its type needs an induction, which is done by the least natural number at which
it fails (`LeastNatural`, `ReplaySteps`, `ReplayTyped`). `IconsAgree` says what a
request between its statement and the cache is about to do: no other one is,
and repeating its change on the cache yields the table. `Reading` says that
whatever the rules allow now is among what a request was allowed to see, and
that a path has passed the rules in the steps `page`, `lookup` and `shown`; a
reader that skips the rules for the target of an alias breaks the latter. What
`ReadersSeeTheirOwn` says of outgoing links is about the path they name; what
they resolve to is the matter of `link_targets`.

- `PathsInvariance` and `PathsLeadOn`: `PathsOwned`, which no run states, and
  the action property `PathsKeepLeading`.

`PathsOwned` says three things. No two pages have one path, in the committed
tables and in what each transaction sees of them. Two transactions under way
have written to different pages and different paths (`Separate`: the second
writer of a row or a key waits). And a transaction that is alone has so far
turned no path away from the page it led to, and what it has found but not
written was validated against what it sees (`Leading`). The argument has two
parts. A transaction writes without looking again at what it validated, so
another commit may make its aliases wrong: that is what `alone` excludes. But
the paths stay unique whoever commits, because the writes of one transaction on
the tables of another keep the pages and paths of both apart (`SlugsReplayed`,
`CommitsUnique`), and a task whose writes are to different pages and different
free paths leads on however they are ordered (`TaskLeadsOn`); that a move of a
subtree finds different new paths for different pages is `RebaseInjective`.

Of `PortableArchive` it proves, for any files, texts and requests:

- `DeletionsTakeNothing` and `ArchivesKeep`: the action properties
  `UsedFilesStay` and `ArchivesKeepContent`.

`FilesTyped` types the files, texts, the shelf and the work on an archive;
`DeletesUnused` says that a file whose deletion has counted no use, and has been
alone since, is shown by no page (`ShownNowhere`). The uses are counted before
the file is deleted, so every action that writes a text, a restore included,
has to end a deletion's being alone, and every other one has to leave the texts
and files of pages as they are.

`ArchivesSound` follows an archive from the first page written to the restore
that commits. While it is written, whatever a page showed is in one of its
resources, or is in a file that is still to be written and, unless deleted
since, holds it (`Covered`). What was written of a file is the file's
(`Collected`): files do not change, and no number is given to a second file
(`Given`). Each page is written once (`Listed`). So an export that
ends without an error has left nothing of its pages out. While an archive is
restored, its files have got different new numbers (`Numbered`), and the
restore's transaction still has to save, or has written, each page of the
archive (`Saves`).

`AccessProofs` proves, for any processes, baseline and newest release:

- `SchemaTypeCorrect` and `SchemaStaysWhole` of `Migrations`, and
  `StartupKeepsSchemaWhole` of its composition with the accounts.

The strengthening relates, for a process within its transaction, what it holds
the advisory lock for, what it has read of the history and what it has changed
so far to the committed schema, on which nobody else works meanwhile.

It also proves, for any servers, clients, accounts, groups, subjects, usernames
and bounds:

- `TypeCorrectness`, `SetupHappensOnce`, `SessionsStayCurrent` and
  `SavesAreNotUndone` of `Accounts`;
- `LoginTypeCorrectness`, `CutOffSessionsStayOut`, `RejectionsStand` and
  `RetirementsStand` of `Identities`.

The theorems speak of `AccessSpec`, the composition; its steps are steps of the
accounts or stutter, and likewise for the logins (`AccessRunsAccounts`,
`AccessRunsLogins`). For the accounts, `AInv` says what a request between two
transactions may rely on (`Requests`): its target exists, and it has settings to
save. It also says that one account is in `setup`, and that each session has the
epoch of its account, which makes every action that advances an epoch, an
administrator's reset included, responsible for removing the sessions in the
same transaction. For the logins, `LInv` has two parts. `Tables`: bindings,
usernames and proxy identities are unique, an unused row is bound to nothing, a
deployment leaves the identities of the other mode alone, and a session has a
version its account has had, a revoked one a version that is over. `Logins`: a
callback's version is not ahead of its account, a registration that goes on is
stale if its subject has been rejected since, and an adoption or an insert takes a
name that is not retired unless it is stale, from the question to the last
statement. Without `Logins` a login between two of its row
locks could do anything; without `Revocations` a new session could share the
version of one that was cut off.

`ContentChangeQueueProofs` proves, for any servers, plugins, changes and
batches:

- `QueueImplementsAtLeastOnce`: `Spec` implies `QueueSafety` of `AtLeastOnce`
  under the mapping of `ContentChangeQueue` (`Queue`): every step maps to a step
  of the abstract queue or a stutter. This is the safety part of
  `DeliversAtLeastOnce`.
- `LeasesExclude`: the invariant `LeaseExcludes` of the same run.

For the first, `QInv` adds to the types that a worker only has rows that were
inserted and is only done with rows that were delivered (`Held`), and that a row
that left the queue was delivered (`Kept`): the outcome is written by row id
alone, so without `Held` a worker whose lease lapsed could remove another's row
undelivered. For the second, `Leases` says that a row held by a worker is in
state leased unless its lease has lapsed, and that the row being delivered is
not among those still to deliver; a claim only takes rows that are ready, so it
never meets a held one.

Of `PageReviews` it proves, for any users, administrators and bounds:

- `ReviewTypeCorrectness` and the action properties `OutcomesSeeSaves`,
  `ClosedReviewsAreFinal` and `SuggestionsApplyToReviewed`.

`VInv` says that a request knows a revision and a review there are (`Located`),
that at most one review is pending (`OnePending`), that the suggestions under
way have room (`Room`), and, which is the point, that nothing but link rewriting
came after the snapshot of a request whose review is still active (`Unsaved`):
a save supersedes the review before it commits, so a statement that waited for
the lock either sees the closed review or missed only rewrites.

`PluginCatalogProofs` proves, for any packages, catalogs, administrators,
servers and requests:

- `TypeCorrectness`, `InstalledWithConsent` and `ToldAtMostOnce`.

`CInv` adds `Claims`: an unannounced release was told to nobody, two servers
that tell have no release in common, and who is about to be told has not heard
of it. It also adds `Compared`: whatever a waiting or downloading update
compares its package with had its permissions with consent. An update that finds
no change is therefore covered by some consent, however old the inventory it
read; that the consent is for the change at hand does not follow, and does not
hold (`permission_changes`).

`SandboxProofs` proves, for any instances, binaries, callers and limits:

- `TypeCorrectness`, `CodeOutlivesItsLeases`, `OneCallAtATime`, and the action
  property `WritesReplaceWhatWasRead`.

`SInv` relates the list of retained code to the entries that are not retired and
the leases of instances to their phases (`Cached`); it says that a gate is held
by exactly the call that was admitted (`Admitted`), that a guest belongs to one
instance and is not spoilt (`Fresh`), and that a caller whose expected version
still stands has read the metadata that stand (`Reads`), those that bulk edits
change apart. The counting lemmas
(`Counts`) carry `refs` through acquire and release; those on sequences
(`Promoted` and its neighbours) carry the order of retained code through the
cache's moves.

Of `PluginSettings` it proves, for any keys, servers, requests and quota:

- `StoredStaysSound`: the invariant `StoredIsSound`, and `RenamesKeepTheRest`:
  the action property `RenamesLoseNothing`.

`WInv` says that stored values are sound and within the quota (`StoredSound`)
and of a request (`RequestsSound`) that what it is about to write is sound
whatever was stored when it read (`Writable`), that the count it made under the
writers' lock still stands at its commit (`Checked`), and that a server's mutex
is held by a request that writes there (`Held`).

Of `ApplicationSettings` it proves, for any requests, names and bounds:

- `PDFSettingsComeFromOneForm`: the action property `PDFSettingsAreOneForm`.

`HInv` says that a number is given to one row and that the row never changes, so
that a row read again at the save is the one the form showed (`Remembered`);
that what is prepared has a row for each input, as typed (`AsTyped`); and that
whoever is between the deletion and the insertion has the row of the settings
locked and has seen all headers there are (`Alone`). Without the lock, taken by
the update that comes first, the rows of two forms would mix.

`PluginLifecycleProofs` proves, for any servers, plugins, versions, requirements,
embedded plugins, renders and bounds, thus for several servers on one database
as well:

- `TypeCorrectness`, `InstancesCloseWhenDrained` and `GraphsArePublished`, and
  the action property `ReplacementsAreAtomic`.

`PInv` says of each server what it publishes and lists in each phase
(`Serving`), what the operation with `Manager.mu` has in hand (`Operating`), and
of everything it still has to publish, retire or close (`Own`) that it is its
own, alive, and in one place, leased only if it is or was published (`Owning`).
Of each instance it says that its references are the renders that hold it, that
it is signalled and closed at most once and only when nobody holds it, and that
what is neither closed nor retired belongs to somebody (`Lifetime`). The last
part is what makes the runtime close last: a server in phase `closed` owns
nothing, so all its instances are closed (`Ended`). `PublishedGraph` follows
because only `Publish` and `Initialize` change the entries: the first checks
the candidate's graph, the second publishes exactly what `dependencyOrder`
accepted at the start (`Serving`). A step that loads, leases or closes leaves
the plugin and version of an instance alone, so the graph stands (`OrderStands`).

- `RestartsFindWhatRan`: the invariant `RestartsAsIs`, for one server and
  embedded plugins that require nothing (`EmbeddedStandAlone`).

Both hypotheses are needed: two servers can store what none can start
(`MCPluginLifecycle_SharedStore.cfg`), and an embedded plugin that requires
another one is stored before what it requires. The assumption is true of the
plugins this tree embeds. `RInv` adds that the
stored installations can be started after every step (`StoreStartable`), a
commit that failed or a crash included, and that what a server lists between
operations is stored (`Recorded`).

`DiscussionsProofs` proves, for any users, clients, webhooks, spans and plugin
keys:

- `TypeCorrectness`, `SecretsStaySealed`, `CreationsAreToldOnce` and
  `SuggestionsApplyToTheirRevision`.

`HInv` says in which form a header is wherever it is on its way: in a row, in a
form that is about to be stored, in a request that is about to be sent. `Inbox`
says that a plugin's key has one notification of a user, and that `told` is one
exactly while that notification is there: the conflict clause and the
announcement by the inserting statement alone are both needed for it.
`SuggestionsApplyToTheirRevision` follows from `AppliedInv`, which spells out
what an applied suggestion has made of its revision (`MeetsItsRevision`). Two
facts carry it: revisions are only appended (`RevisionsStay`), and an
application finds the newest revision to be the one its suggestion names, under
the lock, so that the revision it appends is the next one
(`ApplyingMeetsItsRevision`). Of two suggestions about one revision the second
therefore finds a newer one. That a request still has the suggestion of a
comment there is, is what `Thread` and `Requests` are for.

The assumptions are those of the modules (`StoreAssumption`,
`RebuildsAssumption`, `QueueAssumption`, `AccountsAssumption`,
`IdentitiesAssumption`, `CatalogAssumption`, `SandboxAssumption`,
`PluginAssumption`, `ReviewAssumption`, `NamespaceAssumption`,
`ArchiveAssumption`, `SettingsAssumption`, `ApplicationAssumption`,
`ValueAssumption`, `WebhooksAssumption` and those of `Discussions`,
`Migrations` and `Startup`): bounds are natural numbers, the cache of code has
room for one, the absent value is none of the others, there is a page, a
server, a plugin and a version, actors are distinct, and what is counted
(changes, renders, instances, callers, pages and paths) is finite. TLC
evaluates them in the runs.

Every safety invariant and action property of the passing runs is thus proved.
`UnpublishedCloses`, `QueuedIsRebuilt` and the liveness in
`DeliversAtLeastOnce` stay with TLC for good, since liveness under fairness and
`ENABLED` are beyond this prover. The induction theorems of the library cannot
be used with its provers either; where a recursive function has to be followed
for every input, the proofs take the least natural number instead. No module
here declares a `RECURSIVE` operator.

## Not modelled

The components with status `not_modelled` in `PROJECT.json`, each with its
reason. In short: text processing (Markdown, search, diffs, the text of other
wikis), presentation and HTTP plumbing, external services (PDF, webhooks'
transport, wazero), single-row writes without interaction, API tokens and
templates. Within the modelled parts: time stamps are unique, plans do not
return to a former one, review requests are numbered in the order of their
commits, a page has one link in `PageStore`, a webhook one header, the provider
is one issuer, deployment overrides of the authentication mode are left out, and
so is the conversion of plugin values by a migration that no release of this
tree still carries.

## Plan

Done, in this order: `PageStore` and its proofs, `PageReviews`,
`PluginLifecycle`, `ContentChangeQueue`, `RenderRebuilds` and its proofs; then
accounts, migrations with their proofs, the plugin runtime, catalog and
settings, discussions with webhooks, the namespace with its reads and archives,
the abstract queue with its refinement, and the proofs of accounts and logins,
of the catalog, the plugin runtime and the plugin lifecycle, the discussions,
the reviews, the plugin settings, and of the namespace, its readers and the
files.

Next, in this order:

1. Abstract specifications: a store with atomic conditional writes that
   `PageStore` implements.
2. Two servers in `PluginLifecycle` with their builtins, and `RenderRebuilds`
   with the lifecycle operations that change its plan.
3. Algorithms against reference definitions: merging review suggestions,
   backoff of retries, path rewriting of moves.
