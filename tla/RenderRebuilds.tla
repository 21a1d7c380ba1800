--------------------------- MODULE RenderRebuilds ---------------------------
(***************************************************************************)
(* Rebuilding of the stored page renders after plugin changes: the        *)
(* pending flag, the wake channel and the worker of                        *)
(* internal/pagecontent/rebuilds.go, the administration handlers that      *)
(* drive them, and the page views that reuse or store an artifact          *)
(* (internal/http/endpoint/page_render.go).                                *)
(*                                                                         *)
(* A plan stands for everything a fingerprint identifies: each change of a *)
(* render-affecting plugin or of its settings gives the next plan, and no  *)
(* former one returns.                                                     *)
(* An artifact carries its label, the fingerprint it is stored under, and, *)
(* as history, the plan that produced it.  Whether a page can be persisted *)
(* is left open.                                                           *)
(***************************************************************************)
EXTENDS Naturals, FiniteSets

CONSTANTS
    Pages,
    Admins,        \* administration requests that may run at one time
    Viewers,       \* page views that may run at one time
    Worker,        \* the goroutine in Rebuilds.Run
    MaxPlans,      \* bound: plans
    MaxMarks,      \* bound: MarkAllDirty calls between two starts
    MaxRestarts    \* bound: ends of the server

VARIABLES
    plan,       \* the published plugin plan
    page,       \* stored artifact of each page
    dirty,      \* Rebuilds.dirty
    wake,       \* whether the channel Rebuilds.wake holds its one element
    renderMu,   \* who holds Rebuilds.renderMu
    job,        \* where every request and the worker stand
    todo,       \* pages the running RebuildAll has yet to rebuild
    marks,      \* history: MarkAllDirty calls since the start
    asked,      \* history: marks made when a wake-up was last sent
    taken,      \* history: marks made when a rebuild last began
    covered,    \* history: marks answered by the last rebuild that ended
    announced,  \* history: this server was asked for a rebuild since plan changed
    skipped,    \* history: pages the last rebuild failed on
    restarts

state == <<plan, page, renderMu, todo, skipped>>
requests == <<dirty, wake, marks, asked, taken, covered, announced>>
vars == <<state, requests, job, restarts>>

Rebuilders == Admins \cup {Worker}
Actors == Rebuilders \cup Viewers
Free == "free"

ASSUME RebuildsAssumption ==
    /\ MaxPlans \in Nat \ {0} /\ MaxMarks \in Nat /\ MaxRestarts \in Nat
    /\ Pages # {}
    /\ Worker \notin Admins \cup Viewers
    /\ Free \notin Rebuilders
    /\ Admins \cap Viewers = {}

\* Plan 0 is none: the empty fingerprint of a page without an artifact.
Plans == 1..MaxPlans
Artifact == [label : 0..MaxPlans, by : 0..MaxPlans]
NoArtifact == [label |-> 0, by |-> 0]

Step == {"idle", "changed", "flush", "wake",                    \* administration
         "take", "inventory", "next",                           \* the worker
         "lock", "load", "render", "label", "store",            \* a rebuild
         "compare", "produce", "keep"}                          \* a view
\* current: the version that was loaded is still the version of the page.
Job == [step : Step, page : Pages, current : BOOLEAN,
        label : 0..MaxPlans, by : 0..MaxPlans]
Rebuilding == {"next", "load", "render", "label", "store"}
Loaded == {"render", "label", "store", "compare", "produce", "keep"}

At(a, step) == job[a].step = step

\* Locals of a page are dropped when its request or pass is over.
Rest(step) == [step |-> step, page |-> CHOOSE p \in Pages : TRUE,
               current |-> TRUE, label |-> 0, by |-> 0]

Becomes(a, j) == job' = [job EXCEPT ![a] = j]
Go(a, step) ==
    Becomes(a, IF step \in {"idle", "next"} THEN Rest(step) ELSE [job[a] EXCEPT !.step = step])

-----------------------------------------------------------------------------
(* Administration: changes of plugins and requests for rebuilds.            *)

\* A lifecycle action on a render-affecting plugin has published its plan.
ChangePlugins(a) ==
    /\ At(a, "idle") /\ plan < MaxPlans
    /\ plan' = plan + 1
    /\ announced' = FALSE
    /\ Go(a, "changed")
    /\ UNCHANGED <<page, renderMu, todo, skipped, dirty, wake, marks, asked, taken, covered, restarts>>

\* Feature settings are part of the fingerprint, and no rebuild follows.
UpdateSettings(a) ==
    /\ At(a, "idle") /\ plan < MaxPlans
    /\ plan' = plan + 1
    /\ announced' = FALSE
    /\ UNCHANGED <<page, renderMu, todo, skipped, dirty, wake, marks, asked, taken, covered, job, restarts>>

\* scheduleRenderRebuild after a change, where defer_render leaves the wake-up
\* to a later request, and the request for all pages.
MarkAllDirty(a) ==
    /\ At(a, "idle") \/ At(a, "changed")
    /\ marks < MaxMarks
    /\ dirty' = TRUE
    /\ marks' = marks + 1
    /\ announced' = TRUE
    /\ \/ Go(a, "flush")
       \/ At(a, "changed") /\ Go(a, "idle")
    /\ UNCHANGED <<state, wake, asked, taken, covered, restarts>>

\* FlushPending reads dirty under mu, and sends after it has unlocked.
FlushPending(a) ==
    /\ At(a, "idle") \/ At(a, "flush")
    /\ Go(a, IF dirty THEN "wake" ELSE "idle")
    /\ UNCHANGED <<state, requests, restarts>>

SendWake(a) ==
    /\ At(a, "wake")
    /\ wake' = TRUE
    /\ asked' = marks
    /\ Go(a, "idle")
    /\ UNCHANGED <<state, dirty, marks, taken, covered, announced, restarts>>

\* RebuildAdminPageRender waits for renderMu like the worker.
RebuildPage(a, p) ==
    /\ At(a, "idle")
    /\ Becomes(a, [job[a] EXCEPT !.step = "lock", !.page = p])
    /\ UNCHANGED <<state, requests, restarts>>

-----------------------------------------------------------------------------
(* The worker: Run, runPending, takePending and RebuildAll.                 *)

ReceiveWake ==
    /\ At(Worker, "idle") /\ wake
    /\ wake' = FALSE
    /\ Go(Worker, "take")
    /\ UNCHANGED <<state, dirty, marks, asked, taken, covered, announced, restarts>>

TakePending ==
    /\ At(Worker, "take")
    /\ Go(Worker, IF dirty THEN "inventory" ELSE "idle")
    /\ dirty' = FALSE
    /\ taken' = IF dirty THEN marks ELSE taken
    /\ UNCHANGED <<state, wake, marks, asked, covered, announced, restarts>>

\* PageInventory comes before renderMu; when it fails, nothing is rebuilt.
PageInventory ==
    /\ At(Worker, "inventory")
    /\ \/ Go(Worker, "lock") /\ todo' = Pages /\ skipped' = {} /\ UNCHANGED covered
       \/ Go(Worker, "take") /\ todo' = {} /\ skipped' = Pages /\ covered' = taken
    /\ UNCHANGED <<plan, page, renderMu, dirty, wake, marks, asked, taken, announced, restarts>>

NextPage(p) ==
    /\ At(Worker, "next") /\ p \in todo
    /\ todo' = todo \ {p}
    /\ Becomes(Worker, [job[Worker] EXCEPT !.step = "load", !.page = p])
    /\ UNCHANGED <<plan, page, renderMu, skipped, requests, restarts>>

\* Fault: the request is cleared when its rebuild is done.
ClearAtEnd ==
    /\ At(Worker, "next") /\ todo = {}
    /\ renderMu' = Free
    /\ covered' = taken
    /\ dirty' = FALSE
    /\ Go(Worker, "take")
    /\ UNCHANGED <<plan, page, todo, skipped, wake, marks, asked, taken, announced, restarts>>

\* runPending looks for requests made in the meantime.
RebuildEnds ==
    /\ At(Worker, "next") /\ todo = {}
    /\ renderMu' = Free
    /\ covered' = taken
    /\ Go(Worker, "take")
    /\ UNCHANGED <<plan, page, todo, skipped, dirty, wake, marks, asked, taken, announced, restarts>>

-----------------------------------------------------------------------------
(* rebuildPage, under renderMu.                                             *)

LockRender(r) ==
    /\ At(r, "lock") /\ renderMu = Free
    /\ renderMu' = r
    /\ Go(r, IF r = Worker THEN "next" ELSE "load")
    /\ UNCHANGED <<plan, page, todo, skipped, requests, restarts>>

\* A page that cannot be persisted loses its artifact: CanPersist knows it before
\* the render, Artifact after it.
LoadPage(r) ==
    /\ At(r, "load")
    /\ \E step \in {"render", "store"} :
          Becomes(r, [Rest(step) EXCEPT !.page = job[r].page])
    /\ UNCHANGED <<state, requests, restarts>>

RenderPage(r) ==
    /\ At(r, "render")
    /\ Becomes(r, [job[r] EXCEPT !.step = "label", !.by = plan])
    /\ UNCHANGED <<state, requests, restarts>>

\* RenderFingerprint is read when the page has been rendered.
LabelArtifact(r) ==
    /\ At(r, "label")
    /\ Becomes(r, [job[r] EXCEPT !.step = "store", !.label = plan])
    /\ UNCHANGED <<state, requests, restarts>>

\* After its page the worker goes to the next, a request unlocks and ends.
PageDone(r) ==
    /\ Go(r, IF r = Worker THEN "next" ELSE "idle")
    /\ renderMu' = IF r = Worker THEN renderMu ELSE Free

\* SavePageRender only writes while the page is as it was loaded.
Stored(r) ==
    LET j == job[r] IN
    page' = IF j.current THEN [page EXCEPT ![j.page] = [label |-> j.label, by |-> j.by]] ELSE page

StoreArtifact(r) ==
    /\ At(r, "store")
    /\ Stored(r)
    /\ PageDone(r)
    /\ UNCHANGED <<plan, todo, skipped, requests, restarts>>

\* Fault: an early return keeps renderMu locked.
FailsLocked(r) ==
    /\ job[r].step \in {"load", "render", "store"}
    /\ skipped' = IF r = Worker THEN skipped \cup {job[r].page} ELSE skipped
    /\ Go(r, IF r = Worker THEN "next" ELSE "idle")
    /\ UNCHANGED <<plan, page, todo, renderMu, requests, restarts>>

\* An error of one page is logged; the others go on.
RebuildFails(r) ==
    /\ job[r].step \in {"load", "render", "store"}
    /\ skipped' = IF r = Worker THEN skipped \cup {job[r].page} ELSE skipped
    /\ PageDone(r)
    /\ UNCHANGED <<plan, page, todo, requests, restarts>>

-----------------------------------------------------------------------------
(* Page views and saves.                                                    *)

renderPageContent(v, p) ==
    /\ At(v, "idle")
    /\ Becomes(v, [step |-> "compare", page |-> p, current |-> TRUE,
                    label |-> page[p].label, by |-> 0])
    /\ UNCHANGED <<state, requests, restarts>>

\* The fingerprint is read before the page is rendered; a matching artifact is
\* served as it is, and a page that cannot be persisted is never stored.
CompareFingerprint(v) ==
    /\ At(v, "compare")
    /\ \/ Go(v, "idle")
       \/ /\ job[v].label # plan
          /\ Becomes(v, [job[v] EXCEPT !.step = "produce", !.label = plan])
    /\ UNCHANGED <<state, requests, restarts>>

ProducePage(v) ==
    /\ At(v, "produce")
    /\ Becomes(v, [job[v] EXCEPT !.step = "keep", !.by = plan])
    /\ UNCHANGED <<state, requests, restarts>>

\* The artifact is stored, or the store fails and the view is served anyway.
KeepArtifact(v) ==
    /\ At(v, "keep")
    /\ Stored(v) \/ UNCHANGED page
    /\ Go(v, "idle")
    /\ UNCHANGED <<plan, renderMu, todo, skipped, requests, restarts>>

\* A save gives the page a new version without an artifact; renders of the
\* former version will not be stored.
SavePage(p) ==
    /\ page' = [page EXCEPT ![p] = NoArtifact]
    /\ job' = [a \in Actors |-> IF job[a].page = p /\ job[a].step \in Loaded
                               THEN [job[a] EXCEPT !.current = FALSE] ELSE job[a]]
    /\ UNCHANGED <<plan, renderMu, todo, skipped, requests, restarts>>

-----------------------------------------------------------------------------
AllIdle == [a \in Actors |-> Rest("idle")]
NoRequests == /\ dirty' = FALSE /\ wake' = FALSE
              /\ marks' = 0 /\ asked' = 0 /\ taken' = 0 /\ covered' = 0
              /\ announced' = FALSE

\* The server ends with all it has not stored, and starts with the same plugins.
Restart ==
    /\ restarts < MaxRestarts
    /\ restarts' = restarts + 1
    /\ NoRequests
    /\ job' = AllIdle
    /\ renderMu' = Free /\ todo' = {} /\ skipped' = {}
    /\ UNCHANGED <<plan, page>>

Init ==
    /\ plan = 1
    /\ page = [p \in Pages |-> NoArtifact]
    /\ dirty = FALSE /\ wake = FALSE
    /\ renderMu = Free
    /\ job = AllIdle
    /\ todo = {} /\ skipped = {}
    /\ marks = 0 /\ asked = 0 /\ taken = 0 /\ covered = 0 /\ announced = TRUE
    /\ restarts = 0

Administration(a) ==
    \/ ChangePlugins(a) \/ UpdateSettings(a) \/ MarkAllDirty(a) \/ FlushPending(a) \/ SendWake(a)
    \/ \E p \in Pages : RebuildPage(a, p)

Pending == ReceiveWake \/ TakePending \/ PageInventory \/ RebuildEnds \/ \E p \in Pages : NextPage(p)

Rebuild(r) == LoadPage(r) \/ RenderPage(r) \/ LabelArtifact(r) \/ StoreArtifact(r) \/ RebuildFails(r)

Viewing(v) ==
    \/ \E p \in Pages : renderPageContent(v, p)
    \/ CompareFingerprint(v) \/ ProducePage(v) \/ KeepArtifact(v)

Next ==
    \/ \E a \in Admins : Administration(a)
    \/ Pending
    \/ \E r \in Rebuilders : LockRender(r) \/ Rebuild(r)
    \/ \E v \in Viewers : Viewing(v)
    \/ \E p \in Pages : SavePage(p)
    \/ Restart

\* The worker runs, renders have deadlines, and a mutex hands itself to the
\* longest waiter, so that single rebuilds cannot keep the worker out.
Fairness ==
    /\ WF_vars(Pending)
    /\ \A r \in Rebuilders : WF_vars(Rebuild(r))
    /\ SF_vars(LockRender(Worker))

Spec == Init /\ [][Next]_vars /\ Fairness

-----------------------------------------------------------------------------
\* renderMu is held by whoever is rebuilding a page.
LockOwned == \A r \in Rebuilders : renderMu = r <=> job[r].step \in Rebuilding

TypeOK ==
    /\ plan \in Plans
    /\ page \in [Pages -> Artifact]
    /\ dirty \in BOOLEAN /\ wake \in BOOLEAN /\ announced \in BOOLEAN
    /\ renderMu \in Rebuilders \cup {Free}
    /\ job \in [Actors -> Job]
    /\ todo \subseteq Pages /\ skipped \subseteq Pages
    /\ marks \in 0..MaxMarks /\ asked \in 0..marks
    /\ taken \in 0..marks /\ covered \in 0..taken
    /\ restarts \in 0..MaxRestarts
    /\ LockOwned

\* The wake-up that FlushPending drops because one is waiting, and the pass
\* runPending makes after each rebuild, leave no request behind: while one that
\* was woken for is not begun, the flag is set and the worker will look at it.
Attended == asked > taken => dirty /\ (wake \/ ~At(Worker, "idle"))

\* Every request that was woken for is answered by a rebuild that begins after
\* it, however requests, single rebuilds and renders interleave, unless the
\* server ends first.
QueuedIsRebuilt == \A n \in 1..MaxMarks : asked >= n ~> covered >= n \/ asked < n

\* No change is waiting for its rebuild.
Settled ==
    /\ ~dirty /\ At(Worker, "idle")
    /\ \A a \in Admins : ~At(a, "changed")

\* What the current fingerprint is served for was produced by the current plan.
Honest(p) == page[p].label = plan => page[p].by = plan

\* A rebuild reads its label after the render and may store the output of one
\* plan under the next; once the rebuild that was asked for since is over no such
\* artifact is left, except on pages that rebuild failed on.
SettledIsHonest == Settled /\ announced => \A p \in Pages \ skipped : Honest(p)

\* "Fingerprint identifies the renderer/plugins/settings that produced the
\* artifact" (pkg/domain/pages.go), asked for only at rest.  Does not hold: a
\* change of settings during a render asks for no rebuild, and a pending rebuild
\* ends with the server.
FingerprintIsHonest == Settled => \A p \in Pages \ skipped : Honest(p)
=============================================================================
