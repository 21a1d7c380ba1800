------------------------ MODULE RenderRebuildsProofs ------------------------
(***************************************************************************)
(* The safety properties of RenderRebuilds for any pages, plans, requests  *)
(* and numbers of administrators and readers; after them, for any          *)
(* requests, pages and paths, those of the paths of pages (PageNamespace), *)
(* of what readers are shown under them (PageReads) and of the uploaded    *)
(* files that pages show (PortableArchive).                                *)
(***************************************************************************)
EXTENDS RenderRebuilds, PortableArchive, TLAPS, FiniteSetTheorems, SequenceTheorems, WellFoundedInduction

\* The flag is set exactly while a mark has not been taken.
Flagged == dirty <=> marks > taken

\* A rebuild begins with every page ahead of it.
Started == At(Worker, "lock") => todo = Pages

\* A view reads its label before it renders, so the plan that produces its
\* output is never an older one.
ViewsAhead ==
    \A v \in Viewers :
        /\ At(v, "produce") => job[v].label <= plan
        /\ At(v, "keep") => job[v].label <= job[v].by /\ job[v].by <= plan

\* A change has been published that no rebuild has begun for.
Due == dirty \/ ~announced

\* What a rebuild is about to store under the current plan is its output.
Faithful(r) ==
    /\ At(r, "label") => job[r].by = plan
    /\ At(r, "store") /\ job[r].label = plan => job[r].by = plan

\* Once the last rebuild has ended, its pages are honest, and so is a single
\* rebuild in progress: it got renderMu after the worker let go of it.
AfterRebuild ==
    job[Worker].step \in {"idle", "take"} =>
        /\ \A p \in Pages \ skipped : Honest(p)
        /\ \A a \in Admins :
              job[a].step \in Rebuilding /\ job[a].page \notin skipped => Faithful(a)

\* Pages the running rebuild has not stored yet.
Remaining == todo \cup IF At(Worker, "next") THEN {} ELSE {job[Worker].page}

\* A running rebuild has left honest pages behind it; a page that was saved
\* under it holds nothing, or what a view has stored since.
DuringRebuild ==
    job[Worker].step \in Rebuilding =>
        /\ Faithful(Worker)
        /\ job[Worker].step \in Loaded /\ ~job[Worker].current => Honest(job[Worker].page)
        /\ \A p \in Pages \ (skipped \cup Remaining) : Honest(p)

\* While nothing is due, the current plan is the one the last rebuild used.
Rebuilt == ~Due => AfterRebuild /\ DuringRebuild

IInv == TypeOK /\ Flagged /\ Started /\ Attended /\ ViewsAhead /\ Rebuilt

-----------------------------------------------------------------------------
(* Typing and the lock *)

\* Some page fills the record of an idle request.
LEMMA RestTyped ==
    ASSUME NEW s \in Step
    PROVE  Rest(s) \in Job /\ Rest(s).step = s
<1>1. (CHOOSE p \in Pages : TRUE) \in Pages
    BY RebuildsAssumption
<1> QED
    BY <1>1, RebuildsAssumption DEF Rest, Job

\* Becomes replaces the record of one actor.
LEMMA OnlyOneMoves ==
    ASSUME job \in [Actors -> Job], NEW a \in Actors, NEW j \in Job, Becomes(a, j)
    PROVE  /\ job' \in [Actors -> Job]
           /\ job'[a] = j
           /\ \A b \in Actors \ {a} : job'[b] = job[b]
    BY DEF Becomes

\* A rebuild turns to a page.
LEMMA PageChosen ==
    ASSUME job \in [Actors -> Job], NEW a \in Actors, NEW s \in Step, NEW p \in Pages,
           Becomes(a, [job[a] EXCEPT !.step = s, !.page = p])
    PROVE  /\ job' \in [Actors -> Job]
           /\ \A b \in Actors \ {a} : job'[b] = job[b]
           /\ job'[a].step = s
           /\ job'[a].page = p
<1>1. [job[a] EXCEPT !.step = s, !.page = p] \in Job
    BY DEF Job
<1>2. job'[a] = [job[a] EXCEPT !.step = s, !.page = p]
    BY <1>1, OnlyOneMoves
<1>3. job[a] \in Job
    OBVIOUS
<1>4. /\ job' \in [Actors -> Job]
      /\ \A b \in Actors \ {a} : job'[b] = job[b]
    BY <1>1, OnlyOneMoves
<1> QED
    BY <1>2, <1>3, <1>4 DEF Job

\* A rebuild loads its page.
LEMMA PageLoaded ==
    ASSUME job \in [Actors -> Job], NEW a \in Actors, NEW s \in Step, 
           Becomes(a, [Rest(s) EXCEPT !.page = job[a].page])
    PROVE  /\ job' \in [Actors -> Job]
           /\ \A b \in Actors \ {a} : job'[b] = job[b]
           /\ job'[a].step = s
           /\ job'[a].current = TRUE
           /\ job'[a].page = job[a].page
           /\ job'[a].label = 0
           /\ job'[a].by = 0
<1>1. [Rest(s) EXCEPT !.page = job[a].page] \in Job
    BY RestTyped DEF Job
<1>2. job'[a] = [Rest(s) EXCEPT !.page = job[a].page]
    BY <1>1, OnlyOneMoves
<1>3. job[a] \in Job
    OBVIOUS
<1>4. /\ job' \in [Actors -> Job]
      /\ \A b \in Actors \ {a} : job'[b] = job[b]
    BY <1>1, OnlyOneMoves
<1> QED
    BY <1>2, <1>3, <1>4 DEF Job, Rest

\* A render gets its fingerprint.
LEMMA PageLabelled ==
    ASSUME job \in [Actors -> Job], NEW a \in Actors, NEW s \in Step, NEW n \in 0..MaxPlans,
           Becomes(a, [job[a] EXCEPT !.step = s, !.label = n])
    PROVE  /\ job' \in [Actors -> Job]
           /\ \A b \in Actors \ {a} : job'[b] = job[b]
           /\ job'[a].step = s
           /\ job'[a].current = job[a].current
           /\ job'[a].page = job[a].page
           /\ job'[a].label = n
           /\ job'[a].by = job[a].by
<1>1. [job[a] EXCEPT !.step = s, !.label = n] \in Job
    BY DEF Job
<1>2. job'[a] = [job[a] EXCEPT !.step = s, !.label = n]
    BY <1>1, OnlyOneMoves
<1>3. job[a] \in Job
    OBVIOUS
<1>4. /\ job' \in [Actors -> Job]
      /\ \A b \in Actors \ {a} : job'[b] = job[b]
    BY <1>1, OnlyOneMoves
<1> QED
    BY <1>2, <1>3, <1>4 DEF Job

\* A page is rendered.
LEMMA PageProduced ==
    ASSUME job \in [Actors -> Job], NEW a \in Actors, NEW s \in Step, NEW n \in 0..MaxPlans,
           Becomes(a, [job[a] EXCEPT !.step = s, !.by = n])
    PROVE  /\ job' \in [Actors -> Job]
           /\ \A b \in Actors \ {a} : job'[b] = job[b]
           /\ job'[a].step = s
           /\ job'[a].current = job[a].current
           /\ job'[a].page = job[a].page
           /\ job'[a].label = job[a].label
           /\ job'[a].by = n
<1>1. [job[a] EXCEPT !.step = s, !.by = n] \in Job
    BY DEF Job
<1>2. job'[a] = [job[a] EXCEPT !.step = s, !.by = n]
    BY <1>1, OnlyOneMoves
<1>3. job[a] \in Job
    OBVIOUS
<1>4. /\ job' \in [Actors -> Job]
      /\ \A b \in Actors \ {a} : job'[b] = job[b]
    BY <1>1, OnlyOneMoves
<1> QED
    BY <1>2, <1>3, <1>4 DEF Job

\* Go moves one actor to a step and keeps its page unless it rests.
LEMMA GoMoves ==
    ASSUME job \in [Actors -> Job], NEW a \in Actors, NEW s \in Step, Go(a, s)
    PROVE  /\ job' \in [Actors -> Job]
           /\ job'[a].step = s
           /\ \A b \in Actors \ {a} : job'[b] = job[b]
           /\ s \notin {"idle", "next"} =>
                 /\ job'[a].page = job[a].page
                 /\ job'[a].label = job[a].label
                 /\ job'[a].by = job[a].by
<1>1. Rest(s) \in Job /\ Rest(s).step = s
    BY RestTyped
<1>2. [job[a] EXCEPT !.step = s] \in Job
    BY DEF Job
<1> QED
    BY <1>1, <1>2 DEF Go, Becomes, Job

\* Every action keeps every variable in its type and renderMu with its owner.
LEMMA TypeStep ==
    ASSUME TypeOK, [Next]_vars
    PROVE  TypeOK'
<1> USE RebuildsAssumption DEF TypeOK, LockOwned, Rebuilding, Plans, Actors, Rebuilders,
                               state, requests, At
<1>0. {"idle", "changed", "flush", "wake", "take", "inventory", "next", "lock", "load",
       "render", "label", "store", "compare", "produce", "keep"} \subseteq Step
    BY DEF Step
<1>a. \A a \in Actors : job[a] \in Job
    OBVIOUS
<1>b. plan \in 0..MaxPlans
    OBVIOUS
<1>1. ASSUME NEW a \in Admins, ChangePlugins(a) PROVE TypeOK'
    <2>1. /\ job' \in [Actors -> Job] /\ job'[a].step = "changed" /\ At(a, "idle")
          /\ \A b \in Actors \ {a} : job'[b] = job[b]
        BY <1>1, GoMoves, <1>0 DEF ChangePlugins
    <2>2. plan' \in Plans
        BY <1>1 DEF ChangePlugins
    <2>3. announced' \in BOOLEAN
        BY <1>1 DEF ChangePlugins
    <2>4. UNCHANGED <<page, renderMu, todo, skipped, dirty, wake, marks, asked, taken, covered, restarts>>
        BY <1>1 DEF ChangePlugins
    <2>5. LockOwned'
        BY <2>1, <2>4
    <2> QED
        BY <2>1, <2>2, <2>3, <2>4, <2>5
<1>1a. ASSUME NEW a \in Admins, UpdateSettings(a) PROVE TypeOK'
    <2>1. plan' \in Plans
        BY <1>1a DEF UpdateSettings
    <2>2. announced' \in BOOLEAN
        BY <1>1a DEF UpdateSettings
    <2>3. UNCHANGED <<page, renderMu, todo, skipped, dirty, wake, marks, asked, taken, covered, job, restarts>>
        BY <1>1a DEF UpdateSettings
    <2> QED
        BY <2>1, <2>2, <2>3
<1>2. ASSUME NEW a \in Admins, MarkAllDirty(a) PROVE TypeOK'
    BY <1>2, GoMoves, <1>0 DEF MarkAllDirty
<1>3. ASSUME NEW a \in Admins, FlushPending(a) PROVE TypeOK'
    BY <1>3, GoMoves, <1>0 DEF FlushPending
<1>4. ASSUME NEW a \in Admins, SendWake(a) PROVE TypeOK'
    BY <1>4, GoMoves, <1>0 DEF SendWake
<1>5. ASSUME NEW a \in Admins, NEW p \in Pages, RebuildPage(a, p) PROVE TypeOK'
    <2>1. /\ job' \in [Actors -> Job] /\ job'[a].step = "lock"
          /\ \A b \in Actors \ {a} : job'[b] = job[b]
        BY <1>5, <1>0, <1>b, PageChosen DEF RebuildPage
    <2> QED
        BY <1>5, <2>1 DEF RebuildPage
<1>6. CASE ReceiveWake
    <2>1. /\ job' \in [Actors -> Job] /\ job'[Worker].step = "take"
          /\ \A b \in Actors \ {Worker} : job'[b] = job[b]
        BY <1>6, GoMoves, <1>0 DEF ReceiveWake
    <2> QED
        BY <1>6, <2>1 DEF ReceiveWake
<1>7. CASE TakePending
    <2>1. PICK s \in {"inventory", "idle"} : Go(Worker, s)
        BY <1>7 DEF TakePending
    <2>2. /\ job' \in [Actors -> Job] /\ job'[Worker].step = s
          /\ \A b \in Actors \ {Worker} : job'[b] = job[b]
        BY <2>1, GoMoves, <1>0
    <2>3. LockOwned'
        BY <1>7, <2>2 DEF TakePending
    <2>4. taken' \in {taken, marks}
        BY <1>7 DEF TakePending
    <2>5. dirty' \in BOOLEAN /\ wake' \in BOOLEAN
        BY <1>7 DEF TakePending
    <2>6. UNCHANGED <<plan, page, renderMu, todo, skipped, marks, asked, covered, announced, restarts>>
        BY <1>7 DEF TakePending
    <2> QED
        BY <2>2, <2>3, <2>4, <2>5, <2>6
<1>8. CASE PageInventory
    BY <1>8, GoMoves, <1>0 DEF PageInventory
<1>9. ASSUME NEW p \in Pages, NextPage(p) PROVE TypeOK'
    <2>1. /\ job' \in [Actors -> Job] /\ job'[Worker].step = "load"
          /\ \A b \in Actors \ {Worker} : job'[b] = job[b]
        BY <1>9, <1>0, <1>b, PageChosen DEF NextPage
    <2> QED
        BY <1>9, <2>1 DEF NextPage
<1>10. CASE RebuildEnds
    BY <1>10, GoMoves, <1>0 DEF RebuildEnds
<1>11. ASSUME NEW r \in Rebuilders, LockRender(r) PROVE TypeOK'
    BY <1>11, GoMoves, <1>0 DEF LockRender
<1>12. ASSUME NEW r \in Rebuilders, LoadPage(r) PROVE TypeOK'
    <2>1. PICK s \in {"render", "store"} :
              Becomes(r, [Rest(s) EXCEPT !.page = job[r].page])
        BY <1>12 DEF LoadPage
    <2>2. /\ job' \in [Actors -> Job] /\ job'[r].step = s
          /\ \A b \in Actors \ {r} : job'[b] = job[b]
        BY <2>1, <1>0, PageLoaded
    <2> QED
        BY <1>12, <2>2 DEF LoadPage
<1>13. ASSUME NEW r \in Rebuilders, RenderPage(r) PROVE TypeOK'
    <2>1. /\ job' \in [Actors -> Job] /\ job'[r].step = "label"
          /\ \A b \in Actors \ {r} : job'[b] = job[b]
        BY <1>13, <1>0, <1>b, PageProduced DEF RenderPage
    <2> QED
        BY <1>13, <2>1 DEF RenderPage
<1>14. ASSUME NEW r \in Rebuilders, LabelArtifact(r) PROVE TypeOK'
    <2>1. /\ job' \in [Actors -> Job] /\ job'[r].step = "store"
          /\ \A b \in Actors \ {r} : job'[b] = job[b]
        BY <1>14, <1>0, <1>b, PageLabelled DEF LabelArtifact
    <2> QED
        BY <1>14, <2>1 DEF LabelArtifact
<1>15. ASSUME NEW r \in Rebuilders, StoreArtifact(r) PROVE TypeOK'
    BY <1>15, GoMoves, <1>0
       DEF StoreArtifact, Stored, PageDone, Job, Artifact
<1>16. ASSUME NEW r \in Rebuilders, RebuildFails(r) PROVE TypeOK'
    BY <1>16, GoMoves, <1>0 DEF RebuildFails, PageDone, Job
<1>17. ASSUME NEW v \in Viewers, NEW p \in Pages, renderPageContent(v, p) PROVE TypeOK'
    <2>1. [step |-> "compare", page |-> p, current |-> TRUE,
           label |-> page[p].label, by |-> 0] \in Job
        BY DEF Job, Step, Artifact
    <2> QED
        BY <1>17, <2>1, OnlyOneMoves DEF renderPageContent
<1>18. ASSUME NEW v \in Viewers, CompareFingerprint(v) PROVE TypeOK'
    <2>1. PICK s \in {"idle", "produce"} :
             /\ job' \in [Actors -> Job] /\ job'[v].step = s
             /\ \A b \in Actors \ {v} : job'[b] = job[b]
        <3>1. CASE Go(v, "idle")
            BY <3>1, <1>0, GoMoves
        <3>2. CASE Becomes(v, [job[v] EXCEPT !.step = "produce", !.label = plan])
            BY <3>2, <1>0, <1>b, PageLabelled
        <3> QED
            BY <1>18, <3>1, <3>2 DEF CompareFingerprint
    <2> QED
        BY <1>18, <2>1 DEF CompareFingerprint
<1>19. ASSUME NEW v \in Viewers, ProducePage(v) PROVE TypeOK'
    <2>1. /\ job' \in [Actors -> Job] /\ job'[v].step = "keep"
          /\ \A b \in Actors \ {v} : job'[b] = job[b]
        BY <1>19, <1>0, <1>b, PageProduced DEF ProducePage
    <2> QED
        BY <1>19, <2>1 DEF ProducePage
<1>20. ASSUME NEW v \in Viewers, KeepArtifact(v) PROVE TypeOK'
    <2>1. page' \in [Pages -> Artifact]
        BY <1>20 DEF KeepArtifact, Stored, Job, Artifact
    <2> QED
        BY <1>20, <2>1, GoMoves, <1>0 DEF KeepArtifact
<1>21. ASSUME NEW p \in Pages, SavePage(p) PROVE TypeOK'
    <2>1. page' \in [Pages -> Artifact]
        BY <1>21 DEF SavePage, NoArtifact, Artifact
    <2>2. job' \in [Actors -> Job] /\ \A a \in Actors : job'[a].step = job[a].step
        <3>1. ASSUME NEW a \in Actors
              PROVE  job'[a] \in Job /\ job'[a].step = job[a].step
            <4>1. job'[a] = job[a] \/ job'[a] = [job[a] EXCEPT !.current = FALSE]
                BY <1>21 DEF SavePage
            <4> QED
                BY <4>1, <1>a DEF Job
        <3> QED
            BY <1>21, <3>1 DEF SavePage
    <2> QED
        BY <1>21, <2>1, <2>2 DEF SavePage
<1>22. CASE Restart
    <2>1. job' \in [Actors -> Job] /\ \A a \in Actors : job'[a].step = "idle"
        BY <1>22, RestTyped, <1>0 DEF Restart, AllIdle
    <2>2. LockOwned'
        BY <1>22, <2>1 DEF Restart
    <2>3. dirty' \in BOOLEAN /\ wake' \in BOOLEAN /\ announced' \in BOOLEAN
        BY <1>22 DEF Restart, NoRequests
    <2>4. /\ marks' \in 0..MaxMarks /\ asked' \in 0..marks'
          /\ taken' \in 0..marks' /\ covered' \in 0..taken'
        BY <1>22 DEF Restart, NoRequests
    <2> QED
        BY <1>22, <2>1, <2>2, <2>3, <2>4 DEF Restart
<1>23. CASE UNCHANGED vars
    BY <1>23 DEF vars
<1> QED
    BY <1>1, <1>1a, <1>2, <1>3, <1>4, <1>5, <1>6, <1>7, <1>8, <1>9, <1>10, <1>11, <1>12, <1>13,
       <1>14, <1>15, <1>16, <1>17, <1>18, <1>19, <1>20, <1>21, <1>22, <1>23
       DEF Next, Administration, Pending, Rebuild, Viewing

-----------------------------------------------------------------------------
(* What the actions leave alone *)

\* A rebuild and its lock move one actor and change no request.
LEMMA RebuildMoves ==
    ASSUME TypeOK, NEW r \in Rebuilders, LockRender(r) \/ Rebuild(r)
    PROVE  /\ UNCHANGED <<plan, todo, requests, restarts>>
           /\ \A b \in Actors \ {r} : job'[b] = job[b]
           /\ job'[r].step \in IF r = Worker THEN Rebuilding ELSE Rebuilding \cup {"idle"}
<1> USE DEF TypeOK, Actors, Rebuilders, Rebuilding, state
<1>0. {"idle", "next", "load", "render", "label", "store"} \subseteq Step
    BY DEF Step
<1>b. plan \in 0..MaxPlans
    BY DEF Plans
<1>1. CASE LockRender(r)
    BY <1>1, GoMoves, <1>0 DEF LockRender
<1>2. CASE LoadPage(r)
    <2>1. PICK s \in {"render", "store"} :
              Becomes(r, [Rest(s) EXCEPT !.page = job[r].page])
        BY <1>2 DEF LoadPage
    <2> QED
        BY <1>2, <2>1, <1>0, PageLoaded DEF LoadPage
<1>3. CASE RenderPage(r)
    BY <1>3, <1>0, <1>b, PageProduced DEF RenderPage
<1>4. CASE LabelArtifact(r)
    BY <1>4, <1>0, <1>b, PageLabelled DEF LabelArtifact
<1>5. CASE StoreArtifact(r)
    BY <1>5, <1>0, GoMoves DEF StoreArtifact, PageDone
<1>6. CASE RebuildFails(r)
    BY <1>6, <1>0, GoMoves DEF RebuildFails, PageDone
<1> QED
    BY <1>1, <1>2, <1>3, <1>4, <1>5, <1>6 DEF Rebuild

\* A view moves one reader and changes at most an artifact.
LEMMA ViewMoves ==
    ASSUME TypeOK, NEW v \in Viewers, Viewing(v)
    PROVE  /\ UNCHANGED <<plan, renderMu, todo, skipped, requests, restarts>>
           /\ \A b \in Actors \ {v} : job'[b] = job[b]
<1> USE DEF TypeOK, Actors, state
<1>0. {"idle", "compare", "produce", "keep"} \subseteq Step
    BY DEF Step
<1>b. plan \in 0..MaxPlans
    BY DEF Plans
<1>1. ASSUME NEW p \in Pages, renderPageContent(v, p)
      PROVE  \A b \in Actors \ {v} : job'[b] = job[b]
    BY <1>1 DEF renderPageContent, Becomes
<1>2. CASE CompareFingerprint(v)
    BY <1>2, <1>0, <1>b, GoMoves, PageLabelled DEF CompareFingerprint
<1>3. CASE ProducePage(v)
    BY <1>3, <1>0, <1>b, PageProduced DEF ProducePage
<1>4. CASE KeepArtifact(v)
    BY <1>4, <1>0, GoMoves DEF KeepArtifact
<1>5. UNCHANGED <<plan, renderMu, todo, skipped, requests, restarts>>
    BY DEF Viewing, renderPageContent, CompareFingerprint, ProducePage, KeepArtifact
<1> QED
    BY <1>1, <1>2, <1>3, <1>4, <1>5 DEF Viewing

\* A save changes an artifact and which renders are of the current version.
LEMMA EditMoves ==
    ASSUME TypeOK, NEW p \in Pages, SavePage(p)
    PROVE  /\ UNCHANGED <<plan, renderMu, todo, skipped, requests, restarts>>
           /\ \A a \in Actors : /\ job'[a].step = job[a].step
                                /\ job'[a].page = job[a].page
                                /\ job'[a].label = job[a].label
                                /\ job'[a].by = job[a].by
<1>1. ASSUME NEW a \in Actors
      PROVE  /\ job'[a].step = job[a].step
             /\ job'[a].page = job[a].page
             /\ job'[a].label = job[a].label
             /\ job'[a].by = job[a].by
    <2>1. job'[a] = job[a] \/ job'[a] = [job[a] EXCEPT !.current = FALSE]
        BY DEF SavePage
    <2>2. job[a] \in Job
        BY DEF TypeOK
    <2> QED
        BY <2>1, <2>2 DEF Job
<1> QED
    BY <1>1 DEF SavePage

\* Administration moves one administrator, outside every rebuild.  When it
\* changes the plan no rebuild has been asked for, until it marks.
LEMMA AdministrationMoves ==
    ASSUME TypeOK, NEW a \in Admins, Administration(a)
    PROVE  /\ UNCHANGED <<page, renderMu, todo, skipped, taken, covered, restarts>>
           /\ \A b \in Actors \ {a} : job'[b] = job[b]
           /\ job'[a].step \notin Rebuilding
           /\ plan' = plan \/ (plan' = plan + 1 /\ ~announced')
           /\ dirty => dirty'
           /\ announced' => announced \/ dirty'
<1> USE DEF TypeOK, Actors, Rebuilders, Rebuilding, state, requests
<1>0. {"idle", "changed", "flush", "wake", "lock"} \subseteq Step
    BY DEF Step
<1>1. dirty => dirty'
    BY Zenon DEF Administration, ChangePlugins, UpdateSettings, MarkAllDirty, FlushPending, SendWake, RebuildPage
<1>2. announced' => announced \/ dirty'
    BY Zenon DEF Administration, ChangePlugins, UpdateSettings, MarkAllDirty, FlushPending, SendWake, RebuildPage
<1>3. UNCHANGED <<page, renderMu, todo, skipped, taken, covered, restarts>>
    BY Zenon DEF Administration, ChangePlugins, UpdateSettings, MarkAllDirty, FlushPending, SendWake, RebuildPage
<1>4. plan' = plan \/ (plan' = plan + 1 /\ ~announced')
    BY Zenon DEF Administration, ChangePlugins, UpdateSettings, MarkAllDirty, FlushPending, SendWake, RebuildPage
<1>5. (\A b \in Actors \ {a} : job'[b] = job[b]) /\ job'[a].step \notin Rebuilding
    <2>1. ASSUME NEW s \in {"idle", "changed", "flush", "wake"}, Go(a, s)
          PROVE  (\A b \in Actors \ {a} : job'[b] = job[b]) /\ job'[a].step \notin Rebuilding
        BY <2>1, <1>0, GoMoves
    <2>2. ASSUME NEW p \in Pages, RebuildPage(a, p)
          PROVE  (\A b \in Actors \ {a} : job'[b] = job[b]) /\ job'[a].step \notin Rebuilding
        <3>1. Becomes(a, [job[a] EXCEPT !.step = "lock", !.page = p])
            BY <2>2 DEF RebuildPage
        <3>2. (\A b \in Actors \ {a} : job'[b] = job[b]) /\ job'[a].step = "lock"
            BY <3>1, <1>0, PageChosen
        <3> QED
            BY <3>2
    <2>3. ASSUME UpdateSettings(a)
          PROVE  (\A b \in Actors \ {a} : job'[b] = job[b]) /\ job'[a].step \notin Rebuilding
        BY <2>3 DEF UpdateSettings, At
    <2> QED
        BY <2>1, <2>2, <2>3
           DEF Administration, ChangePlugins, MarkAllDirty, FlushPending, SendWake
<1> QED
    BY <1>1, <1>2, <1>3, <1>4, <1>5

-----------------------------------------------------------------------------
(* Requests *)

\* The history counters are natural numbers.
LEMMA CountersTyped ==
    ASSUME TypeOK
    PROVE  /\ marks \in Nat /\ asked \in Nat /\ taken \in Nat
           /\ asked <= marks /\ taken <= marks
    BY RebuildsAssumption DEF TypeOK

Requested == Flagged /\ Started /\ Attended

\* No action drops a request that was woken for.
LEMMA RequestStep ==
    ASSUME TypeOK, Requested, [Next]_vars
    PROVE  Requested'
<1> USE DEF Requested, Flagged, Started, Attended, At, Actors, Rebuilders
<1>0. {"idle", "changed", "flush", "wake", "take", "inventory", "next", "lock", "load"} \subseteq Step
    BY DEF Step
<1>a. job \in [Actors -> Job] /\ dirty \in BOOLEAN /\ wake \in BOOLEAN
    BY DEF TypeOK
<1>b. /\ marks \in Nat /\ asked \in Nat /\ taken \in Nat
      /\ asked <= marks /\ taken <= marks
    BY CountersTyped
<1>w. \A a \in Admins \cup Viewers : a \in Actors /\ a # Worker
    BY RebuildsAssumption
<1>1. ASSUME NEW a \in Admins, Administration(a) PROVE Requested'
    <2>1. job'[Worker] = job[Worker] /\ UNCHANGED <<todo, taken>>
        BY <1>1, <1>w, AdministrationMoves
    <2>2. CASE MarkAllDirty(a)
        BY <2>2, <2>1, <1>a, <1>b DEF MarkAllDirty, state
    <2>3. CASE SendWake(a)
        BY <2>3, <2>1, <1>a, <1>b DEF SendWake, state
    <2>4. CASE UNCHANGED <<dirty, wake, marks, asked, taken>>
        BY <2>4, <2>1, <1>a, <1>b
    <2>5. \/ MarkAllDirty(a) \/ SendWake(a)
          \/ UNCHANGED <<dirty, wake, marks, asked, taken>>
        BY <1>1, Zenon DEF Administration, ChangePlugins, UpdateSettings, FlushPending, RebuildPage, requests
    <2> QED
        BY <2>2, <2>3, <2>4, <2>5
<1>2. CASE ReceiveWake
    <2>1. job'[Worker].step = "take"
        BY <1>2, <1>0, <1>a, GoMoves DEF ReceiveWake
    <2> QED
        BY <1>2, <2>1, <1>a, <1>b DEF ReceiveWake, state
<1>3. CASE TakePending
    <2>1. CASE dirty
        <3>1. job'[Worker].step = "inventory"
            BY <1>3, <2>1, <1>0, <1>a, GoMoves DEF TakePending
        <3> QED
            BY <1>3, <2>1, <3>1, <1>a, <1>b DEF TakePending, state
    <2>2. CASE ~dirty
        <3>1. job'[Worker].step = "idle"
            BY <1>3, <2>2, <1>0, <1>a, GoMoves DEF TakePending
        <3> QED
            BY <1>3, <2>2, <3>1, <1>a, <1>b DEF TakePending, state
    <2> QED
        BY <2>1, <2>2
<1>4. CASE PageInventory
    <2>1. PICK s \in {"lock", "take"} : Go(Worker, s) /\ (s = "lock" => todo' = Pages)
        BY <1>4 DEF PageInventory
    <2>2. job'[Worker].step = s
        BY <2>1, <1>0, <1>a, GoMoves
    <2> QED
        BY <1>4, <2>1, <2>2, <1>a, <1>b DEF PageInventory
<1>5. ASSUME NEW p \in Pages, NextPage(p) PROVE Requested'
    <2>1. job'[Worker].step = "load"
        BY <1>5, <1>0, <1>a, PageChosen DEF NextPage
    <2> QED
        BY <1>5, <2>1, <1>a, <1>b DEF NextPage, requests
<1>6. CASE RebuildEnds
    <2>1. job'[Worker].step = "take"
        BY <1>6, <1>0, <1>a, GoMoves DEF RebuildEnds
    <2> QED
        BY <1>6, <2>1, <1>a, <1>b DEF RebuildEnds
<1>7. ASSUME NEW r \in Rebuilders, LockRender(r) \/ Rebuild(r) PROVE Requested'
    <2>1. UNCHANGED <<todo, dirty, wake, marks, asked, taken>>
        BY <1>7, RebuildMoves DEF requests
    <2>2. job'[Worker] = job[Worker] \/ job'[Worker].step \in Rebuilding
        BY <1>7, RebuildMoves
    <2> QED
        BY <2>1, <2>2, <1>a, <1>b DEF Rebuilding
<1>8. ASSUME NEW v \in Viewers, Viewing(v) PROVE Requested'
    <2>1. UNCHANGED <<todo, dirty, wake, marks, asked, taken>> /\ job'[Worker] = job[Worker]
        BY <1>8, <1>w, ViewMoves DEF requests
    <2> QED
        BY <2>1
<1>9. ASSUME NEW p \in Pages, SavePage(p) PROVE Requested'
    <2>1. UNCHANGED <<todo, dirty, wake, marks, asked, taken>> /\ job'[Worker].step = job[Worker].step
        BY <1>9, EditMoves DEF requests
    <2> QED
        BY <2>1
<1>10. CASE Restart
    <2>1. job'[Worker].step = "idle"
        BY <1>10, RestTyped, <1>0 DEF Restart, AllIdle
    <2> QED
        BY <1>10, <2>1 DEF Restart, NoRequests
<1>11. CASE UNCHANGED vars
    BY <1>11 DEF vars, state, requests
<1> QED
    BY <1>1, <1>2, <1>3, <1>4, <1>5, <1>6, <1>7, <1>8, <1>9, <1>10, <1>11 DEF Next, Pending

-----------------------------------------------------------------------------
(* Labels *)

\* No view ever holds output of a plan older than its label.
LEMMA ViewStep ==
    ASSUME TypeOK, ViewsAhead, [Next]_vars
    PROVE  ViewsAhead'
<1> USE DEF ViewsAhead, At
<1>a. /\ job \in [Actors -> Job] /\ plan \in Nat /\ plan \in 0..MaxPlans
      /\ \A a \in Actors : job[a].label \in Nat /\ job[a].by \in Nat
    BY RebuildsAssumption DEF TypeOK, Plans, Job
<1>b. Viewers \subseteq Actors /\ Viewers \cap Rebuilders = {}
    BY RebuildsAssumption DEF Actors, Rebuilders
<1>1. ASSUME plan' \in {plan, plan + 1}, \A v \in Viewers : job'[v] = job[v]
      PROVE  ViewsAhead'
    BY <1>1, <1>a, <1>b
<1>2. ASSUME NEW v \in Viewers, Viewing(v) PROVE ViewsAhead'
    <2>1. plan' = plan /\ \A b \in Viewers \ {v} : job'[b] = job[b]
        BY <1>2, <1>b, ViewMoves
    <2>2. /\ At(v, "produce")' => job'[v].label <= plan
          /\ At(v, "keep")' => job'[v].label <= job'[v].by /\ job'[v].by <= plan
        <3>0. {"idle", "produce", "keep"} \subseteq Step /\ v \in Actors
            BY <1>b DEF Step
        <3>1. ASSUME NEW p \in Pages, renderPageContent(v, p) PROVE job'[v].step = "compare"
            BY <3>1, <3>0, <1>a DEF renderPageContent, Becomes
        <3>2. CASE CompareFingerprint(v)
            <4>1. CASE Go(v, "idle")
                BY <4>1, <3>0, <1>a, GoMoves
            <4>2. CASE Becomes(v, [job[v] EXCEPT !.step = "produce", !.label = plan])
                <5>0. "produce" \in Step /\ plan \in 0..MaxPlans /\ job \in [Actors -> Job]
                    BY <3>0, <1>a
                <5>1. job'[v].step = "produce" /\ job'[v].label = plan
                    <6>1. PICK j : j = [job[v] EXCEPT !.step = "produce", !.label = plan]
                        OBVIOUS
                    <6>2. job[v] \in Job /\ job' = [job EXCEPT ![v] = j]
                        BY <4>2, <3>0, <5>0, <6>1 DEF Becomes
                    <6>3. j.step = "produce" /\ j.label = plan
                        BY <6>1, <6>2 DEF Job
                    <6> QED
                        BY <3>0, <5>0, <6>2, <6>3
                <5> QED
                    BY <5>1, <1>a
            <4> QED
                BY <3>2, <4>1, <4>2 DEF CompareFingerprint
        <3>3. CASE ProducePage(v)
            <4>1. job'[v].step = "keep" /\ job'[v].label = job[v].label /\ job'[v].by = plan
                BY <3>3, <3>0, <1>a, PageProduced DEF ProducePage
            <4> QED
                BY <3>3, <4>1, <1>a DEF ProducePage
        <3>4. CASE KeepArtifact(v)
            BY <3>4, <3>0, <1>a, GoMoves DEF KeepArtifact
        <3> QED
            BY <1>2, <3>1, <3>2, <3>3, <3>4 DEF Viewing
    <2> QED
        BY <2>1, <2>2
<1>3. ASSUME NEW a \in Admins, Administration(a) PROVE ViewsAhead'
    BY <1>3, <1>1, <1>b, AdministrationMoves DEF Rebuilders
<1>4. ASSUME NEW r \in Rebuilders, LockRender(r) \/ Rebuild(r) PROVE ViewsAhead'
    BY <1>4, <1>1, <1>b, RebuildMoves
<1>5. CASE Pending
    <2>1. plan' = plan
        BY <1>5, Zenon DEF Pending, ReceiveWake, TakePending, PageInventory, RebuildEnds, NextPage, state
    <2>2. \E j : Becomes(Worker, j)
        BY <1>5, Zenon DEF Pending, ReceiveWake, TakePending, PageInventory, RebuildEnds, NextPage, Go
    <2>3. \A v \in Viewers : job'[v] = job[v]
        BY <2>2, <1>a, <1>b DEF Becomes, Rebuilders
    <2> QED
        BY <2>1, <2>3, <1>1
<1>6. ASSUME NEW p \in Pages, SavePage(p) PROVE ViewsAhead'
    BY <1>6, <1>b, EditMoves
<1>7. CASE Restart
    <2>1. \A v \in Viewers : job'[v].step = "idle"
        BY <1>7, <1>b, RestTyped, "idle" \in Step DEF Restart, AllIdle, Step
    <2> QED
        BY <2>1
<1>8. CASE UNCHANGED vars
    BY <1>8 DEF vars, state
<1> QED
    BY <1>2, <1>3, <1>4, <1>5, <1>6, <1>7, <1>8 DEF Next

-----------------------------------------------------------------------------
(* Honest artifacts *)

\* What is stored from a faithful job is honest, and nothing else changes.
LEMMA StoredHonest ==
    ASSUME TypeOK, NEW r \in Actors, Stored(r), plan' = plan,
           job[r].label = plan => job[r].by = plan
    PROVE  /\ \/ page'[job[r].page].label = plan => page'[job[r].page].by = plan
              \/ page'[job[r].page] = page[job[r].page]
           /\ \A p \in Pages \ {job[r].page} : page'[p] = page[p]
<1>1. job[r].page \in Pages /\ page \in [Pages -> Artifact]
    BY DEF TypeOK, Job
<1> QED
    BY <1>1 DEF Stored, Honest

\* Only the start of a rebuild ends the time in which one is due.
LEMMA StaysDue ==
    ASSUME TypeOK, Due,
           \/ \E a \in Admins : Administration(a)
           \/ Pending /\ ~TakePending
           \/ \E r \in Rebuilders : LockRender(r) \/ Rebuild(r)
           \/ \E v \in Viewers : Viewing(v)
           \/ \E p \in Pages : SavePage(p)
    PROVE  Due'
<1> USE DEF Due
<1>1. ASSUME NEW a \in Admins, Administration(a) PROVE Due'
    BY <1>1, AdministrationMoves
<1>2. ASSUME NEW r \in Rebuilders, LockRender(r) \/ Rebuild(r) PROVE Due'
    BY <1>2, RebuildMoves DEF requests
<1>3. ASSUME NEW v \in Viewers, Viewing(v) PROVE Due'
    BY <1>3, ViewMoves DEF requests
<1>4. ASSUME NEW p \in Pages, SavePage(p) PROVE Due'
    BY <1>4, EditMoves DEF requests
<1>5. CASE Pending /\ ~TakePending
    <2>1. UNCHANGED <<dirty, announced>>
        BY <1>5, Zenon DEF Pending, ReceiveWake, PageInventory, RebuildEnds, NextPage, requests
    <2> QED
        BY <2>1
<1> QED
    BY <1>1, <1>2, <1>3, <1>4, <1>5

\* The worker alone takes a request, ends a rebuild or goes to its next page.
LEMMA PendingRebuilt ==
    ASSUME TypeOK, Rebuilt, Pending, ~Due'
    PROVE  AfterRebuild' /\ DuringRebuild'
<1> USE DEF At, Faithful, Honest, Remaining, Rebuilding, Loaded
<1>0. {"idle", "take", "inventory", "next", "lock", "load"} \subseteq Step
    BY DEF Step
<1>a. /\ job \in [Actors -> Job] /\ Worker \in Actors
      /\ \A a \in Admins : a \in Actors /\ a # Worker
    BY RebuildsAssumption DEF TypeOK, Actors, Rebuilders
<1>b. UNCHANGED <<plan, page, restarts>>
    BY Zenon DEF Pending, ReceiveWake, TakePending, PageInventory, RebuildEnds, NextPage, state
<1>c. \A a \in Admins : job'[a] = job[a]
    <2>1. \E j : Becomes(Worker, j)
        BY Zenon DEF Pending, ReceiveWake, TakePending, PageInventory, RebuildEnds, NextPage, Go
    <2> QED
        BY <2>1, <1>a DEF Becomes
<1>d. ~TakePending => AfterRebuild /\ DuringRebuild
    <2>1. ~TakePending /\ Due => Due'
        BY StaysDue
    <2> QED
        BY <2>1, <1>b DEF Rebuilt
<1>1. CASE ReceiveWake
    <2>1. job'[Worker].step = "take" /\ job[Worker].step = "idle" /\ skipped' = skipped
        BY <1>1, <1>0, <1>a, GoMoves DEF ReceiveWake, state
    <2>2. AfterRebuild
        BY <1>1, <1>d DEF ReceiveWake, TakePending
    <2> QED
        BY <2>1, <2>2, <1>b, <1>c DEF AfterRebuild, DuringRebuild
<1>2. CASE TakePending
    <2>1. CASE dirty
        <3>1. job'[Worker].step = "inventory"
            BY <1>2, <2>1, <1>0, <1>a, GoMoves DEF TakePending
        <3> QED
            BY <3>1 DEF AfterRebuild, DuringRebuild
    <2>2. CASE ~dirty
        <3>1. job'[Worker].step = "idle" /\ job[Worker].step = "take" /\ skipped' = skipped
            BY <1>2, <2>2, <1>0, <1>a, GoMoves DEF TakePending, state
        <3>2. ~Due
            BY <1>2, <2>2 DEF Due, TakePending
        <3>3. AfterRebuild
            BY <3>2, <1>b DEF Rebuilt
        <3> QED
            BY <3>1, <3>3, <1>b, <1>c DEF AfterRebuild, DuringRebuild
    <2> QED
        BY <2>1, <2>2
<1>3. CASE PageInventory
    <2>1. PICK s \in {"lock", "take"} : Go(Worker, s) /\ (s = "take" => skipped' = Pages)
        BY <1>3 DEF PageInventory
    <2>2. job'[Worker].step = s
        BY <2>1, <1>0, <1>a, GoMoves
    <2>3. \A a \in Admins : job'[a].page \in Pages
        BY <1>a, <1>c DEF Job
    <2> QED
        BY <2>1, <2>2, <2>3 DEF AfterRebuild, DuringRebuild
<1>4. ASSUME NEW p \in Pages, NextPage(p) PROVE AfterRebuild' /\ DuringRebuild'
    <2>1. /\ job'[Worker].step = "load" /\ job'[Worker].page = p /\ job[Worker].step = "next"
          /\ todo' = todo \ {p} /\ skipped' = skipped
        BY <1>4, <1>0, <1>a, PageChosen DEF NextPage
    <2>2. DuringRebuild
        BY <1>4, <1>d DEF NextPage, TakePending
    <2> QED
        BY <1>4, <2>1, <2>2, <1>b DEF AfterRebuild, DuringRebuild, NextPage
<1>5. CASE RebuildEnds
    <2>1. /\ job'[Worker].step = "take" /\ job[Worker].step = "next"
          /\ todo = {} /\ skipped' = skipped
        BY <1>5, <1>0, <1>a, GoMoves DEF RebuildEnds
    <2>2. DuringRebuild
        BY <1>5, <1>d DEF RebuildEnds, TakePending
    <2>3. \A a \in Admins : job'[a].step \notin Rebuilding
        BY <2>1, <1>a, <1>c DEF TypeOK, LockOwned, Rebuilders
    <2> QED
        BY <2>1, <2>2, <2>3, <1>b DEF AfterRebuild, DuringRebuild
<1> QED
    BY <1>1, <1>2, <1>3, <1>4, <1>5 DEF Pending

\* A full rebuild stores honest pages or counts them as failed.
LEMMA WorkerRebuilt ==
    ASSUME TypeOK, Started, Rebuilt, LockRender(Worker) \/ Rebuild(Worker), ~Due'
    PROVE  AfterRebuild' /\ DuringRebuild'
<1> USE DEF At, Faithful, Honest, Remaining, Rebuilding, Loaded
<1>0. {"next", "load", "render", "label", "store"} \subseteq Step
    BY DEF Step
<1>a. /\ job \in [Actors -> Job] /\ Worker \in Actors /\ Worker \in Rebuilders
      /\ plan \in 0..MaxPlans /\ plan # 0
    BY DEF TypeOK, Actors, Rebuilders, Plans
<1>b. UNCHANGED <<plan, todo, restarts>> /\ job'[Worker].step \in Rebuilding
    BY <1>a, RebuildMoves
<1>c. DuringRebuild
    BY <1>a, <1>b, StaysDue DEF Rebuilt
<1>d. AfterRebuild'
    BY <1>b DEF AfterRebuild
<1>1. CASE LockRender(Worker)
    <2>1. job'[Worker].step = "next" /\ todo' = Pages
        BY <1>1, <1>0, <1>a, <1>b, GoMoves DEF LockRender, Started
    <2> QED
        BY <2>1, <1>d DEF DuringRebuild
<1>2. CASE LoadPage(Worker)
    <2>1. PICK s \in {"render", "store"} : Becomes(Worker, [Rest(s) EXCEPT !.page = job[Worker].page])
        BY <1>2 DEF LoadPage
    <2>2. /\ job'[Worker].step = s /\ job'[Worker].page = job[Worker].page
          /\ job'[Worker].label = 0 /\ job'[Worker].current = TRUE
        BY <2>1, <1>0, <1>a, PageLoaded
    <2> QED
        BY <1>2, <2>2, <1>a, <1>b, <1>c, <1>d DEF DuringRebuild, LoadPage, state
<1>3. CASE RenderPage(Worker)
    <2>1. /\ job'[Worker].step = "label" /\ job'[Worker].page = job[Worker].page
          /\ job'[Worker].by = plan /\ job'[Worker].current = job[Worker].current
        BY <1>3, <1>0, <1>a, PageProduced DEF RenderPage
    <2> QED
        BY <1>3, <2>1, <1>b, <1>c, <1>d DEF DuringRebuild, RenderPage, state
<1>4. CASE LabelArtifact(Worker)
    <2>1. /\ job'[Worker].step = "store" /\ job'[Worker].page = job[Worker].page
          /\ job'[Worker].by = job[Worker].by /\ job'[Worker].current = job[Worker].current
        BY <1>4, <1>0, <1>a, PageLabelled DEF LabelArtifact
    <2> QED
        BY <1>4, <2>1, <1>b, <1>c, <1>d DEF DuringRebuild, LabelArtifact, state
<1>5. CASE StoreArtifact(Worker)
    <2>1. job'[Worker].step = "next" /\ skipped' = skipped
        BY <1>5, <1>0, <1>a, GoMoves DEF StoreArtifact, PageDone
    <2>2. job[Worker].label = plan => job[Worker].by = plan
        BY <1>5, <1>c DEF StoreArtifact, DuringRebuild
    <2>3. /\ \/ page'[job[Worker].page].label = plan => page'[job[Worker].page].by = plan
             \/ page'[job[Worker].page] = page[job[Worker].page]
          /\ \A p \in Pages \ {job[Worker].page} : page'[p] = page[p]
        BY <1>5, <2>2, <1>a, <1>b, StoredHonest DEF StoreArtifact
    <2>4. \A p \in Pages \ (skipped \cup todo) : Honest(p)'
        <3>1. ASSUME NEW p \in Pages \ (skipped \cup todo), p # job[Worker].page PROVE Honest(p)'
            BY <3>1, <2>3, <1>5, <1>b, <1>c DEF DuringRebuild, StoreArtifact
        <3>2. ASSUME job[Worker].page \in Pages \ (skipped \cup todo)
              PROVE  page'[job[Worker].page].label = plan => page'[job[Worker].page].by = plan
            <4>1. CASE job[Worker].current
                BY <4>1, <1>5, <1>a, <2>2 DEF StoreArtifact, Stored, TypeOK, Job
            <4>2. CASE ~job[Worker].current
                BY <4>2, <1>5, <1>c DEF StoreArtifact, Stored, DuringRebuild
            <4> QED
                BY <4>1, <4>2
        <3> QED
            BY <3>1, <3>2, <1>b
    <2> QED
        BY <2>1, <2>4, <1>b, <1>d DEF DuringRebuild
<1>6. CASE RebuildFails(Worker)
    <2>1. job'[Worker].step = "next" /\ skipped' = skipped \cup {job[Worker].page} /\ page' = page
        BY <1>6, <1>0, <1>a, GoMoves DEF RebuildFails, PageDone
    <2> QED
        BY <1>6, <2>1, <1>b, <1>c, <1>d DEF DuringRebuild, RebuildFails
<1> QED
    BY <1>1, <1>2, <1>3, <1>4, <1>5, <1>6 DEF Rebuild

\* A single rebuild waits for a full one, and stores an honest page after it.
LEMMA SingleRebuilt ==
    ASSUME TypeOK, Rebuilt, NEW a \in Admins, LockRender(a) \/ Rebuild(a), ~Due'
    PROVE  AfterRebuild' /\ DuringRebuild'
<1> USE DEF At, Faithful, Honest, Rebuilding
<1>0. {"idle", "load", "render", "label", "store"} \subseteq Step
    BY DEF Step
<1>a. /\ job \in [Actors -> Job] /\ a \in Actors /\ Worker \in Actors
      /\ a \in Rebuilders /\ Worker \in Rebuilders /\ a # Worker
      /\ plan \in 0..MaxPlans /\ plan # 0
      /\ job[a].page \in Pages
    BY RebuildsAssumption DEF TypeOK, Actors, Rebuilders, Plans, Job
<1>b. /\ UNCHANGED <<plan, todo, restarts>>
      /\ \A b \in Actors \ {a} : job'[b] = job[b]
    BY <1>a, RebuildMoves
<1>c. AfterRebuild
    BY <1>a, <1>b, StaysDue DEF Rebuilt
<1>d. DuringRebuild'
    <2>1. renderMu = Free \/ renderMu = a
        BY <1>a DEF LockRender, Rebuild, LoadPage, RenderPage, LabelArtifact, StoreArtifact,
                    RebuildFails, TypeOK, LockOwned
    <2>2. job[Worker].step \notin Rebuilding
        BY <2>1, <1>a, RebuildsAssumption DEF TypeOK, LockOwned
    <2> QED
        BY <2>2, <1>a, <1>b DEF DuringRebuild
<1>e. skipped' = skipped
    BY <1>a DEF LockRender, Rebuild, LoadPage, RenderPage, LabelArtifact, StoreArtifact,
                RebuildFails, state
<1>f. \A b \in Admins \ {a} : b \in Actors \ {a}
    BY DEF Actors, Rebuilders
<1>1. ASSUME page' = page, job'[a].step \in Rebuilding /\ job'[a].page \notin skipped => Faithful(a)'
      PROVE  AfterRebuild'
    BY <1>1, <1>a, <1>b, <1>c, <1>e, <1>f DEF AfterRebuild
<1>2. CASE LockRender(a)
    <2>1. job'[a].step = "load"
        BY <1>2, <1>0, <1>a, GoMoves DEF LockRender
    <2> QED
        BY <1>1, <1>2, <2>1, <1>d DEF LockRender
<1>3. CASE LoadPage(a)
    <2>1. PICK s \in {"render", "store"} : Becomes(a, [Rest(s) EXCEPT !.page = job[a].page])
        BY <1>3 DEF LoadPage
    <2>2. job'[a].step = s /\ job'[a].label = 0
        BY <2>1, <1>0, <1>a, PageLoaded
    <2> QED
        BY <1>1, <1>3, <2>2, <1>a, <1>b, <1>d DEF LoadPage, state
<1>4. CASE RenderPage(a)
    <2>1. job'[a].step = "label" /\ job'[a].by = plan
        BY <1>4, <1>0, <1>a, PageProduced DEF RenderPage
    <2> QED
        BY <1>1, <1>4, <2>1, <1>b, <1>d DEF RenderPage, state
<1>5. CASE LabelArtifact(a)
    <2>1. job'[a].step = "store" /\ job'[a].page = job[a].page /\ job'[a].by = job[a].by
        BY <1>5, <1>0, <1>a, PageLabelled DEF LabelArtifact
    <2>2. job[Worker].step \in {"idle", "take"} /\ job[a].page \notin skipped => job[a].by = plan
        BY <1>5, <1>c DEF AfterRebuild, LabelArtifact
    <2>3. page' = page
        BY <1>5 DEF LabelArtifact, state
    <2>4. CASE job[Worker].step \in {"idle", "take"}
        BY <1>1, <2>1, <2>2, <2>3, <2>4, <1>b, <1>d
    <2>5. CASE job[Worker].step \notin {"idle", "take"}
        BY <2>5, <1>a, <1>b, <1>d DEF AfterRebuild
    <2> QED
        BY <2>4, <2>5
<1>6. CASE StoreArtifact(a)
    <2>1. job'[a].step = "idle"
        BY <1>6, <1>0, <1>a, GoMoves DEF StoreArtifact, PageDone
    <2>2. CASE job[Worker].step \notin {"idle", "take"}
        BY <2>2, <1>a, <1>b, <1>d DEF AfterRebuild
    <2>3. CASE job[Worker].step \in {"idle", "take"}
        <3>1. ASSUME NEW p \in Pages \ skipped PROVE page'[p].label = plan => page'[p].by = plan
            <4>1. job[a].page \notin skipped => (job[a].label = plan => job[a].by = plan)
                BY <1>6, <1>c, <2>3 DEF AfterRebuild, StoreArtifact
            <4>2. page[p].label = plan => page[p].by = plan
                BY <1>c, <2>3 DEF AfterRebuild
            <4>3. \/ page'[p] = page[p]
                  \/ p = job[a].page /\ page'[p] = [label |-> job[a].label, by |-> job[a].by]
                BY <1>6, <1>a DEF StoreArtifact, Stored, TypeOK
            <4> QED
                BY <4>1, <4>2, <4>3
        <3> QED
            BY <3>1, <2>1, <2>3, <1>a, <1>b, <1>c, <1>d, <1>e, <1>f DEF AfterRebuild
    <2> QED
        BY <2>2, <2>3
<1>7. CASE RebuildFails(a)
    <2>1. job'[a].step = "idle"
        BY <1>7, <1>0, <1>a, GoMoves DEF RebuildFails, PageDone
    <2> QED
        BY <1>1, <1>7, <2>1, <1>d DEF RebuildFails
<1> QED
    BY <1>2, <1>3, <1>4, <1>5, <1>6, <1>7 DEF Rebuild

\* Administration that leaves nothing due has changed no plan.
LEMMA AdministrationRebuilt ==
    ASSUME TypeOK, Rebuilt, NEW a \in Admins, Administration(a), ~Due'
    PROVE  AfterRebuild' /\ DuringRebuild'
<1> USE DEF At, Faithful, Honest
<1>1. /\ UNCHANGED <<page, todo, skipped, restarts>>
      /\ \A b \in Actors \ {a} : job'[b] = job[b]
      /\ job'[a].step \notin Rebuilding
      /\ plan' = plan
    BY AdministrationMoves DEF Due
<1>2. Worker \in Actors \ {a} /\ Admins \subseteq Actors
    BY RebuildsAssumption DEF Actors, Rebuilders
<1>3. AfterRebuild /\ DuringRebuild
    BY <1>1, StaysDue DEF Rebuilt
<1>4. AfterRebuild'
    BY <1>1, <1>2, <1>3 DEF AfterRebuild
<1>5. DuringRebuild'
    BY <1>1, <1>2, <1>3 DEF DuringRebuild, Remaining
<1> QED
    BY <1>4, <1>5

\* What a view stores is honest: its plan is not older than its label.
LEMMA ViewRebuilt ==
    ASSUME TypeOK, ViewsAhead, Rebuilt, NEW v \in Viewers, Viewing(v), ~Due'
    PROVE  AfterRebuild' /\ DuringRebuild'
<1> USE DEF At, Faithful, Honest
<1>1. /\ UNCHANGED <<plan, todo, skipped, restarts>>
      /\ \A b \in Actors \ {v} : job'[b] = job[b]
    BY ViewMoves
<1>2. Worker \in Actors \ {v} /\ Admins \subseteq Actors \ {v} /\ v \in Actors
    BY RebuildsAssumption DEF Actors, Rebuilders
<1>3. AfterRebuild /\ DuringRebuild
    BY <1>1, StaysDue DEF Rebuilt
<1>4. ASSUME NEW p \in Pages, Honest(p) PROVE page'[p].label = plan => page'[p].by = plan
    <2>1. CASE KeepArtifact(v)
        <3>1. job[v].label = plan => job[v].by = plan
            <4>1. job[v].label <= job[v].by /\ job[v].by <= plan
                BY <2>1 DEF ViewsAhead, KeepArtifact
            <4>2. job[v].by \in Nat /\ plan \in Nat
                BY <1>2, RebuildsAssumption DEF TypeOK, Job, Plans
            <4> QED
                BY <4>1, <4>2
        <3>2. \/ page'[p] = page[p]
              \/ p = job[v].page /\ page'[p] = [label |-> job[v].label, by |-> job[v].by]
            BY <2>1 DEF KeepArtifact, Stored, TypeOK
        <3> QED
            BY <3>1, <3>2, <1>4
    <2>2. CASE page' = page
        BY <2>2, <1>4
    <2> QED
        BY <2>1, <2>2 DEF Viewing, renderPageContent, CompareFingerprint, ProducePage, state
<1>5. AfterRebuild'
    BY <1>1, <1>2, <1>3, <1>4 DEF AfterRebuild
<1>6. DuringRebuild'
    <2>1. job[Worker].page \in Pages
        BY <1>2 DEF TypeOK, Job
    <2> QED
        BY <1>1, <1>2, <1>3, <1>4, <2>1 DEF DuringRebuild, Remaining
<1> QED
    BY <1>5, <1>6

\* A save leaves its page without an artifact.
LEMMA EditRebuilt ==
    ASSUME TypeOK, Rebuilt, NEW q \in Pages, SavePage(q), ~Due'
    PROVE  AfterRebuild' /\ DuringRebuild'
<1> USE DEF At, Faithful, Honest
<1>1. /\ UNCHANGED <<plan, todo, skipped, restarts>>
      /\ \A a \in Actors : /\ job'[a].step = job[a].step
                           /\ job'[a].page = job[a].page
                           /\ job'[a].label = job[a].label
                           /\ job'[a].by = job[a].by
    BY EditMoves
<1>2. Worker \in Actors /\ Admins \subseteq Actors
    BY DEF Actors, Rebuilders
<1>3. AfterRebuild /\ DuringRebuild
    BY <1>1, StaysDue DEF Rebuilt
<1>4. \A p \in Pages \ {q} : page'[p] = page[p]
    BY DEF SavePage, TypeOK
<1>5. page'[q].label = plan => page'[q].by = plan
    BY DEF SavePage, TypeOK, NoArtifact, Plans
<1>6. AfterRebuild'
    BY <1>1, <1>2, <1>3, <1>4, <1>5 DEF AfterRebuild
<1>7. DuringRebuild'
    <2>1. job[Worker].page \in Pages /\ job[Worker] \in Job
        BY <1>2 DEF TypeOK, Job
    <2>2. job'[Worker].current = job[Worker].current \/ job[Worker].page = q
        BY <1>2, <2>1 DEF SavePage
    <2> QED
        BY <1>1, <1>2, <1>3, <1>4, <1>5, <2>1, <2>2 DEF DuringRebuild, Remaining
<1> QED
    BY <1>6, <1>7

\* Every action keeps the honesty of what has been rebuilt.
LEMMA RebuiltStep ==
    ASSUME TypeOK, Started, ViewsAhead, Rebuilt, [Next]_vars
    PROVE  Rebuilt'
<1> SUFFICES ASSUME ~Due' PROVE AfterRebuild' /\ DuringRebuild'
    BY DEF Rebuilt
<1>1. ~Restart
    BY DEF Restart, NoRequests, Due
<1>2. CASE UNCHANGED vars
    BY <1>2 DEF vars, state, requests, Rebuilt, Due, AfterRebuild, DuringRebuild, Remaining,
                Faithful, Honest, At
<1>3. ASSUME NEW r \in Rebuilders, LockRender(r) \/ Rebuild(r) PROVE AfterRebuild' /\ DuringRebuild'
    BY <1>3, WorkerRebuilt, SingleRebuilt DEF Rebuilders
<1> QED
    BY <1>1, <1>2, <1>3, AdministrationRebuilt, PendingRebuilt, ViewRebuilt, EditRebuilt DEF Next

-----------------------------------------------------------------------------
(* Results *)

\* The initial states satisfy the invariant.
LEMMA InitInvariant == Init => IInv
<1> SUFFICES ASSUME Init PROVE IInv
    OBVIOUS
<1>1. job \in [Actors -> Job] /\ \A a \in Actors : job[a].step = "idle"
    BY RestTyped, "idle" \in Step DEF Init, AllIdle, Step
<1>2. Worker \in Actors /\ Admins \subseteq Actors /\ Viewers \subseteq Actors
    BY DEF Actors, Rebuilders
<1>3. TypeOK
    <2>1. LockOwned
        BY <1>1, RebuildsAssumption DEF Init, LockOwned, Rebuilding, Rebuilders, Actors
    <2>2. page \in [Pages -> Artifact] /\ plan \in Plans
        BY RebuildsAssumption DEF Init, NoArtifact, Artifact, Plans
    <2>3. dirty \in BOOLEAN /\ wake \in BOOLEAN /\ announced \in BOOLEAN
        BY DEF Init
    <2>4. /\ renderMu \in Rebuilders \cup {Free}
          /\ todo \subseteq Pages /\ skipped \subseteq Pages
          /\ marks \in 0..MaxMarks /\ asked \in 0..marks
          /\ taken \in 0..marks /\ covered \in 0..taken
          /\ restarts \in 0..MaxRestarts
        BY RebuildsAssumption DEF Init
    <2> QED
        BY <1>1, <2>1, <2>2, <2>3, <2>4 DEF TypeOK
<1>4. Flagged /\ Attended
    BY DEF Init, Flagged, Attended
<1>5. Started /\ ViewsAhead
    BY <1>1, <1>2 DEF Started, ViewsAhead, At
<1>6. AfterRebuild /\ DuringRebuild
    BY <1>1, <1>2 DEF Init, AfterRebuild, DuringRebuild, Rebuilding, Honest, NoArtifact
<1> QED
    BY <1>3, <1>4, <1>5, <1>6 DEF IInv, Rebuilt

\* The invariant holds of every reachable state, under any fairness.
THEOREM Invariance == Spec => []IInv
<1>1. IInv /\ [Next]_vars => IInv'
    BY TypeStep, RequestStep, ViewStep, RebuiltStep DEF IInv, Requested
<1> QED
    BY InitInvariant, <1>1, PTL DEF Spec

\* Types are kept and renderMu is held by exactly the actor that rebuilds a
\* page, with any number of administrators (rebuilds.go, renderMu).
THEOREM TypeCorrectness == Spec => []TypeOK
    BY Invariance, PTL DEF IInv

\* A request for a rebuild that was woken for is never left to a sleeping
\* worker, however the one-element channel and the flag coalesce requests
\* (rebuilds.go, FlushPending, takePending and runPending).
THEOREM RequestsAreAttended == Spec => []Attended
    BY Invariance, PTL DEF IInv

\* Once rebuilds have settled, no page keeps an artifact under the current
\* fingerprint that another plan produced, except pages the last rebuild
\* failed on, when this server was asked for a rebuild since the plan changed
\* (rebuilds.go, rebuildPage and RebuildAll).
THEOREM SettledArtifactsAreHonest == Spec => []SettledIsHonest
<1>1. IInv => SettledIsHonest
    BY DEF IInv, Rebuilt, AfterRebuild, Due, SettledIsHonest, Settled, At
<1> QED
    BY Invariance, <1>1, PTL

-----------------------------------------------------------------------------
(* The paths of pages and what readers are shown of them: PageNamespace,    *)
(* which its assumption is about, and PageReads.                            *)

Tables == [slug : [Ids -> Paths \cup {None}], bin : SUBSET Ids, alias : [Paths -> Ids \cup {None}],
           links : [Ids -> SUBSET Paths], icons : SUBSET Paths]

Moved == [op : {"move"}, id : Ids, old : Paths \cup {None}, new : Paths]
Written == [op : {"save"}, id : Ids, old : Paths \cup {None}, new : Paths, icon : BOOLEAN, links : SUBSET Paths]

Moving == [op : {"move"}, from : Paths, to : Paths, tree : BOOLEAN]
Saving == [op : {"save"}, from : Paths \cup {None}, to : Paths, icon : BOOLEAN, links : SUBSET Paths]

IconChange == [path : Paths, icon : BOOLEAN]

Transaction == [todo : Seq(Moving \cup Saving), found : (SUBSET (Moved \cup Written)) \cup IconChange \cup {None},
                writes : Seq(Moved \cup Written), rest : Seq(Paths), alone : BOOLEAN,
                step : {"idle", "read", "write", "commit", "invalidate", "cached", "import"}]

\* What a transaction has in hand in each step.
Underway(t) ==
    /\ t.step \in {"read", "write"} => t.todo # <<>>
    /\ t.step = "write" => t.found \in SUBSET (Moved \cup Written) /\ IsFiniteSet(t.found)
    /\ t.step = "import" => t.rest # <<>>
    /\ t.step = "cached" => t.found \in IconChange

TablesTyped ==
    /\ db \in Tables
    /\ tx \in [Clients -> Transaction]
    /\ \A c \in Clients : Underway(tx[c])

\* The least of some numbers.
LEMMA LeastNatural ==
    ASSUME NEW T, T \subseteq Nat, T # {}
    PROVE  \E x \in T : \A y \in T : x <= y
<1> DEFINE R == OpToRel(<, Nat)
<1>1. IsWellFoundedOn(R, Nat)
  BY NatLessThanWellFounded
<1>2. PICK x \in T : \A y \in T : ~(<<y, x>> \in R)
  <2> HIDE DEF R
  <2> QED
    BY <1>1, WFMin
<1>3. \A y \in T : y < x => <<y, x>> \in R
  BY DEF OpToRel
<1> HIDE DEF R
<1>4. \A y \in T : ~(y < x)
  BY <1>2, <1>3
<1> QED
  BY <1>4

\* A transaction's writes, one after the other.
Replayed(d, ws) ==
    CHOOSE g : g = [k \in 0..Len(ws) |-> IF k = 0 THEN d ELSE Apply(g[k - 1], ws[k])]

LEMMA ReplayIsLast ==
    ASSUME NEW d, NEW ws
    PROVE  Replay(d, ws) = Replayed(d, ws)[Len(ws)]
  BY DEF Replay, Replayed

LEMMA ReplaySteps ==
    ASSUME NEW d, NEW ws, Len(ws) \in Nat
    PROVE  Replayed(d, ws) =
              [k \in 0..Len(ws) |-> IF k = 0 THEN d ELSE Apply(Replayed(d, ws)[k - 1], ws[k])]
<1> DEFINE Is(g, m) == g = [k \in 0..m |-> IF k = 0 THEN d ELSE Apply(g[k - 1], ws[k])]
           T == {m \in 0..Len(ws) : ~ \E g : Is(g, m)}
<1>1. T = {}
  <2> SUFFICES ASSUME T # {} PROVE FALSE
    OBVIOUS
  <2>1. PICK m \in T : \A y \in T : m <= y
    <3>1. T \subseteq Nat
      OBVIOUS
    <3> HIDE DEF T
    <3> QED
      BY <3>1, LeastNatural
  <2>2. CASE m = 0
    <3>1. Is([k \in 0..0 |-> d], 0)
      OBVIOUS
    <3> QED
      BY <2>1, <2>2, <3>1
  <2>3. CASE m # 0
    <3>1. PICK g : Is(g, m - 1)
      BY <2>1, <2>3
    <3> DEFINE h == [k \in 0..m |-> IF k = m THEN Apply(g[m - 1], ws[m]) ELSE g[k]]
    <3>2. m \in Nat /\ m >= 1
      BY <2>3
    <3>3. \A k \in 0..m : h[k] = IF k = 0 THEN d ELSE Apply(h[k - 1], ws[k])
      <4> SUFFICES ASSUME NEW k \in 0..m
                   PROVE  h[k] = IF k = 0 THEN d ELSE Apply(h[k - 1], ws[k])
        OBVIOUS
      <4>1. CASE k = m
        <5>1. h[m - 1] = g[m - 1] /\ h[m] = Apply(g[m - 1], ws[m])
          BY <3>2
        <5> QED
          BY <3>2, <4>1, <5>1
      <4>2. CASE k # m
        <5>1. k \in 0..(m - 1) /\ h[k] = g[k]
          BY <3>2, <4>2
        <5>2. g[k] = IF k = 0 THEN d ELSE Apply(g[k - 1], ws[k])
          BY <3>1, <5>1
        <5>3. k # 0 => h[k - 1] = g[k - 1]
          BY <3>2, <5>1
        <5> HIDE DEF h
        <5> QED
          BY <5>1, <5>2, <5>3
      <4> QED
        BY <4>1, <4>2
    <3>4. h = [k \in 0..m |-> h[k]]
      OBVIOUS
    <3>5. Is(h, m)
      <4> HIDE DEF h
      <4> QED
        BY <3>3, <3>4
    <3> QED
      BY <2>1, <3>5
  <2> QED
    BY <2>2, <2>3
<1>2. \E g : Is(g, Len(ws))
  BY <1>1
<1> QED
  BY <1>2 DEF Replayed

\* Sets as sequences.
LEMMA SequenceOfSet ==
    ASSUME NEW S, IsFiniteSet(S)
    PROVE  SetToSeq(S) \in Seq(S) /\ (S # {} => SetToSeq(S) # <<>>)
<1>1. SetToSeq(S) = CHOOSE f \in [1..Cardinality(S) -> S] : \A a, b \in DOMAIN f : f[a] = f[b] => a = b
  BY DEF SetToSeq, IsInjective
<1>2. Cardinality(S) \in Nat /\ \E f \in [1..Cardinality(S) -> S] : \A a, b \in DOMAIN f : f[a] = f[b] => a = b
  BY FS_CardinalityType DEF ExistsBijection, Bijection, Injection, IsInjective
<1>3. SetToSeq(S) \in [1..Cardinality(S) -> S]
  BY <1>1, <1>2
<1>4. S # {} => Cardinality(S) # 0
  BY FS_EmptySet
<1>5. SetToSeq(S) \in Seq(S) /\ Len(SetToSeq(S)) = Cardinality(S)
  BY <1>2, <1>3
<1> QED
  BY <1>4, <1>5

\* Tables after a write.
LEMMA ApplyTyped ==
    ASSUME NEW d \in Tables, NEW w \in Moved \cup Written
    PROVE  Apply(d, w) \in Tables
<1>1. /\ d.slug \in [Ids -> Paths \cup {None}] /\ d.bin \in SUBSET Ids /\ d.alias \in [Paths -> Ids \cup {None}]
      /\ d.links \in [Ids -> SUBSET Paths] /\ d.icons \in SUBSET Paths
      /\ d = [slug |-> d.slug, bin |-> d.bin, alias |-> d.alias, links |-> d.links, icons |-> d.icons]
  BY DEF Tables
<1>2. w.id \in Ids /\ w.new \in Paths /\ w.op \in {"move", "save"}
  BY DEF Moved, Written
<1>3. w.op = "save" => w.links \in SUBSET Paths
  BY DEF Moved, Written
<1>4. [d.slug EXCEPT ![w.id] = w.new] \in [Ids -> Paths \cup {None}]
  BY <1>1, <1>2
<1>5. Realias(d, w) \in [Paths -> Ids \cup {None}]
  BY <1>1, <1>2 DEF Realias
<1>6. MoveIcon(d, w) \in SUBSET Paths
  BY <1>1, <1>2 DEF MoveIcon
<1>7. \A icons \in SUBSET Paths : savePageIcon(icons, w.new, w.icon) \in SUBSET Paths
  BY <1>2 DEF savePageIcon
<1>8. retargetMovedPageLinks(d, w) \in [Ids -> SUBSET Paths]
  BY <1>1, <1>2 DEF retargetMovedPageLinks
<1>9. CASE w.op = "move"
  <2>1. Apply(d, w) = [d EXCEPT !.slug[w.id] = w.new, !.alias = Realias(d, w),
              !.icons = MoveIcon(d, w), !.links = retargetMovedPageLinks(d, w)]
    BY <1>9 DEF Apply, applyPageMoves
  <2>2. Apply(d, w) = [slug |-> [d.slug EXCEPT ![w.id] = w.new], bin |-> d.bin, alias |-> Realias(d, w),
              links |-> retargetMovedPageLinks(d, w), icons |-> MoveIcon(d, w)]
    BY <1>1, <2>1
  <2> QED
    BY <1>1, <1>4, <1>5, <1>6, <1>8, <2>2 DEF Tables
<1>10. CASE w.op = "save"
  <2> DEFINE alias == IF w.old = None THEN d.alias ELSE Realias(d, w)
             icons == savePageIcon(IF w.old = None THEN d.icons ELSE MoveIcon(d, w), w.new, w.icon)
  <2>1. Apply(d, w) = [d EXCEPT !.slug[w.id] = w.new, !.alias = alias, !.icons = icons, !.links[w.id] = w.links]
    BY <1>10 DEF Apply, executePageSaveTransaction
  <2>2. alias \in [Paths -> Ids \cup {None}] /\ icons \in SUBSET Paths
    BY <1>1, <1>5, <1>6, <1>7
  <2>3. [d.links EXCEPT ![w.id] = w.links] \in [Ids -> SUBSET Paths]
    BY <1>1, <1>2, <1>3, <1>10
  <2> HIDE DEF alias, icons
  <2>4. Apply(d, w) = [slug |-> [d.slug EXCEPT ![w.id] = w.new], bin |-> d.bin, alias |-> alias,
              links |-> [d.links EXCEPT ![w.id] = w.links], icons |-> icons]
    BY <1>1, <2>1
  <2> QED
    BY <1>1, <1>4, <2>2, <2>3, <2>4 DEF Tables
<1> QED
  BY <1>2, <1>9, <1>10

LEMMA ReplayTyped ==
    ASSUME NEW d \in Tables, NEW ws \in Seq(Moved \cup Written)
    PROVE  Replay(d, ws) \in Tables
<1> DEFINE T == {k \in 0..Len(ws) : Replayed(d, ws)[k] \notin Tables}
<1>1. Len(ws) \in Nat
  OBVIOUS
<1>2. \A k \in 0..Len(ws) :
        Replayed(d, ws)[k] = IF k = 0 THEN d ELSE Apply(Replayed(d, ws)[k - 1], ws[k])
  BY <1>1, ReplaySteps
<1>3. T = {}
  <2> SUFFICES ASSUME T # {} PROVE FALSE
    OBVIOUS
  <2>1. PICK k \in T : \A y \in T : k <= y
    <3>1. T \subseteq Nat
      BY <1>1
    <3> HIDE DEF T
    <3> QED
      BY <3>1, LeastNatural
  <2>2. k # 0
    BY <1>2, <2>1
  <2>3. k - 1 \in 0..Len(ws) /\ ~(k <= k - 1)
    BY <1>1, <2>1, <2>2
  <2>4. Replayed(d, ws)[k - 1] \in Tables
    BY <2>1, <2>3
  <2>5. ws[k] \in Moved \cup Written
    BY <1>1, <2>1, <2>2
  <2>6. Replayed(d, ws)[k] \in Tables
    BY <1>2, <2>1, <2>2, <2>4, <2>5, ApplyTyped
  <2> QED
    BY <2>1, <2>6
<1>4. Len(ws) \in 0..Len(ws)
  BY <1>1
<1> QED
  BY <1>3, <1>4, ReplayIsLast

LEMMA FinitePaths ==
    /\ IsFiniteSet(Paths) /\ IsFiniteSet(Ids)
    /\ Sources \subseteq Paths /\ Targets \subseteq Paths /\ Settable \subseteq Paths
    /\ None \notin Clients /\ None \notin Paths /\ None \notin Ids
  BY NamespaceAssumption

LEMMA ImageFinite ==
    ASSUME NEW S, IsFiniteSet(S), NEW f
    PROVE  IsFiniteSet({f[x] : x \in S})
<1> DEFINE T == {f[x] : x \in S}
           g == [x \in S |-> f[x]]
<1>1. g \in Surjection(S, T)
  BY DEF Surjection
<1> QED
  BY <1>1, FS_Surjection

\* One transaction goes on, and the tables are typed.
LEMMA OneMoves ==
    ASSUME TablesTyped, db' \in Tables, NEW c \in Clients, NEW t \in Transaction, Underway(t),
           tx' = [tx EXCEPT ![c] = t]
    PROVE  TablesTyped'
<1>1. tx \in [Clients -> Transaction] /\ \A e \in Clients : Underway(tx[e])
  BY DEF TablesTyped
<1> HIDE DEF Transaction
<1>2. tx' \in [Clients -> Transaction]
  BY <1>1
<1>3. \A e \in Clients : Underway(tx'[e])
  <2> SUFFICES ASSUME NEW e \in Clients PROVE Underway(tx'[e])
    OBVIOUS
  <2>1. CASE e = c
    BY <1>1, <2>1
  <2>2. CASE e # c
    <3>1. tx'[e] = tx[e]
      BY <1>1, <2>2
    <3> QED
      BY <1>1, <3>1
  <2> QED
    BY <2>1, <2>2
<1> QED
  BY <1>2, <1>3 DEF TablesTyped, Underway

LEMMA IdleTyped == Idle \in Transaction /\ Underway(Idle)
<1>1. Idle = [todo |-> <<>>, found |-> None, writes |-> <<>>, rest |-> <<>>, alone |-> TRUE, step |-> "idle"]
  BY DEF Idle
<1>2. <<>> \in Seq(Moving \cup Saving) /\ <<>> \in Seq(Moved \cup Written) /\ <<>> \in Seq(Paths)
  OBVIOUS
<1> QED
  BY <1>1, <1>2 DEF Transaction, Underway

LEMMA BeginTyped ==
    ASSUME TablesTyped, NEW c \in Clients, NEW tasks \in Seq(Moving \cup Saving), tasks # <<>>, Begin(c, tasks)
    PROVE  TablesTyped'
<1> DEFINE t == [todo |-> tasks, found |-> None, writes |-> <<>>, rest |-> <<>>, alone |-> TRUE, step |-> "read"]
<1>1. tx' = [tx EXCEPT ![c] = t] /\ db' = db
  <2>1. PICK p : p = [Idle EXCEPT !.todo = tasks, !.step = "read"]
    OBVIOUS
  <2>2. p = t
    BY <2>1 DEF Idle
  <2> HIDE DEF t
  <2> QED
    BY <2>1, <2>2 DEF Begin
<1>2. <<>> \in Seq(Moved \cup Written) /\ <<>> \in Seq(Paths)
  OBVIOUS
<1>3. t \in Transaction
  BY <1>2 DEF Transaction
<1>4. Underway(t)
  BY DEF Underway
<1>5. db' \in Tables
  BY <1>1 DEF TablesTyped
<1> HIDE DEF t
<1> QED
  BY <1>1, <1>3, <1>4, <1>5, OneMoves

LEMMA SaveTyped ==
    ASSUME TablesTyped, NEW c \in Clients, NEW actor, NEW from \in Sources \cup {None},
           NEW to \in Paths, NEW icon \in BOOLEAN, NEW links \in SUBSET Settable,
           Save(c, actor, from, to, icon, links)
    PROVE  TablesTyped'
<1>1. SaveTask(from, to, icon, links) \in Saving
  BY FinitePaths DEF SaveTask, Saving
<1>2. PICK task : task = SaveTask(from, to, icon, links)
  OBVIOUS
<1>3. <<task>> \in Seq(Moving \cup Saving) /\ <<task>> # <<>>
  BY <1>1, <1>2
<1>4. Begin(c, <<task>>)
  BY <1>2 DEF Save
<1> QED
  BY <1>3, <1>4, BeginTyped

LEMMA MovePageTyped ==
    ASSUME TablesTyped, NEW c \in Clients, NEW actor, NEW from \in Sources,
           NEW to \in Targets, NEW tree \in BOOLEAN, MovePage(c, actor, from, to, tree)
    PROVE  TablesTyped'
<1>1. MoveTask(from, to, tree) \in Moving
  BY FinitePaths DEF MoveTask, Moving
<1>2. PICK task : task = MoveTask(from, to, tree)
  OBVIOUS
<1>3. <<task>> \in Seq(Moving \cup Saving) /\ <<task>> # <<>>
  BY <1>1, <1>2
<1>4. Begin(c, <<task>>)
  BY <1>2 DEF MovePage
<1> QED
  BY <1>3, <1>4, BeginTyped

LEMMA SubsetsFinite ==
    ASSUME NEW S \in SUBSET Paths
    PROVE  IsFiniteSet(S) /\ Cardinality(S) \in Nat /\ (S # {} => Cardinality(S) # 0)
<1>1. IsFiniteSet(S)
  BY FinitePaths, FS_Subset
<1> QED
  BY <1>1, FS_CardinalityType, FS_EmptySet

LEMMA BulkMoveTyped ==
    ASSUME TablesTyped, NEW c \in Clients, NEW selected \in SUBSET Sources, selected # {},
           NEW target \in Targets, BulkMovePages(c, selected, target)
    PROVE  TablesTyped'
<1> DEFINE Destination(p) == Append(target, Last(p))
<1>1. selected \in SUBSET Paths
  BY FinitePaths
<1>2. PICK ordered \in SetToSeqs(selected) :
         Begin(c, [k \in DOMAIN ordered |-> MoveTask(ordered[k], Destination(ordered[k]), FALSE)])
  BY DEF BulkMovePages
<1>3. \A p \in selected : Destination(p) \in Paths
  BY DEF BulkMovePages
<1>4. PICK n \in Nat : n # 0 /\ ordered \in [1..n -> selected]
  <2>1. ordered \in [1..Cardinality(selected) -> selected]
    BY DEF SetToSeqs
  <2> QED
    BY <1>1, <2>1, SubsetsFinite
<1> DEFINE task(p) == MoveTask(p, Destination(p), FALSE)
           tasks == [k \in 1..n |-> task(ordered[k])]
<1>5. \A p \in selected : task(p) \in Moving
  <2> SUFFICES ASSUME NEW p \in selected PROVE task(p) \in Moving
    OBVIOUS
  <2>1. Destination(p) \in Paths /\ p \in Paths
    BY <1>1, <1>3
  <2> HIDE DEF Destination
  <2> QED
    BY <2>1 DEF MoveTask, Moving
<1>6. DOMAIN ordered = 1..n
  BY <1>4
<1>7. Begin(c, tasks)
  BY <1>2, <1>6
<1> HIDE DEF task
<1>8. tasks \in [1..n -> Moving \cup Saving]
  BY <1>4, <1>5
<1>9. tasks \in Seq(Moving \cup Saving) /\ Len(tasks) = n
  <2> HIDE DEF tasks
  <2> QED
    BY <1>8
<1>10. tasks # <<>>
  BY <1>4, <1>9
<1> HIDE DEF tasks
<1> QED
  BY <1>7, <1>9, <1>10, BeginTyped

LEMMA ImportPortableTyped ==
    ASSUME TablesTyped, NEW c \in Clients, NEW paths \in SUBSET Paths, paths # {},
           NEW icon \in BOOLEAN, ImportPortablePages(c, paths, icon)
    PROVE  TablesTyped'
<1>1. paths \in SUBSET Paths
  OBVIOUS
<1>2. PICK ordered : ordered = SetToSeq(paths)
  OBVIOUS
<1>3. ordered \in Seq(paths) /\ ordered # <<>>
  BY <1>1, <1>2, SubsetsFinite, SequenceOfSet
<1>4. PICK n \in Nat : n # 0 /\ ordered \in [1..n -> paths] /\ DOMAIN ordered = 1..n
  BY <1>3
<1> DEFINE task(p) == SaveTask(None, p, icon, {})
           tasks == [k \in 1..n |-> task(ordered[k])]
<1>5. \A p \in paths : task(p) \in Saving
  BY <1>1 DEF SaveTask, Saving
<1>6. Begin(c, tasks)
  BY <1>2, <1>4 DEF ImportPortablePages
<1> HIDE DEF task
<1>7. tasks \in [1..n -> Moving \cup Saving]
  BY <1>4, <1>5
<1>8. tasks \in Seq(Moving \cup Saving) /\ Len(tasks) = n
  <2> HIDE DEF tasks
  <2> QED
    BY <1>7
<1>9. tasks # <<>>
  BY <1>4, <1>8
<1> HIDE DEF tasks
<1> QED
  BY <1>6, <1>8, <1>9, BeginTyped

LEMMA ImportTyped ==
    ASSUME TablesTyped, NEW c \in Clients, NEW paths \in SUBSET Targets, paths # {},
           Import(c, paths)
    PROVE  TablesTyped'
<1>1. paths \in SUBSET Paths
  BY FinitePaths
<1>2. PICK ordered : ordered = SetToSeq(paths)
  OBVIOUS
<1>3. ordered \in Seq(Paths) /\ ordered # <<>>
  BY <1>1, <1>2, SubsetsFinite, SequenceOfSet
<1> DEFINE t == [todo |-> <<>>, found |-> None, writes |-> <<>>, rest |-> ordered, alone |-> TRUE, step |-> "import"]
<1>4. tx' = [tx EXCEPT ![c] = t] /\ db' = db
  <2>1. PICK p : p = [Idle EXCEPT !.rest = ordered, !.step = "import"]
    OBVIOUS
  <2>2. p = t
    BY <2>1 DEF Idle
  <2> HIDE DEF t
  <2> QED
    BY <1>2, <2>1, <2>2 DEF Import
<1>5. <<>> \in Seq(Moved \cup Written) /\ <<>> \in Seq(Moving \cup Saving)
  OBVIOUS
<1>6. t \in Transaction
  BY <1>3, <1>5 DEF Transaction
<1>7. Underway(t)
  BY <1>3 DEF Underway
<1>8. db' \in Tables
  BY <1>4 DEF TablesTyped
<1> HIDE DEF t
<1> QED
  BY <1>4, <1>6, <1>7, <1>8, OneMoves

\* A change of the tables, as the other transactions see it, and as its own does.
LEMMA OthersChange ==
    ASSUME TablesTyped, NEW c, NEW step, NEW e \in Clients, e # c
    PROVE  \E b \in BOOLEAN :
              Changed(c, step)[e] = [todo |-> tx[e].todo, found |-> tx[e].found, writes |-> tx[e].writes,
                                           rest |-> tx[e].rest, alone |-> b, step |-> tx[e].step]
<1>1. PICK t \in Transaction : t = tx[e]
  BY DEF TablesTyped
<1>2. /\ t = [todo |-> t.todo, found |-> t.found, writes |-> t.writes, rest |-> t.rest, alone |-> t.alone, step |-> t.step]
      /\ t.alone \in BOOLEAN
  BY DEF Transaction
<1>3. PICK p : p = Changed(c, step)[e]
  OBVIOUS
<1>4. p = IF t.step = "idle" THEN t ELSE [t EXCEPT !.alone = FALSE]
  BY <1>1, <1>3 DEF Changed
<1>5. \/ p = [todo |-> t.todo, found |-> t.found, writes |-> t.writes, rest |-> t.rest, alone |-> t.alone, step |-> t.step]
      \/ p = [todo |-> t.todo, found |-> t.found, writes |-> t.writes, rest |-> t.rest, alone |-> FALSE, step |-> t.step]
  BY <1>2, <1>4
<1> QED
  BY <1>1, <1>2, <1>3, <1>5

LEMMA OwnChange ==
    ASSUME NEW c \in Clients, NEW step
    PROVE  Changed(c, step)[c] = [todo |-> <<>>, found |-> None, writes |-> <<>>, rest |-> tx[c].rest,
                                        alone |-> TRUE, step |-> step]
<1>1. PICK p : p = Changed(c, step)[c]
  OBVIOUS
<1>2. p = [Idle EXCEPT !.step = step, !.rest = tx[c].rest]
  BY <1>1 DEF Changed
<1>3. p = [todo |-> <<>>, found |-> None, writes |-> <<>>, rest |-> tx[c].rest, alone |-> TRUE, step |-> step]
  BY <1>2 DEF Idle
<1> QED
  BY <1>1, <1>3

LEMMA ChangedTyped ==
    ASSUME TablesTyped, NEW c, NEW step \in {"invalidate", "cached"}
    PROVE  /\ Changed(c, step) \in [Clients -> Transaction]
           /\ \A e \in Clients : e # c => Underway(Changed(c, step)[e])
<1> DEFINE changed == Changed(c, step)
<1>1. \A e \in Clients : e # c => changed[e] \in Transaction /\ Underway(changed[e])
  <2> SUFFICES ASSUME NEW e \in Clients, e # c PROVE changed[e] \in Transaction /\ Underway(changed[e])
    OBVIOUS
  <2>1. PICK b \in BOOLEAN :
            changed[e] = [todo |-> tx[e].todo, found |-> tx[e].found, writes |-> tx[e].writes,
                          rest |-> tx[e].rest, alone |-> b, step |-> tx[e].step]
    BY OthersChange
  <2> HIDE DEF changed
  <2>2. tx[e] \in Transaction /\ Underway(tx[e])
    BY DEF TablesTyped
  <2>3. changed[e] \in Transaction
    BY <2>1, <2>2 DEF Transaction
  <2>4. Underway(changed[e])
    BY <2>1, <2>2 DEF Underway
  <2> QED
    BY <2>3, <2>4
<1>2. c \in Clients => changed[c] \in Transaction
  <2> SUFFICES ASSUME c \in Clients PROVE changed[c] \in Transaction
    OBVIOUS
  <2>1. changed[c] = [todo |-> <<>>, found |-> None, writes |-> <<>>, rest |-> tx[c].rest, alone |-> TRUE, step |-> step]
    BY OwnChange
  <2> HIDE DEF changed
  <2>2. tx[c].rest \in Seq(Paths)
    BY DEF TablesTyped, Transaction
  <2>3. <<>> \in Seq(Moving \cup Saving) /\ <<>> \in Seq(Moved \cup Written)
    OBVIOUS
  <2> QED
    BY <2>1, <2>2, <2>3 DEF Transaction
<1>3. changed = [e \in Clients |-> changed[e]]
  BY DEF Changed
<1> HIDE DEF changed
<1>4. changed \in [Clients -> Transaction]
  <2> HIDE DEF Transaction
  <2>1. \A e \in Clients : changed[e] \in Transaction
    BY <1>1, <1>2
  <2> QED
    BY <1>3, <2>1
<1> QED
  BY <1>1, <1>4 DEF changed

LEMMA TablesChange ==
    ASSUME TablesTyped, db' \in Tables, NEW c, tx' = Changed(c, "invalidate")
    PROVE  TablesTyped'
<1>1. /\ tx' \in [Clients -> Transaction]
      /\ \A e \in Clients : e # c => Underway(tx'[e])
  BY ChangedTyped
<1>2. c \in Clients => Underway(tx'[c])
  <2>1. c \in Clients =>
          tx'[c] = [todo |-> <<>>, found |-> None, writes |-> <<>>, rest |-> tx[c].rest,
                       alone |-> TRUE, step |-> "invalidate"]
    BY OwnChange
  <2> QED
    BY <2>1 DEF Underway
<1>3. \A e \in Clients : Underway(tx'[e])
  BY <1>1, <1>2
<1> QED
  BY <1>1, <1>3 DEF TablesTyped, Underway

LEMMA ViewTyped ==
    ASSUME TablesTyped, NEW c \in Clients
    PROVE  View(c) \in Tables
<1>1. db \in Tables /\ tx[c].writes \in Seq(Moved \cup Written)
  BY DEF TablesTyped, Transaction
<1> QED
  BY <1>1, ReplayTyped DEF View

LEMMA CommitTyped ==
    ASSUME TablesTyped, NEW c \in Clients, Commit(c)
    PROVE  TablesTyped'
<1>1. db' \in Tables /\ tx' = Changed(c, "invalidate")
  BY ViewTyped DEF Commit
<1> QED
  BY <1>1, TablesChange

LEMMA StatementTyped ==
    ASSUME TablesTyped, NEW new \in Tables, Statement(new)
    PROVE  TablesTyped'
<1>1. db' \in Tables /\ tx' = Changed(None, "idle") /\ None \notin Clients
  BY FinitePaths DEF Statement
<1>2. Changed(None, "idle") = Changed(None, "invalidate")
  BY <1>1 DEF Changed
<1> QED
  BY <1>1, <1>2, TablesChange

LEMMA BinTyped ==
    ASSUME TablesTyped, NEW bin \in SUBSET Ids
    PROVE  [db EXCEPT !.bin = bin] \in Tables
<1>1. PICK d : d = db
  OBVIOUS
<1>2. d \in Tables
  BY <1>1 DEF TablesTyped
<1>3. [d EXCEPT !.bin = bin] \in Tables
  BY <1>2 DEF Tables
<1> QED
  BY <1>1, <1>3

LEMMA BulkDeleteTyped ==
    ASSUME TablesTyped, NEW ids \in SUBSET Ids, BulkDeletePages(ids)
    PROVE  TablesTyped'
<1>1. db.bin \cup ids \in SUBSET Ids
  BY DEF TablesTyped, Tables
<1>2. [db EXCEPT !.bin = @ \cup ids] \in Tables
  BY <1>1, BinTyped
<1>3. Statement([db EXCEPT !.bin = @ \cup ids])
  BY DEF BulkDeletePages
<1> QED
  BY <1>2, <1>3, StatementTyped

LEMMA RestoreTyped ==
    ASSUME TablesTyped, NEW i \in Ids, RestorePage(i)
    PROVE  TablesTyped'
<1>1. db.bin \ {i} \in SUBSET Ids
  BY DEF TablesTyped, Tables
<1>2. [db EXCEPT !.bin = @ \ {i}] \in Tables
  BY <1>1, BinTyped
<1>3. Statement([db EXCEPT !.bin = @ \ {i}])
  BY DEF RestorePage
<1> QED
  BY <1>2, <1>3, StatementTyped

LEMMA PurgeTyped ==
    ASSUME TablesTyped, NEW c \in Clients, NEW i \in Ids, PermanentlyDeletePage(c, i)
    PROVE  TablesTyped'
<1>1. PICK d \in Tables : d = db
  BY DEF TablesTyped
<1>2. /\ d.slug \in [Ids -> Paths \cup {None}] /\ d.bin \in SUBSET Ids /\ d.alias \in [Paths -> Ids \cup {None}]
      /\ d.links \in [Ids -> SUBSET Paths] /\ d.icons \in SUBSET Paths
      /\ d = [slug |-> d.slug, bin |-> d.bin, alias |-> d.alias, links |-> d.links, icons |-> d.icons]
  BY DEF Tables
<1> DEFINE slugs == {d.slug[j] : j \in Ids \ {i}} \ {None}
           alias == [p \in Paths |-> IF d.alias[p] = i THEN None ELSE d.alias[p]]
           icons == {p \in d.icons : \E s \in slugs : Under(s, p)}
<1>3. alias \in [Paths -> Ids \cup {None}] /\ icons \in SUBSET Paths
  BY <1>2
<1>4. [d.slug EXCEPT ![i] = None] \in [Ids -> Paths \cup {None}] /\ [d.links EXCEPT ![i] = {}] \in [Ids -> SUBSET Paths]
  BY <1>2
<1>5. db' = [d EXCEPT !.slug[i] = None, !.bin = d.bin \ {i}, !.links[i] = {}, !.alias = alias, !.icons = icons]
  BY <1>1 DEF PermanentlyDeletePage
<1> HIDE DEF alias, icons
<1>6. db' = [slug |-> [d.slug EXCEPT ![i] = None], bin |-> d.bin \ {i}, alias |-> alias,
             links |-> [d.links EXCEPT ![i] = {}], icons |-> icons]
  BY <1>2, <1>5
<1>7. db' \in Tables
  BY <1>2, <1>3, <1>4, <1>6 DEF Tables
<1>8. tx' = Changed(c, "invalidate")
  BY DEF PermanentlyDeletePage
<1> QED
  BY <1>7, <1>8, TablesChange

LEMMA SetIconTyped ==
    ASSUME TablesTyped, NEW c \in Clients, NEW path \in Settable, NEW icon \in BOOLEAN,
           SetNavigationIcon(c, path, icon)
    PROVE  TablesTyped'
<1>1. PICK d \in Tables : d = db
  BY DEF TablesTyped
<1>2. path \in Paths
  BY FinitePaths
<1>3. savePageIcon(d.icons, path, icon) \in SUBSET Paths
  BY <1>2 DEF savePageIcon, Tables
<1>4. db' = [d EXCEPT !.icons = savePageIcon(d.icons, path, icon)]
  BY <1>1 DEF SetNavigationIcon
<1>5. db' \in Tables
  BY <1>3, <1>4 DEF Tables
<1> DEFINE changed == Changed(c, "cached")
           found == [path |-> path, icon |-> icon]
           t == [todo |-> <<>>, found |-> found, writes |-> <<>>, rest |-> tx[c].rest, alone |-> TRUE, step |-> "cached"]
<1>6. changed \in [Clients -> Transaction] /\ (\A e \in Clients : e # c => Underway(changed[e]))
  BY ChangedTyped
<1>7. changed[c] = [todo |-> <<>>, found |-> None, writes |-> <<>>, rest |-> tx[c].rest, alone |-> TRUE, step |-> "cached"]
  BY OwnChange
<1>8. tx' = [changed EXCEPT ![c].found = found]
  BY DEF SetNavigationIcon
<1>9. found \in IconChange
  BY <1>2 DEF IconChange
<1> HIDE DEF changed, found
<1>10. tx' = [changed EXCEPT ![c] = t]
  <2>1. PICK p : p = changed[c]
    OBVIOUS
  <2>2. PICK q : q = [p EXCEPT !.found = found]
    OBVIOUS
  <2>3. /\ DOMAIN p = {"todo", "found", "writes", "rest", "alone", "step"}
        /\ p.todo = <<>> /\ p.writes = <<>> /\ p.rest = tx[c].rest /\ p.alone = TRUE /\ p.step = "cached"
    BY <1>7, <2>1
  <2>4. /\ q = [x \in {"todo", "found", "writes", "rest", "alone", "step"} |-> q[x]]
        /\ q.todo = <<>> /\ q.writes = <<>> /\ q.rest = tx[c].rest /\ q.alone = TRUE /\ q.step = "cached"
        /\ q.found = found
    BY <2>2, <2>3
  <2>5. q = t
    BY <2>4
  <2> HIDE DEF t
  <2> QED
    BY <1>8, <2>1, <2>2, <2>5
<1>11. t \in Transaction
  <2>1. tx[c].rest \in Seq(Paths)
    BY DEF TablesTyped, Transaction
  <2>2. <<>> \in Seq(Moving \cup Saving) /\ <<>> \in Seq(Moved \cup Written)
    OBVIOUS
  <2> QED
    BY <1>9, <2>1, <2>2 DEF Transaction
<1>12. Underway(t)
  BY <1>9 DEF Underway
<1> HIDE DEF t
<1>13. tx' \in [Clients -> Transaction] /\ (\A e \in Clients : Underway(tx'[e]))
  <2> HIDE DEF Transaction
  <2>1. tx' \in [Clients -> Transaction] /\ tx'[c] = t /\ \A e \in Clients : e # c => tx'[e] = changed[e]
    BY <1>6, <1>10, <1>11
  <2> QED
    BY <1>6, <1>12, <2>1
<1> QED
  BY <1>5, <1>13 DEF TablesTyped, Underway

\* The steps of a transaction.
LEMMA IdleAgain ==
    ASSUME TablesTyped, NEW c \in Clients, db' = db, tx' = [tx EXCEPT ![c] = Idle]
    PROVE  TablesTyped'
<1>1. db' \in Tables
  BY DEF TablesTyped
<1> QED
  BY <1>1, IdleTyped, OneMoves

LEMMA ImportPageTyped ==
    ASSUME TablesTyped, NEW c \in Clients, importPage(c)
    PROVE  TablesTyped'
<1>1. tx[c].rest \in Seq(Paths) /\ tx[c].rest # <<>>
  BY DEF TablesTyped, Transaction, Underway, importPage
<1>2. PICK rest \in Seq(Paths) : rest = tx[c].rest /\ rest # <<>>
  BY <1>1
<1>3. Head(rest) \in Paths /\ Tail(rest) \in Seq(Paths)
  BY <1>2
<1> DEFINE kept == GetPage(db, Head(rest)) # {} /\ Head(rest) \in db.icons
           task == SaveTask(None, Head(rest), kept, {})
           t == [todo |-> <<task>>, found |-> None, writes |-> <<>>, rest |-> Tail(rest), alone |-> TRUE, step |-> "read"]
<1>4. kept \in BOOLEAN
  OBVIOUS
<1> HIDE DEF kept
<1>5. task \in Saving
  BY <1>3, <1>4 DEF SaveTask, Saving
<1>6. tx' = [tx EXCEPT ![c] = t] /\ db' = db
  <2> HIDE DEF task
  <2>1. PICK p : p = [Idle EXCEPT !.todo = <<task>>, !.rest = Tail(rest), !.step = "read"]
    OBVIOUS
  <2>2. p = t
    BY <2>1 DEF Idle
  <2>3. tx' = [tx EXCEPT ![c] = [Idle EXCEPT !.todo = <<task>>, !.rest = Tail(rest), !.step = "read"]] /\ db' = db
    BY <1>2 DEF importPage, kept, task
  <2> HIDE DEF t
  <2> QED
    BY <2>1, <2>2, <2>3
<1> HIDE DEF task
<1>7. <<task>> \in Seq(Moving \cup Saving) /\ <<task>> # <<>> /\ <<>> \in Seq(Moved \cup Written)
  BY <1>5
<1>8. t \in Transaction
  BY <1>3, <1>7 DEF Transaction
<1>9. Underway(t)
  BY <1>7 DEF Underway
<1>10. db' \in Tables
  BY <1>6 DEF TablesTyped
<1> HIDE DEF t
<1> QED
  BY <1>6, <1>8, <1>9, <1>10, OneMoves

LEMMA FoundTyped ==
    ASSUME TablesTyped, NEW c \in Clients, tx[c].step = "read", NEW writes \in SUBSET (Moved \cup Written),
           IsFiniteSet(writes), Found(c, writes)
    PROVE  TablesTyped'
<1>1. PICK t \in Transaction : t = tx[c] /\ t.todo # <<>>
  BY DEF TablesTyped, Underway
<1>2. /\ t.todo \in Seq(Moving \cup Saving) /\ t.writes \in Seq(Moved \cup Written) /\ t.rest \in Seq(Paths) /\ t.alone \in BOOLEAN
      /\ t = [todo |-> t.todo, found |-> t.found, writes |-> t.writes, rest |-> t.rest, alone |-> t.alone, step |-> t.step]
  BY DEF Transaction
<1> DEFINE u == [todo |-> t.todo, found |-> writes, writes |-> t.writes, rest |-> t.rest, alone |-> t.alone, step |-> "write"]
<1>3. tx' = [tx EXCEPT ![c] = u] /\ db' = db
  <2>1. PICK p : p = [t EXCEPT !.found = writes, !.step = "write"]
    OBVIOUS
  <2>2. p = u
    BY <1>2, <2>1
  <2>3. tx' = [tx EXCEPT ![c] = [t EXCEPT !.found = writes, !.step = "write"]] /\ db' = db
    BY <1>1 DEF Found, TablesTyped
  <2> HIDE DEF u
  <2> QED
    BY <2>1, <2>2, <2>3
<1>4. u \in Transaction
  BY <1>2 DEF Transaction
<1>5. Underway(u)
  BY <1>1 DEF Underway
<1>6. db' \in Tables
  BY <1>3 DEF TablesTyped
<1> HIDE DEF u
<1> QED
  BY <1>3, <1>4, <1>5, <1>6, OneMoves

LEMMA ReadMovedTyped ==
    ASSUME TablesTyped, NEW c \in Clients, ReadMoved(c)
    PROVE  TablesTyped'
<1>1. PICK d \in Tables : d = View(c)
  BY ViewTyped
<1>2. PICK task : task = Head(tx[c].todo)
  OBVIOUS
<1> DEFINE writes == validateMoveDestinations(d, task)
           pages == loadMovedPages(d, task)
           move(i) == Move(i, d.slug[i], Rebase(d.slug[i], task.from, task.to))
<1>3. tx[c].step = "read" /\ Found(c, writes) /\ (\A w \in writes : w.new \in Paths)
  BY <1>1, <1>2 DEF ReadMoved
<1>4. pages \subseteq Ids
  BY DEF loadMovedPages, Live
<1>5. writes = {move(i) : i \in pages}
  BY DEF validateMoveDestinations
<1>6. writes \subseteq Moved
  <2> SUFFICES ASSUME NEW i \in pages PROVE move(i) \in Moved
    BY <1>5
  <2>1. d.slug[i] \in Paths \cup {None} /\ i \in Ids
    BY <1>4 DEF Tables
  <2>2. PICK new : new = Rebase(d.slug[i], task.from, task.to)
    OBVIOUS
  <2>3. move(i) = [op |-> "move", id |-> i, old |-> d.slug[i], new |-> new]
    BY <2>2 DEF Move
  <2>4. move(i) \in writes
    BY <1>5
  <2>5. new \in Paths
    <3> HIDE DEF move, writes
    <3>1. move(i).new = new
      BY <2>3
    <3> QED
      BY <1>3, <2>4, <3>1
  <2> HIDE DEF move
  <2> QED
    BY <2>1, <2>3, <2>5 DEF Moved
<1>7. IsFiniteSet(writes)
  <2>1. IsFiniteSet(pages)
    BY <1>4, FinitePaths, FS_Subset
  <2>2. PICK f : f = [i \in pages |-> move(i)]
    OBVIOUS
  <2> HIDE DEF pages, move, writes
  <2>3. writes = {f[i] : i \in pages}
    BY <1>5, <2>2
  <2> QED
    BY <2>1, <2>3, ImageFinite
<1> HIDE DEF writes
<1> QED
  BY <1>3, <1>6, <1>7, FoundTyped

LEMMA SavePageRecordTyped ==
    ASSUME TablesTyped, NEW c \in Clients, savePageRecord(c)
    PROVE  TablesTyped'
<1>1. PICK d \in Tables : d = View(c)
  BY ViewTyped
<1>2. tx[c].step = "read" /\ tx[c].todo \in Seq(Moving \cup Saving) /\ tx[c].todo # <<>>
  BY DEF TablesTyped, Transaction, Underway, savePageRecord
<1>3. PICK t \in Moving \cup Saving : t = Head(tx[c].todo)
  BY <1>2
<1>4. t.op = "save"
  BY <1>3 DEF savePageRecord
<1>5. t \in Saving
  BY <1>4 DEF Moving
<1>6. PICK path : path = pageRecordLookupSlug(t)
  OBVIOUS
<1>7. path \in Paths
  BY <1>5, <1>6 DEF pageRecordLookupSlug, Saving
<1> DEFINE found == {i \in Ids : d.slug[i] = path}
           write(i, old) == [op |-> "save", id |-> i, old |-> old, new |-> t.to, icon |-> t.icon, links |-> t.links]
<1>8. \/ Found(c, {write(i, path) : i \in found})
      \/ \E i \in Ids : Found(c, {write(i, None)})
  BY <1>1, <1>3, <1>6 DEF savePageRecord
<1>9. \A i \in Ids, old \in Paths \cup {None} : write(i, old) \in Written
  BY <1>5 DEF Saving, Written
<1> HIDE DEF write
<1>10. CASE Found(c, {write(i, path) : i \in found})
  <2>1. {write(i, path) : i \in found} \in SUBSET (Moved \cup Written)
    BY <1>7, <1>9
  <2>2. IsFiniteSet({write(i, path) : i \in found})
    <3>1. IsFiniteSet(found)
      BY FinitePaths, FS_Subset
    <3>2. PICK f : f = [i \in found |-> write(i, path)]
      OBVIOUS
    <3> HIDE DEF found
    <3>3. {write(i, path) : i \in found} = {f[i] : i \in found}
      BY <3>2
    <3>4. IsFiniteSet({f[i] : i \in found})
      BY <3>1, ImageFinite
    <3> QED
      BY <3>3, <3>4
  <2> QED
    BY <1>2, <1>10, <2>1, <2>2, FoundTyped
<1>11. ASSUME NEW i \in Ids, Found(c, {write(i, None)}) PROVE TablesTyped'
  <2>1. {write(i, None)} \in SUBSET (Moved \cup Written) /\ IsFiniteSet({write(i, None)})
    <3>1. PICK w : w = write(i, None)
      OBVIOUS
    <3>2. \A x : IsFiniteSet({x})
      BY FS_Singleton
    <3> QED
      BY <1>9, <3>1, <3>2
  <2> QED
    BY <1>2, <1>11, <2>1, FoundTyped
<1> QED
  BY <1>8, <1>10, <1>11

LEMMA WriteTaskTyped ==
    ASSUME TablesTyped, NEW c \in Clients, WriteTask(c)
    PROVE  TablesTyped'
<1>1. PICK t \in Transaction : t = tx[c] /\ t.step = "write" /\ t.todo # <<>>
                               /\ t.found \in SUBSET (Moved \cup Written) /\ IsFiniteSet(t.found)
  BY DEF TablesTyped, Underway, WriteTask
<1>2. /\ t.todo \in Seq(Moving \cup Saving) /\ t.writes \in Seq(Moved \cup Written) /\ t.rest \in Seq(Paths) /\ t.alone \in BOOLEAN
      /\ t = [todo |-> t.todo, found |-> t.found, writes |-> t.writes, rest |-> t.rest, alone |-> t.alone, step |-> t.step]
  BY DEF Transaction
<1>3. PICK writes : writes = SetToSeq(t.found)
  OBVIOUS
<1>4. writes \in Seq(Moved \cup Written)
  BY <1>1, <1>3, SequenceOfSet
<1>5. PICK step : step = IF Len(t.todo) = 1 THEN "commit" ELSE "read"
  OBVIOUS
<1> DEFINE u == [todo |-> Tail(t.todo), found |-> None, writes |-> t.writes \o writes, rest |-> t.rest,
                 alone |-> t.alone, step |-> step]
<1>6. tx' = [tx EXCEPT ![c] = u] /\ db' = db
  <2>1. PICK p : p = [t EXCEPT !.writes = t.writes \o writes, !.todo = Tail(t.todo), !.found = None, !.step = step]
    OBVIOUS
  <2>2. p = u
    BY <1>2, <2>1
  <2>3. /\ tx' = [tx EXCEPT ![c] = [t EXCEPT !.writes = t.writes \o writes, !.todo = Tail(t.todo), !.found = None,
                                                   !.step = step]]
        /\ db' = db
    BY <1>1, <1>3, <1>5 DEF WriteTask, TablesTyped
  <2> HIDE DEF u
  <2> QED
    BY <2>1, <2>2, <2>3
<1>7. t.writes \o writes \in Seq(Moved \cup Written)
  BY <1>2, <1>4
<1>8. Tail(t.todo) \in Seq(Moving \cup Saving) /\ (Len(t.todo) # 1 => Tail(t.todo) # <<>>)
  <2>1. PICK tasks \in Seq(Moving \cup Saving) : tasks = t.todo /\ tasks # <<>>
    BY <1>1, <1>2
  <2>2. Tail(tasks) \in Seq(Moving \cup Saving) /\ Len(Tail(tasks)) = Len(tasks) - 1 /\ Len(tasks) \in Nat
    BY <2>1
  <2>3. Len(tasks) # 1 => Tail(tasks) # <<>>
    <3>1. PICK rest : rest = Tail(tasks)
      OBVIOUS
    <3>2. rest = <<>> => Len(rest) = 0
      OBVIOUS
    <3> QED
      BY <2>2, <3>1, <3>2
  <2> QED
    BY <2>1, <2>2, <2>3
<1>9. u \in Transaction
  BY <1>2, <1>5, <1>7, <1>8 DEF Transaction
<1>10. Underway(u)
  BY <1>5, <1>8 DEF Underway
<1>11. db' \in Tables
  BY <1>6 DEF TablesTyped
<1> HIDE DEF u
<1> QED
  BY <1>6, <1>9, <1>10, <1>11, OneMoves

LEMMA InvalidateTyped ==
    ASSUME TablesTyped, NEW c \in Clients, InvalidateIcons(c)
    PROVE  TablesTyped'
<1>1. db' = db /\ tx' = Invalidated(c)
  BY DEF InvalidateIcons
<1>2. PICK rest \in Seq(Paths) : rest = tx[c].rest
  BY DEF TablesTyped, Transaction
<1>3. CASE rest = <<>>
  <2>1. tx' = [tx EXCEPT ![c] = Idle]
    BY <1>1, <1>2, <1>3 DEF Invalidated, TablesTyped
  <2> QED
    BY <1>1, <2>1, IdleAgain
<1>4. CASE rest # <<>>
  <2> DEFINE t == [todo |-> <<>>, found |-> None, writes |-> <<>>, rest |-> rest, alone |-> TRUE, step |-> "import"]
  <2>1. tx' = [tx EXCEPT ![c] = t]
    <3>1. PICK p : p = [Idle EXCEPT !.rest = rest, !.step = "import"]
      OBVIOUS
    <3>2. p = t
      BY <3>1 DEF Idle
    <3>3. tx' = [tx EXCEPT ![c] = [Idle EXCEPT !.rest = rest, !.step = "import"]]
      BY <1>1, <1>2, <1>4 DEF Invalidated, TablesTyped
    <3> HIDE DEF t
    <3> QED
      BY <3>1, <3>2, <3>3
  <2>2. <<>> \in Seq(Moving \cup Saving) /\ <<>> \in Seq(Moved \cup Written)
    OBVIOUS
  <2>3. t \in Transaction
    BY <2>2 DEF Transaction
  <2>4. Underway(t)
    BY <1>4 DEF Underway
  <2>5. db' \in Tables
    BY <1>1 DEF TablesTyped
  <2> HIDE DEF t
  <2> QED
    BY <2>1, <2>3, <2>4, <2>5, OneMoves
<1> QED
  BY <1>3, <1>4

LEMMA CacheIconTyped ==
    ASSUME TablesTyped, NEW c \in Clients, CacheIcon(c)
    PROVE  TablesTyped'
  BY IdleAgain DEF CacheIcon

LEMMA RollbackTyped ==
    ASSUME TablesTyped, NEW c \in Clients, Rollback(c)
    PROVE  TablesTyped'
  BY IdleAgain DEF Rollback

LEMMA SpaceStartsTyped ==
    ASSUME SpaceInit
    PROVE  TablesTyped
<1> DEFINE Former(former, of) == [p \in Paths |-> IF p = former THEN of ELSE None]
           Bare(slug, alias) == [slug |-> slug, bin |-> {}, alias |-> alias, links |-> [i \in Ids |-> {}], icons |-> {}]
<1>1. PICK slug \in [Ids -> Sources \cup {None}], former \in Targets, of \in Ids \cup {None} :
         /\ \A i, j \in Ids : slug[i] = slug[j] => i = j \/ slug[i] = None
         /\ of # None => slug[of] # None /\ \A i \in Ids : slug[i] # former
         /\ db = Bare(slug, Former(former, of))
  BY DEF SpaceInit
<1>2. slug \in [Ids -> Paths \cup {None}]
  BY FinitePaths
<1>3. Former(former, of) \in [Paths -> Ids \cup {None}]
  OBVIOUS
<1>4. [i \in Ids |-> {}] \in [Ids -> SUBSET Paths]
  OBVIOUS
<1>5. db \in Tables
  BY <1>1, <1>2, <1>3, <1>4 DEF Tables
<1>6. PICK t : t = Idle
  OBVIOUS
<1>7. tx = [c \in Clients |-> t] /\ t \in Transaction /\ Underway(t)
  BY <1>6, IdleTyped DEF SpaceInit
<1> HIDE DEF Transaction
<1> QED
  BY <1>5, <1>7 DEF TablesTyped

LEMMA RequestTyped ==
    ASSUME TablesTyped, NEW c \in Clients, Request(c)
    PROVE  TablesTyped'
<1>1. ASSUME NEW to \in Targets, NEW from \in Sources \cup {None}, NEW icon \in BOOLEAN, NEW links \in SUBSET Settable,
             Save(c, "user", from, to, icon, links)
      PROVE  TablesTyped'
  BY <1>1, SaveTyped, FinitePaths
<1>2. ASSUME NEW to \in Targets, NEW from \in Sources, NEW tree \in BOOLEAN, MovePage(c, "user", from, to, tree)
      PROVE  TablesTyped'
  BY <1>2, MovePageTyped
<1>3. ASSUME NEW to \in Targets, NEW selected \in (SUBSET Sources) \ {{}}, BulkMovePages(c, selected, to)
      PROVE  TablesTyped'
  BY <1>3, BulkMoveTyped
<1>4. ASSUME NEW paths \in (SUBSET Targets) \ {{}}, Import(c, paths) PROVE TablesTyped'
  BY <1>4, ImportTyped
<1>5. ASSUME NEW paths \in (SUBSET Targets) \ {{}}, NEW icon \in BOOLEAN, ImportPortablePages(c, paths, icon)
      PROVE  TablesTyped'
  BY <1>5, ImportPortableTyped, FinitePaths
<1>6. ASSUME NEW p \in Settable, NEW icon \in BOOLEAN, SetNavigationIcon(c, p, icon) PROVE TablesTyped'
  BY <1>6, SetIconTyped
<1>7. ASSUME NEW i \in Ids, PermanentlyDeletePage(c, i) PROVE TablesTyped'
  BY <1>7, PurgeTyped
<1> QED
  BY <1>1, <1>2, <1>3, <1>4, <1>5, <1>6, <1>7 DEF Request

LEMMA SpaceStepTyped ==
    ASSUME TablesTyped, [SpaceNext]_spaceVars
    PROVE  TablesTyped'
<1>1. ASSUME NEW c \in Clients, Request(c) PROVE TablesTyped'
  BY <1>1, RequestTyped
<1>2. ASSUME NEW c \in Clients, importPage(c) PROVE TablesTyped'
  BY <1>2, ImportPageTyped
<1>3. ASSUME NEW c \in Clients, ReadMoved(c) PROVE TablesTyped'
  BY <1>3, ReadMovedTyped
<1>4. ASSUME NEW c \in Clients, savePageRecord(c) PROVE TablesTyped'
  BY <1>4, SavePageRecordTyped
<1>5. ASSUME NEW c \in Clients, WriteTask(c) PROVE TablesTyped'
  BY <1>5, WriteTaskTyped
<1>6. ASSUME NEW c \in Clients, Commit(c) PROVE TablesTyped'
  BY <1>6, CommitTyped
<1>7. ASSUME NEW c \in Clients, Rollback(c) PROVE TablesTyped'
  BY <1>7, RollbackTyped
<1>8. ASSUME NEW c \in Clients, InvalidateIcons(c) PROVE TablesTyped'
  BY <1>8, InvalidateTyped
<1>9. ASSUME NEW c \in Clients, CacheIcon(c) PROVE TablesTyped'
  BY <1>9, CacheIconTyped
<1>10. ASSUME NEW ids \in (SUBSET Ids) \ {{}}, BulkDeletePages(ids) PROVE TablesTyped'
  BY <1>10, BulkDeleteTyped
<1>11. ASSUME NEW i \in Ids, RestorePage(i) PROVE TablesTyped'
  BY <1>11, RestoreTyped
<1>12. CASE UNCHANGED <<db, tx>>
  BY <1>12 DEF TablesTyped, Underway
<1>13. CASE NavigationIcons
  BY <1>12, <1>13 DEF NavigationIcons
<1>14. ASSUME NEW p \in Settable, NEW a, SetRule(p, a) PROVE TablesTyped'
  BY <1>12, <1>14 DEF SetRule
<1>15. CASE UNCHANGED spaceVars
  BY <1>12, <1>15 DEF spaceVars
<1> QED
  BY <1>1, <1>2, <1>3, <1>4, <1>5, <1>6, <1>7, <1>8, <1>9, <1>10, <1>11, <1>13, <1>14, <1>15 DEF SpaceNext

-----------------------------------------------------------------------------
(* The cached icons are those of the table, except for what the requests in *)
(* hand are about to do: discard them, or repeat the change they have made  *)
(* to the table, which only one of them may be doing.                       *)

Iconic(t) == t.step \in {"cached", "invalidate"}

Repeated(t, icons) == savePageIcon(icons, t.found.path, t.found.icon)

IconsAgree ==
    ~overlap =>
        /\ (\A c \in Clients : ~Iconic(tx[c])) => cache \in {None, db.icons}
        /\ \A c \in Clients : tx[c].step = "cached" =>
              /\ Repeated(tx[c], db.icons) = db.icons
              /\ cache # None => Repeated(tx[c], cache) = db.icons
              /\ \A e \in Clients : e # c => ~Iconic(tx[e])

LEMMA SameIcons ==
    ASSUME IconsAgree, overlap' = overlap, cache' = cache, db'.icons = db.icons,
           \A c \in Clients : Iconic(tx[c])' <=> Iconic(tx[c]),
           \A c \in Clients : tx[c].step = "cached" <=> tx'[c].step = "cached",
           \A c \in Clients : tx[c].step = "cached" => tx'[c].found = tx[c].found
    PROVE  IconsAgree'
<1> SUFFICES ASSUME ~overlap'
             PROVE  /\ (\A c \in Clients : ~Iconic(tx[c])') => cache' \in {None, db'.icons}
                    /\ \A c \in Clients : tx'[c].step = "cached" =>
                          /\ Repeated(tx[c], db.icons)' = db'.icons
                          /\ cache' # None => Repeated(tx[c], cache)' = db'.icons
                          /\ \A e \in Clients : e # c => ~Iconic(tx[e])'
  BY DEF IconsAgree
<1>1. (\A c \in Clients : ~Iconic(tx[c])') => cache' \in {None, db'.icons}
  BY DEF IconsAgree
<1>2. ASSUME NEW c \in Clients, tx'[c].step = "cached"
      PROVE  /\ Repeated(tx[c], db.icons)' = db'.icons
             /\ cache' # None => Repeated(tx[c], cache)' = db'.icons
             /\ \A e \in Clients : e # c => ~Iconic(tx[e])'
  <2>1. Repeated(tx[c], db.icons)' = Repeated(tx[c], db.icons) /\ Repeated(tx[c], cache)' = Repeated(tx[c], cache)
    BY <1>2 DEF Repeated
  <2> QED
    BY <1>2, <2>1 DEF IconsAgree
<1> QED
  BY <1>1, <1>2

LEMMA StillIcons ==
    ASSUME IconsAgree, UNCHANGED <<db, tx, cache, overlap>>
    PROVE  IconsAgree'
  BY SameIcons DEF Iconic

\* A step of a transaction that has no icons to change.
LEMMA QuietStep ==
    ASSUME TablesTyped, IconsAgree, UNCHANGED <<db, cache, overlap>>, NEW c \in Clients, NEW t,
           tx' = [tx EXCEPT ![c] = t], ~Iconic(tx[c]), ~Iconic(t)
    PROVE  IconsAgree'
<1>1. tx'[c] = t /\ \A e \in Clients : e # c => tx'[e] = tx[e]
  BY DEF TablesTyped
<1>2. ~Iconic(tx[c])' /\ \A e \in Clients : e # c => (Iconic(tx[e])' <=> Iconic(tx[e]))
  BY <1>1 DEF Iconic
<1> QED
  BY <1>1, <1>2, SameIcons DEF Iconic

LEMMA BeginIcons ==
    ASSUME TablesTyped, IconsAgree, NEW c \in Clients, NEW tasks, Begin(c, tasks)
    PROVE  IconsAgree'
<1>1. PICK t : t = [Idle EXCEPT !.todo = tasks, !.step = "read"]
  OBVIOUS
<1>2. t.step = "read"
  BY <1>1 DEF Idle
<1> QED
  BY <1>1, <1>2, QuietStep DEF Begin, Iconic

LEMMA ImportIcons ==
    ASSUME TablesTyped, IconsAgree, NEW c \in Clients, NEW paths, Import(c, paths)
    PROVE  IconsAgree'
<1>1. PICK t : t = [Idle EXCEPT !.rest = SetToSeq(paths), !.step = "import"]
  OBVIOUS
<1>2. t.step = "import"
  BY <1>1 DEF Idle
<1> QED
  BY <1>1, <1>2, QuietStep DEF Import, Iconic

LEMMA ImportPageIcons ==
    ASSUME TablesTyped, IconsAgree, NEW c \in Clients, importPage(c)
    PROVE  IconsAgree'
<1>1. PICK task : task = SaveTask(None, Head(tx[c].rest),
                            GetPage(db, Head(tx[c].rest)) # {} /\ Head(tx[c].rest) \in db.icons, {})
  OBVIOUS
<1>2. PICK t : t = [Idle EXCEPT !.todo = <<task>>, !.rest = Tail(tx[c].rest), !.step = "read"]
  OBVIOUS
<1>3. t.step = "read"
  BY <1>2 DEF Idle
<1>4. tx' = [tx EXCEPT ![c] = t]
  BY <1>1, <1>2 DEF importPage
<1> QED
  BY <1>3, <1>4, QuietStep DEF importPage, Iconic

LEMMA RollbackIcons ==
    ASSUME TablesTyped, IconsAgree, NEW c \in Clients, Rollback(c)
    PROVE  IconsAgree'
<1>1. PICK t : t = Idle
  OBVIOUS
<1>2. t.step = "idle"
  BY <1>1 DEF Idle
<1> QED
  BY <1>1, <1>2, QuietStep DEF Rollback, Iconic

LEMMA FoundIcons ==
    ASSUME TablesTyped, IconsAgree, NEW c \in Clients, tx[c].step = "read", NEW writes, Found(c, writes)
    PROVE  IconsAgree'
<1>1. PICK t \in Transaction : t = tx[c]
  BY DEF TablesTyped
<1>2. PICK u : u = [t EXCEPT !.found = writes, !.step = "write"]
  OBVIOUS
<1>3. u.step = "write"
  BY <1>2 DEF Transaction
<1>4. tx' = [tx EXCEPT ![c] = u]
  BY <1>1, <1>2 DEF Found, TablesTyped
<1> QED
  BY <1>3, <1>4, QuietStep DEF Found, Iconic

LEMMA ReadMovedIcons ==
    ASSUME TablesTyped, IconsAgree, NEW c \in Clients, ReadMoved(c)
    PROVE  IconsAgree'
<1>1. tx[c].step = "read" /\ \E writes : Found(c, writes)
  BY DEF ReadMoved
<1> QED
  BY <1>1, FoundIcons

LEMMA SavePageRecordIcons ==
    ASSUME TablesTyped, IconsAgree, NEW c \in Clients, savePageRecord(c)
    PROVE  IconsAgree'
<1>1. tx[c].step = "read" /\ \E writes : Found(c, writes)
  BY DEF savePageRecord
<1> QED
  BY <1>1, FoundIcons

LEMMA WriteTaskIcons ==
    ASSUME TablesTyped, IconsAgree, NEW c \in Clients, WriteTask(c)
    PROVE  IconsAgree'
<1>1. PICK t \in Transaction : t = tx[c]
  BY DEF TablesTyped
<1>2. PICK writes, step : writes = SetToSeq(t.found) /\ step = IF Len(t.todo) = 1 THEN "commit" ELSE "read"
  OBVIOUS
<1>3. PICK u : u = [t EXCEPT !.writes = @ \o writes, !.todo = Tail(@), !.found = None, !.step = step]
  OBVIOUS
<1>4. u.step = step
  BY <1>3 DEF Transaction
<1>5. tx' = [tx EXCEPT ![c] = u]
  BY <1>1, <1>2, <1>3 DEF WriteTask, TablesTyped
<1> QED
  BY <1>2, <1>4, <1>5, QuietStep DEF WriteTask, Iconic

\* A change of the tables leaves to the others what they are about to do.
LEMMA OthersKeep ==
    ASSUME TablesTyped, NEW c, NEW step, NEW e \in Clients, e # c
    PROVE  /\ Changed(c, step)[e].step = tx[e].step
           /\ Changed(c, step)[e].found = tx[e].found
<1>1. PICK p : p = Changed(c, step)[e]
  OBVIOUS
<1>2. PICK b \in BOOLEAN :
         p = [todo |-> tx[e].todo, found |-> tx[e].found, writes |-> tx[e].writes,
              rest |-> tx[e].rest, alone |-> b, step |-> tx[e].step]
  BY <1>1, OthersChange
<1>3. p.step = tx[e].step /\ p.found = tx[e].found
  BY <1>2
<1> QED
  BY <1>1, <1>3

LEMMA OwnStep ==
    ASSUME NEW c \in Clients, NEW step
    PROVE  Changed(c, step)[c].step = step
<1>1. PICK p : p = Changed(c, step)[c]
  OBVIOUS
<1>2. p = [todo |-> <<>>, found |-> None, writes |-> <<>>, rest |-> tx[c].rest, alone |-> TRUE, step |-> step]
  BY <1>1, OwnChange
<1>3. p.step = step
  BY <1>2
<1> QED
  BY <1>1, <1>3

\* The cache is about to be discarded.
LEMMA ToDiscard ==
    ASSUME TablesTyped, NEW c \in Clients, tx' = Changed(c, "invalidate"),
           overlap' = (overlap \/ \E e \in Clients : tx[e].step = "cached")
    PROVE  IconsAgree'
<1>1. tx'[c].step = "invalidate"
  BY OwnStep
<1>2. \A e \in Clients : e # c => tx'[e].step = tx[e].step
  BY OthersKeep
<1>3. ~overlap' => \A e \in Clients : tx'[e].step # "cached"
  BY <1>1, <1>2
<1> QED
  BY <1>1, <1>3 DEF IconsAgree, Iconic

LEMMA CommitIcons ==
    ASSUME TablesTyped, NEW c \in Clients, Commit(c)
    PROVE  IconsAgree'
  BY ToDiscard DEF Commit

LEMMA PurgeIcons ==
    ASSUME TablesTyped, NEW c \in Clients, NEW i, PermanentlyDeletePage(c, i)
    PROVE  IconsAgree'
<1>1. /\ tx' = Changed(c, "invalidate")
      /\ overlap' = (overlap \/ \E e \in Clients : tx[e].step = "cached")
  BY DEF PermanentlyDeletePage
<1> QED
  BY <1>1, ToDiscard

LEMMA StatementIcons ==
    ASSUME TablesTyped, IconsAgree, NEW new, Statement(new), new.icons = db.icons
    PROVE  IconsAgree'
<1>1. tx' = Changed(None, "idle") /\ None \notin Clients
  BY FinitePaths DEF Statement
<1>2. \A e \in Clients : tx'[e].step = tx[e].step /\ tx'[e].found = tx[e].found
  BY <1>1, OthersKeep
<1> QED
  BY <1>2, SameIcons DEF Statement, Iconic

LEMMA BulkDeleteIcons ==
    ASSUME TablesTyped, IconsAgree, NEW ids, BulkDeletePages(ids)
    PROVE  IconsAgree'
<1>1. PICK d \in Tables : d = db
  BY DEF TablesTyped
<1>2. PICK new : new = [d EXCEPT !.bin = d.bin \cup ids]
  OBVIOUS
<1>3. new.icons = d.icons
  BY <1>2 DEF Tables
<1>4. Statement(new)
  BY <1>1, <1>2 DEF BulkDeletePages
<1> QED
  BY <1>1, <1>3, <1>4, StatementIcons

LEMMA RestoreIcons ==
    ASSUME TablesTyped, IconsAgree, NEW i, RestorePage(i)
    PROVE  IconsAgree'
<1>1. PICK d \in Tables : d = db
  BY DEF TablesTyped
<1>2. PICK new : new = [d EXCEPT !.bin = d.bin \ {i}]
  OBVIOUS
<1>3. new.icons = d.icons
  BY <1>2 DEF Tables
<1>4. Statement(new)
  BY <1>1, <1>2 DEF RestorePage
<1> QED
  BY <1>1, <1>3, <1>4, StatementIcons

LEMMA InvalidateIconsKeep ==
    ASSUME TablesTyped, IconsAgree, NEW c \in Clients, InvalidateIcons(c)
    PROVE  IconsAgree'
<1>1. cache' = None /\ overlap' = overlap /\ db' = db /\ tx[c].step = "invalidate"
  BY DEF InvalidateIcons
<1>2. PICK t : tx' = [tx EXCEPT ![c] = t] /\ t.step \in {"idle", "import"}
  <2>1. PICK u : u = Idle
    OBVIOUS
  <2>2. PICK v : v = [Idle EXCEPT !.rest = tx[c].rest, !.step = "import"]
    OBVIOUS
  <2>3. u.step = "idle" /\ v.step = "import"
    BY <2>1, <2>2 DEF Idle
  <2>4. tx' = [tx EXCEPT ![c] = IF tx[c].rest = <<>> THEN u ELSE v]
    BY <2>1, <2>2 DEF InvalidateIcons, Invalidated, TablesTyped
  <2> QED
    BY <2>3, <2>4
<1>3. tx'[c] = t /\ \A e \in Clients : e # c => tx'[e] = tx[e]
  BY <1>2 DEF TablesTyped
<1>4. ASSUME ~overlap', NEW e \in Clients, tx'[e].step = "cached"
      PROVE  /\ Repeated(tx[e], db.icons)' = db'.icons
             /\ \A f \in Clients : f # e => ~Iconic(tx[f])'
  <2>1. e # c /\ tx[e].step = "cached" /\ tx'[e] = tx[e]
    BY <1>2, <1>3, <1>4
  <2>2. Repeated(tx[e], db.icons) = db.icons /\ \A f \in Clients : f # e => ~Iconic(tx[f])
    BY <1>1, <1>4, <2>1 DEF IconsAgree
  <2>3. FALSE
    BY <1>1, <2>1, <2>2 DEF Iconic
  <2> QED
    BY <2>3
<1> QED
  BY <1>1, <1>4 DEF IconsAgree

LEMMA SetIconIcons ==
    ASSUME TablesTyped, IconsAgree, NEW c \in Clients, NEW path, NEW icon \in BOOLEAN,
           SetNavigationIcon(c, path, icon)
    PROVE  IconsAgree'
<1>1. /\ tx[c].step = "idle" /\ cache' = cache
      /\ overlap' = (overlap \/ \E e \in Clients : tx[e].step \in {"cached", "invalidate"})
  BY DEF SetNavigationIcon
<1>2. db'.icons = savePageIcon(db.icons, path, icon)
  <2>1. PICK d \in Tables : d = db
    BY DEF TablesTyped
  <2>2. db' = [d EXCEPT !.icons = savePageIcon(d.icons, path, icon)]
    BY <2>1 DEF SetNavigationIcon
  <2> QED
    BY <2>1, <2>2 DEF Tables
<1>3. /\ tx'[c].step = "cached" /\ tx'[c].found = [path |-> path, icon |-> icon]
      /\ \A e \in Clients : e # c => tx'[e].step = tx[e].step
  <2>1. PICK changed : changed = Changed(c, "cached")
    OBVIOUS
  <2>2. changed \in [Clients -> Transaction] /\ changed[c].step = "cached" /\ \A e \in Clients : e # c => changed[e].step = tx[e].step
    BY <2>1, ChangedTyped, OwnStep, OthersKeep
  <2>3. tx' = [changed EXCEPT ![c].found = [path |-> path, icon |-> icon]]
    BY <2>1 DEF SetNavigationIcon
  <2>4. PICK t : t = [changed[c] EXCEPT !.found = [path |-> path, icon |-> icon]]
    OBVIOUS
  <2>5. tx' = [changed EXCEPT ![c] = t]
    BY <2>2, <2>3, <2>4
  <2>6. t.step = "cached" /\ t.found = [path |-> path, icon |-> icon]
    <3>1. PICK u \in Transaction : u = changed[c]
      BY <2>2
    <3> QED
      BY <2>2, <2>4, <3>1 DEF Transaction
  <2>7. tx'[c] = t /\ \A e \in Clients : e # c => tx'[e] = changed[e]
    BY <2>2, <2>5
  <2> QED
    BY <2>2, <2>6, <2>7
<1>4. IconsAgree' <=> (~overlap' => IconsAgree')
  BY DEF IconsAgree
<1> SUFFICES ASSUME ~overlap' PROVE IconsAgree'
  BY <1>4
<1>5. \A e \in Clients : ~Iconic(tx[e])
  BY <1>1 DEF Iconic
<1>6. cache \in {None, db.icons}
  BY <1>1, <1>5 DEF IconsAgree
<1>7. Repeated(tx[c], db.icons)' = db'.icons /\ (cache' # None => Repeated(tx[c], cache)' = db'.icons)
  <2>1. Repeated(tx[c], db.icons)' = savePageIcon(db'.icons, path, icon)
    BY <1>3 DEF Repeated
  <2>2. Repeated(tx[c], cache)' = savePageIcon(cache, path, icon)
    BY <1>1, <1>3 DEF Repeated
  <2>3. savePageIcon(db'.icons, path, icon) = db'.icons
    BY <1>2 DEF savePageIcon
  <2> QED
    BY <1>1, <1>2, <1>6, <2>1, <2>2, <2>3
<1>8. \A e \in Clients : e # c => ~Iconic(tx[e])'
  BY <1>3, <1>5 DEF Iconic
<1>9. Iconic(tx[c])'
  BY <1>3 DEF Iconic
<1>10. \A e \in Clients : tx'[e].step = "cached" => e = c
  BY <1>8 DEF Iconic
<1> QED
  BY <1>7, <1>8, <1>9, <1>10 DEF IconsAgree

LEMMA CacheIconIcons ==
    ASSUME TablesTyped, IconsAgree, NEW c \in Clients, CacheIcon(c)
    PROVE  IconsAgree'
<1>1. /\ tx[c].step = "cached" /\ overlap' = overlap /\ db' = db
      /\ cache' = IF cache = None THEN None ELSE Repeated(tx[c], cache)
  BY DEF CacheIcon, Repeated
<1>2. tx'[c].step = "idle" /\ \A e \in Clients : e # c => tx'[e] = tx[e]
  BY DEF CacheIcon, TablesTyped, Idle
<1> SUFFICES ASSUME ~overlap' PROVE IconsAgree'
  BY DEF IconsAgree
<1>3. cache' \in {None, db.icons} /\ \A e \in Clients : e # c => ~Iconic(tx[e])
  BY <1>1 DEF IconsAgree
<1>4. \A e \in Clients : tx'[e].step # "cached"
  BY <1>2, <1>3 DEF Iconic
<1> QED
  BY <1>1, <1>3, <1>4 DEF IconsAgree

LEMMA NavigationIconsAgree ==
    ASSUME IconsAgree, NavigationIcons
    PROVE  IconsAgree'
<1>1. cache' = db.icons /\ UNCHANGED <<db, tx, overlap>>
  BY DEF NavigationIcons
<1> SUFFICES ASSUME ~overlap' PROVE IconsAgree'
  BY DEF IconsAgree
<1>2. ASSUME NEW c \in Clients, tx'[c].step = "cached"
      PROVE  /\ Repeated(tx[c], db.icons)' = db'.icons
             /\ Repeated(tx[c], cache)' = db'.icons
             /\ \A e \in Clients : e # c => ~Iconic(tx[e])'
  <2>1. Repeated(tx[c], db.icons) = db.icons /\ \A e \in Clients : e # c => ~Iconic(tx[e])
    BY <1>1, <1>2 DEF IconsAgree
  <2> QED
    BY <1>1, <2>1 DEF Repeated, Iconic
<1> QED
  BY <1>1, <1>2 DEF IconsAgree

LEMMA SpaceStarts ==
    ASSUME SpaceInit
    PROVE  TablesTyped /\ IconsAgree
<1>1. TablesTyped
  BY SpaceStartsTyped
<1>2. PICK t : t = Idle
  OBVIOUS
<1>3. t.step = "idle" /\ tx = [c \in Clients |-> t] /\ cache = None
  BY <1>2 DEF SpaceInit, Idle
<1> QED
  BY <1>1, <1>3 DEF IconsAgree

LEMMA RequestIcons ==
    ASSUME TablesTyped, IconsAgree, NEW c \in Clients, Request(c)
    PROVE  IconsAgree'
<1>1. ASSUME NEW tasks, Begin(c, tasks) PROVE IconsAgree'
  BY <1>1, BeginIcons
<1>2. ASSUME NEW to, NEW from, NEW icon, NEW links, Save(c, "user", from, to, icon, links) PROVE IconsAgree'
  BY <1>1, <1>2 DEF Save
<1>3. ASSUME NEW to, NEW from, NEW tree, MovePage(c, "user", from, to, tree) PROVE IconsAgree'
  BY <1>1, <1>3 DEF MovePage
<1>4. ASSUME NEW to, NEW selected, BulkMovePages(c, selected, to) PROVE IconsAgree'
  <2>1. \E tasks : Begin(c, tasks)
    BY <1>4 DEF BulkMovePages
  <2> QED
    BY <1>1, <2>1
<1>5. ASSUME NEW paths, Import(c, paths) PROVE IconsAgree'
  BY <1>5, ImportIcons
<1>6. ASSUME NEW paths, NEW icon, ImportPortablePages(c, paths, icon) PROVE IconsAgree'
  <2>1. \E tasks : Begin(c, tasks)
    BY <1>6 DEF ImportPortablePages
  <2> QED
    BY <1>1, <2>1
<1>7. ASSUME NEW p, NEW icon \in BOOLEAN, SetNavigationIcon(c, p, icon) PROVE IconsAgree'
  BY <1>7, SetIconIcons
<1>8. ASSUME NEW i, PermanentlyDeletePage(c, i) PROVE IconsAgree'
  BY <1>8, PurgeIcons
<1> QED
  BY <1>2, <1>3, <1>4, <1>5, <1>6, <1>7, <1>8 DEF Request

LEMMA SpaceStepIcons ==
    ASSUME TablesTyped, IconsAgree, [SpaceNext]_spaceVars
    PROVE  IconsAgree'
<1>1. ASSUME NEW c \in Clients, Request(c) PROVE IconsAgree'
  BY <1>1, RequestIcons
<1>2. ASSUME NEW c \in Clients, importPage(c) PROVE IconsAgree'
  BY <1>2, ImportPageIcons
<1>3. ASSUME NEW c \in Clients, ReadMoved(c) PROVE IconsAgree'
  BY <1>3, ReadMovedIcons
<1>4. ASSUME NEW c \in Clients, savePageRecord(c) PROVE IconsAgree'
  BY <1>4, SavePageRecordIcons
<1>5. ASSUME NEW c \in Clients, WriteTask(c) PROVE IconsAgree'
  BY <1>5, WriteTaskIcons
<1>6. ASSUME NEW c \in Clients, Commit(c) PROVE IconsAgree'
  BY <1>6, CommitIcons
<1>7. ASSUME NEW c \in Clients, Rollback(c) PROVE IconsAgree'
  BY <1>7, RollbackIcons
<1>8. ASSUME NEW c \in Clients, InvalidateIcons(c) PROVE IconsAgree'
  BY <1>8, InvalidateIconsKeep
<1>9. ASSUME NEW c \in Clients, CacheIcon(c) PROVE IconsAgree'
  BY <1>9, CacheIconIcons
<1>10. ASSUME NEW ids, BulkDeletePages(ids) PROVE IconsAgree'
  BY <1>10, BulkDeleteIcons
<1>11. ASSUME NEW i, RestorePage(i) PROVE IconsAgree'
  BY <1>11, RestoreIcons
<1>12. CASE NavigationIcons
  BY <1>12, NavigationIconsAgree
<1>13. ASSUME NEW p, NEW a, SetRule(p, a) PROVE IconsAgree'
  BY <1>13, StillIcons DEF SetRule
<1>14. CASE UNCHANGED spaceVars
  BY <1>14, StillIcons DEF spaceVars
<1> QED
  BY <1>1, <1>2, <1>3, <1>4, <1>5, <1>6, <1>7, <1>8, <1>9, <1>10, <1>11, <1>12, <1>13, <1>14 DEF SpaceNext

\* The tables and every transaction stay what they are, and the cached icons
\* are the stored ones up to what the requests in hand are about to do.
THEOREM SpaceInvariance == SpaceSpec => [](TablesTyped /\ IconsAgree)
<1>1. SpaceInit => TablesTyped /\ IconsAgree
  BY SpaceStarts
<1>2. TablesTyped /\ IconsAgree /\ [SpaceNext]_spaceVars => (TablesTyped /\ IconsAgree)'
  BY SpaceStepTyped, SpaceStepIcons
<1> QED
  BY <1>1, <1>2, PTL DEF SpaceSpec

\* As long as no two changes of icons overlapped, the cached icons are the
\* stored ones whenever no change is under way: saves, moves, imports and
\* purges, which rename and remove icons, discard the cache in a second step.
THEOREM CachedIconsAreRight == SpaceSpec => []CachedIconsAreStored
<1>1. TablesTyped /\ IconsAgree => CachedIconsAreStored
  BY DEF IconsAgree, Iconic, CachedIconsAreStored
<1> QED
  BY <1>1, SpaceInvariance, PTL

-----------------------------------------------------------------------------
(* Paths that lead to a page keep leading to it.                            *)

\* No two pages have one path, those in the recycle bin included.
OnePagePerPath(d) == \A i, j \in Ids : d.slug[i] = d.slug[j] => i = j \/ d.slug[i] = None

\* What a path leads to in d, it leads to in e.
LeadsOn(d, e) ==
    \A p \in Paths : ResolvePageLinks(d, p) # {} => ResolvePageLinks(e, p) = ResolvePageLinks(d, p)

\* A write that was validated against d: nobody else is or was at its new
\* path, and the page is at its old one, or nowhere yet.
Validated(d, w) ==
    /\ w.old = None => d.slug[w.id] = None /\ d.alias[w.new] = None
    /\ w.old # None => /\ d.slug[w.id] = w.old /\ w.id \in Live(d)
                       /\ w.old # w.new => d.alias[w.new] \in {w.id, None}

FreePath(d, w) == \A i \in Ids \ {w.id} : d.slug[i] # w.new

\* Writes of one task are to different pages and different paths.
Distinct(writes) == \A w, v \in writes : w.id = v.id \/ w.new = v.new => w = v

\* What a transaction sees has one page per path; as long as it is alone, the
\* paths of the committed tables lead on and what it found is still valid.
Leading(d, t) ==
    /\ OnePagePerPath(Replay(d, t.writes))
    /\ t.step = "write" => Distinct(t.found)
    /\ t.alone /\ t.step \in {"read", "write", "commit"} => LeadsOn(d, Replay(d, t.writes))
    /\ t.alone /\ t.step = "write" => \A w \in t.found : Validated(Replay(d, t.writes), w)

\* Two transactions have written to different pages and different paths.
Separate(t, u) ==
    \A k \in DOMAIN t.writes, l \in DOMAIN u.writes :
        t.writes[k].id # u.writes[l].id /\ t.writes[k].new # u.writes[l].new

PathsOwned ==
    /\ OnePagePerPath(db)
    /\ \A c \in Clients : Leading(db, tx[c])
    /\ \A c, e \in Clients : c # e => Separate(tx[c], tx[e])

\* What a write does to paths.
LEMMA PathsAfter ==
    ASSUME NEW d \in Tables, NEW w \in Moved \cup Written
    PROVE  /\ w.id \in Ids /\ w.new \in Paths /\ w.old \in Paths \cup {None}
           /\ Apply(d, w) \in Tables
           /\ Apply(d, w).slug = [d.slug EXCEPT ![w.id] = w.new]
           /\ Apply(d, w).bin = d.bin
           /\ \/ w.old = None /\ Apply(d, w).alias = d.alias
              \/ Apply(d, w).alias = Realias(d, w)
<1>1. w.id \in Ids /\ w.new \in Paths /\ w.old \in Paths \cup {None} /\ w.op \in {"move", "save"}
  BY DEF Moved, Written
<1>2. /\ DOMAIN d = {"slug", "bin", "alias", "links", "icons"}
      /\ d.slug \in [Ids -> Paths \cup {None}]
  BY DEF Tables
<1>3. CASE w.op = "move"
  <2>1. Apply(d, w) = [d EXCEPT !.slug[w.id] = w.new, !.alias = Realias(d, w),
              !.icons = MoveIcon(d, w), !.links = retargetMovedPageLinks(d, w)]
    BY <1>3 DEF Apply, applyPageMoves
  <2> QED
    BY <1>1, <1>2, <2>1, ApplyTyped
<1>4. CASE w.op = "save"
  <2>1. PICK alias, icons : /\ alias = IF w.old = None THEN d.alias ELSE Realias(d, w)
                            /\ icons = savePageIcon(IF w.old = None THEN d.icons ELSE MoveIcon(d, w), w.new, w.icon)
    OBVIOUS
  <2>2. Apply(d, w) = [d EXCEPT !.slug[w.id] = w.new, !.alias = alias, !.icons = icons, !.links[w.id] = w.links]
    BY <1>4, <2>1 DEF Apply, executePageSaveTransaction
  <2>3. Apply(d, w).slug = [d.slug EXCEPT ![w.id] = w.new] /\ Apply(d, w).bin = d.bin /\ Apply(d, w).alias = alias
    BY <1>2, <2>2
  <2> QED
    BY <1>1, <2>1, <2>3, ApplyTyped
<1> QED
  BY <1>1, <1>3, <1>4

LEMMA StaysUnique ==
    ASSUME NEW d \in Tables, NEW w \in Moved \cup Written, OnePagePerPath(d), FreePath(d, w)
    PROVE  OnePagePerPath(Apply(d, w))
<1>1. PICK e : e = Apply(d, w)
  OBVIOUS
<1>2. e.slug = [d.slug EXCEPT ![w.id] = w.new] /\ w.id \in Ids /\ d.slug \in [Ids -> Paths \cup {None}]
  BY <1>1, PathsAfter DEF Tables
<1>3. OnePagePerPath(e)
  BY <1>2 DEF OnePagePerPath, FreePath
<1> QED
  BY <1>1, <1>3

LEMMA AliasAfter ==
    ASSUME NEW d \in Tables, NEW w \in Moved \cup Written, Validated(d, w), NEW p \in Paths
    PROVE  Apply(d, w).alias[p] = IF p = w.old /\ w.old # w.new THEN w.id
                                  ELSE IF p = w.new /\ w.old # None /\ d.alias[p] = w.id THEN None ELSE d.alias[p]
<1>1. PICK e : e = Apply(d, w)
  OBVIOUS
<1>2. /\ w.id \in Ids /\ w.new \in Paths
      /\ (w.old = None /\ e.alias = d.alias) \/ e.alias = Realias(d, w)
  BY <1>1, PathsAfter
<1>3. p # None /\ w.id # None
  BY <1>2, FinitePaths
<1>4. CASE w.old = None
  <2>1. d.alias[w.new] = None
    BY <1>4 DEF Validated
  <2> QED
    BY <1>1, <1>2, <1>3, <1>4, <2>1 DEF Realias
<1>5. CASE w.old # None
  BY <1>1, <1>2, <1>5 DEF Realias
<1> QED
  BY <1>4, <1>5

LEMMA LiveAfter ==
    ASSUME NEW d \in Tables, NEW w \in Moved \cup Written
    PROVE  /\ Live(d) \subseteq Live(Apply(d, w)) /\ Live(Apply(d, w)) \subseteq Live(d) \cup {w.id}
<1>1. PICK e : e = Apply(d, w)
  OBVIOUS
<1>2. /\ e.slug = [d.slug EXCEPT ![w.id] = w.new] /\ e.bin = d.bin /\ w.new \in Paths
      /\ d.slug \in [Ids -> Paths \cup {None}]
  BY <1>1, PathsAfter DEF Tables
<1>3. Live(d) \subseteq Live(e) /\ Live(e) \subseteq Live(d) \cup {w.id}
  BY <1>2, FinitePaths DEF Live
<1> QED
  BY <1>1, <1>3

\* A valid write leaves every path that leads somewhere leading there.
LEMMA WriteLeadsOn ==
    ASSUME NEW d \in Tables, NEW w \in Moved \cup Written, OnePagePerPath(d), Validated(d, w), FreePath(d, w)
    PROVE  LeadsOn(d, Apply(d, w))
<1>1. PICK e : e = Apply(d, w)
  OBVIOUS
<1>2. /\ e.slug = [d.slug EXCEPT ![w.id] = w.new] /\ e.bin = d.bin /\ w.new \in Paths /\ w.id \in Ids
      /\ d.slug \in [Ids -> Paths \cup {None}] /\ w.old \in Paths \cup {None}
  BY <1>1, PathsAfter DEF Tables
<1>3. \A p \in Paths : e.alias[p] = IF p = w.old /\ w.old # w.new THEN w.id
                                  ELSE IF p = w.new /\ w.old # None /\ d.alias[p] = w.id THEN None ELSE d.alias[p]
  BY <1>1, AliasAfter
<1>4. Live(d) \subseteq Live(e) /\ Live(e) \subseteq Live(d) \cup {w.id} /\ Live(d) \subseteq Ids
  BY <1>1, LiveAfter DEF Live
<1>5. None \notin Paths /\ None \notin Ids
  BY FinitePaths
<1>6. \A i \in Ids : e.slug[i] = IF i = w.id THEN w.new ELSE d.slug[i]
  BY <1>2
<1> SUFFICES ASSUME NEW p \in Paths, ResolvePageLinks(d, p) # {}
             PROVE  ResolvePageLinks(e, p) = ResolvePageLinks(d, p)
  BY <1>1 DEF LeadsOn
<1>7. CASE w.old = None
  <2>1. d.slug[w.id] = None /\ d.alias[w.new] = None /\ w.id \notin Live(d)
    BY <1>7 DEF Validated, Live
  <2>2. GetPage(d, w.new) = {} /\ ResolvePageAlias(d, w.new) = {}
    BY <1>4, <1>5, <2>1 DEF GetPage, ResolvePageAlias, FreePath, Live
  <2>3. p # w.new
    BY <2>2 DEF ResolvePageLinks
  <2>4. GetPage(e, p) = GetPage(d, p)
    <3>1. ASSUME NEW i \in Live(e) PROVE e.slug[i] = p => i \in Live(d) /\ d.slug[i] = p
      BY <1>2, <1>4, <1>6, <2>3
    <3>2. ASSUME NEW i \in Live(d) PROVE i \in Live(e) /\ e.slug[i] = d.slug[i]
      BY <1>4, <1>6, <2>1
    <3> QED
      BY <3>1, <3>2 DEF GetPage
  <2>5. GetPage(d, p) = {} => ResolvePageAlias(e, p) = ResolvePageAlias(d, p)
    <3> SUFFICES ASSUME GetPage(d, p) = {} PROVE ResolvePageAlias(e, p) = ResolvePageAlias(d, p)
      OBVIOUS
    <3>1. e.alias[p] = d.alias[p]
      BY <1>3, <1>5, <1>7
    <3>2. PICK i \in Live(d) : d.alias[p] = i
      BY DEF ResolvePageLinks, ResolvePageAlias
    <3>3. ResolvePageAlias(d, p) = {i}
      BY <3>2 DEF ResolvePageAlias
    <3>4. ResolvePageAlias(e, p) = {i}
      BY <1>4, <3>1, <3>2 DEF ResolvePageAlias
    <3> QED
      BY <3>3, <3>4
  <2> QED
    BY <2>4, <2>5 DEF ResolvePageLinks
<1>8. CASE w.old # None
  <2>1. /\ d.slug[w.id] = w.old /\ w.id \in Live(d)
        /\ w.old # w.new => d.alias[w.new] \in {w.id, None}
    BY <1>8 DEF Validated
  <2>2. Live(e) = Live(d)
    BY <1>4, <2>1
  <2>3. CASE p # w.old /\ p # w.new
    <3>1. GetPage(e, p) = GetPage(d, p)
      BY <1>4, <1>6, <2>1, <2>2, <2>3 DEF GetPage
    <3>2. e.alias[p] = d.alias[p]
      BY <1>3, <2>3
    <3> QED
      BY <2>2, <3>1, <3>2 DEF ResolvePageLinks, ResolvePageAlias
  <2>4. GetPage(e, w.new) = {w.id}
    BY <1>4, <1>6, <2>1, <2>2 DEF GetPage, FreePath
  <2>5. GetPage(d, w.old) = {w.id}
    BY <1>4, <1>8, <2>1 DEF GetPage, OnePagePerPath
  <2>6. CASE p = w.new
    <3>1. CASE w.old = w.new
      BY <2>4, <2>5, <2>6, <3>1 DEF ResolvePageLinks
    <3>2. CASE w.old # w.new
      <4>1. GetPage(d, p) = {}
        BY <1>4, <2>1, <2>6, <3>2 DEF GetPage, FreePath
      <4>2. ResolvePageLinks(d, p) = {w.id}
        <5>1. PICK i \in Live(d) : d.alias[p] = i
          BY <4>1 DEF ResolvePageLinks, ResolvePageAlias
        <5>2. i = w.id
          BY <1>4, <1>5, <2>1, <2>6, <3>2, <5>1
        <5> QED
          BY <4>1, <5>1, <5>2 DEF ResolvePageLinks, ResolvePageAlias
      <4> QED
        BY <2>4, <2>6, <4>2 DEF ResolvePageLinks
    <3> QED
      BY <3>1, <3>2
  <2>7. CASE p = w.old /\ w.old # w.new
    <3>1. GetPage(e, p) = {}
      <4> SUFFICES ASSUME NEW i \in GetPage(e, p) PROVE FALSE
        OBVIOUS
      <4>1. i \in Live(d) /\ e.slug[i] = w.old
        BY <2>2, <2>7 DEF GetPage
      <4>2. i # w.id
        BY <1>4, <1>6, <2>7, <4>1
      <4>3. d.slug[i] = w.old /\ i \in Ids
        BY <1>4, <1>6, <4>1, <4>2
      <4> QED
        BY <2>5, <4>1, <4>2, <4>3 DEF GetPage
    <3>2. e.alias[p] = w.id
      BY <1>3, <2>7
    <3>3. ResolvePageAlias(e, p) = {w.id}
      BY <2>1, <2>2, <3>2 DEF ResolvePageAlias
    <3> QED
      BY <2>5, <2>7, <3>1, <3>3 DEF ResolvePageLinks
  <2> QED
    BY <2>3, <2>6, <2>7
<1> QED
  BY <1>7, <1>8

\* A valid write leaves the other writes of its task valid.
LEMMA OthersValid ==
    ASSUME NEW d \in Tables, NEW w \in Moved \cup Written, NEW v \in Moved \cup Written,
           Validated(d, w), FreePath(d, w), Validated(d, v), FreePath(d, v), v.id # w.id, v.new # w.new
    PROVE  Validated(Apply(d, w), v) /\ FreePath(Apply(d, w), v)
<1>1. PICK e : e = Apply(d, w)
  OBVIOUS
<1>2. /\ e.slug = [d.slug EXCEPT ![w.id] = w.new] /\ w.id \in Ids
      /\ d.slug \in [Ids -> Paths \cup {None}] /\ v.id \in Ids /\ v.new \in Paths
  BY <1>1, PathsAfter DEF Tables
<1>3. e.alias[v.new] = IF v.new = w.old /\ w.old # w.new THEN w.id ELSE d.alias[v.new]
  BY <1>1, <1>2, AliasAfter
<1>4. \A i \in Ids : e.slug[i] = IF i = w.id THEN w.new ELSE d.slug[i]
  BY <1>2
<1>5. v.new # w.old
  <2>1. w.old # None => d.slug[w.id] = w.old
    BY DEF Validated
  <2> QED
    BY <1>2, <2>1, FinitePaths DEF FreePath
<1>6. e.alias[v.new] = d.alias[v.new] /\ e.slug[v.id] = d.slug[v.id]
  BY <1>2, <1>3, <1>4, <1>5
<1>7. Live(d) \subseteq Live(e)
  BY <1>1, LiveAfter
<1>8. FreePath(e, v)
  BY <1>4 DEF FreePath
<1>9. Validated(e, v)
  BY <1>6, <1>7 DEF Validated
<1> QED
  BY <1>1, <1>8, <1>9

\* What holds at zero and is handed on holds up to n.
LEMMA UpTo ==
    ASSUME NEW n \in Nat, NEW S, 0 \in S, \A k \in 1..n : k - 1 \in S => k \in S
    PROVE  0..n \subseteq S
<1> DEFINE T == {k \in 0..n : k \notin S}
<1>1. T = {}
  <2> SUFFICES ASSUME T # {} PROVE FALSE
    OBVIOUS
  <2>1. PICK k \in T : \A y \in T : k <= y
    <3>1. T \subseteq Nat
      OBVIOUS
    <3> HIDE DEF T
    <3> QED
      BY <3>1, LeastNatural
  <2>2. k # 0 /\ k \in 1..n /\ k - 1 \in 0..n /\ ~(k <= k - 1)
    BY <2>1
  <2>3. k - 1 \in S
    BY <2>1, <2>2
  <2> QED
    BY <2>1, <2>2, <2>3
<1> QED
  BY <1>1

LEMMA ReplayedSteps ==
    ASSUME NEW d \in Tables, NEW ws \in Seq(Moved \cup Written)
    PROVE  /\ Len(ws) \in Nat /\ DOMAIN ws = 1..Len(ws) /\ \A k \in 1..Len(ws) : ws[k] \in Moved \cup Written
           /\ Replayed(d, ws)[0] = d
           /\ \A k \in 1..Len(ws) : Replayed(d, ws)[k] = Apply(Replayed(d, ws)[k - 1], ws[k])
           /\ \A k \in 0..Len(ws) : Replayed(d, ws)[k] \in Tables
<1>1. Len(ws) \in Nat /\ DOMAIN ws = 1..Len(ws) /\ \A k \in 1..Len(ws) : ws[k] \in Moved \cup Written
  OBVIOUS
<1>2. \A k \in 0..Len(ws) :
        Replayed(d, ws)[k] = IF k = 0 THEN d ELSE Apply(Replayed(d, ws)[k - 1], ws[k])
  BY <1>1, ReplaySteps
<1>3. Replayed(d, ws)[0] = d
  BY <1>1, <1>2
<1>4. \A k \in 1..Len(ws) : Replayed(d, ws)[k] = Apply(Replayed(d, ws)[k - 1], ws[k])
  BY <1>1, <1>2
<1>5. PICK S : S = {k \in 0..Len(ws) : Replayed(d, ws)[k] \in Tables}
  OBVIOUS
<1>6. 0 \in S /\ \A k \in 1..Len(ws) : k - 1 \in S => k \in S
  BY <1>1, <1>3, <1>4, <1>5, ApplyTyped
<1>7. 0..Len(ws) \subseteq S
  BY <1>1, <1>6, UpTo
<1> QED
  BY <1>1, <1>3, <1>4, <1>5, <1>7

LEMMA NoWrites ==
    ASSUME NEW d \in Tables
    PROVE  Replay(d, <<>>) = d
<1>1. PICK none \in Seq(Moved \cup Written) : none = <<>> /\ Len(none) = 0
  <2>1. <<>> \in Seq(Moved \cup Written)
    OBVIOUS
  <2>2. Len(<<>>) = 0
    OBVIOUS
  <2> QED
    BY <2>1, <2>2
<1>2. Replayed(d, none)[0] = d
  BY ReplayedSteps
<1> QED
  BY <1>1, <1>2, ReplayIsLast

\* More writes go on from what the first ones left.
LEMMA ReplayGoesOn ==
    ASSUME NEW d \in Tables, NEW ws \in Seq(Moved \cup Written), NEW more \in Seq(Moved \cup Written)
    PROVE  Replay(d, ws \o more) = Replay(Replay(d, ws), more)
<1>1. PICK all \in Seq(Moved \cup Written) : all = ws \o more
  BY ConcatProperties
<1>2. PICK n \in Nat, m \in Nat : n = Len(ws) /\ m = Len(more)
  OBVIOUS
<1>3. /\ Len(all) = n + m
      /\ \A k \in 1..n : all[k] = ws[k]
      /\ \A k \in 1..m : all[n + k] = more[k]
  BY <1>1, <1>2
<1>4. PICK e \in Tables : e = Replay(d, ws)
  BY ReplayTyped
<1>5. PICK A, W, M : A = Replayed(d, all) /\ W = Replayed(d, ws) /\ M = Replayed(e, more)
  OBVIOUS
<1>6. /\ A[0] = d /\ \A k \in 1..(n + m) : A[k] = Apply(A[k - 1], all[k])
      /\ W[0] = d /\ \A k \in 1..n : W[k] = Apply(W[k - 1], ws[k])
      /\ M[0] = e /\ \A k \in 1..m : M[k] = Apply(M[k - 1], more[k])
  <2>1. A[0] = d /\ \A k \in 1..Len(all) : A[k] = Apply(A[k - 1], all[k])
    BY <1>5, ReplayedSteps
  <2>2. W[0] = d /\ \A k \in 1..Len(ws) : W[k] = Apply(W[k - 1], ws[k])
    BY <1>5, ReplayedSteps
  <2>3. M[0] = e /\ \A k \in 1..Len(more) : M[k] = Apply(M[k - 1], more[k])
    BY <1>5, ReplayedSteps
  <2> QED
    BY <1>2, <1>3, <2>1, <2>2, <2>3
<1>7. Replay(d, all) = A[n + m] /\ e = W[n] /\ Replay(e, more) = M[m]
  BY <1>2, <1>3, <1>4, <1>5, ReplayIsLast
<1>8. PICK S : S = {k \in 0..n : A[k] = W[k]}
  OBVIOUS
<1>9. 0 \in S /\ \A k \in 1..n : k - 1 \in S => k \in S
  <2>1. \A k \in 1..n : k \in 1..(n + m)
    OBVIOUS
  <2> QED
    BY <1>3, <1>6, <1>8, <2>1
<1>10. 0..n \subseteq S
  BY <1>9, UpTo
<1>11. A[n + 0] = M[0]
  BY <1>6, <1>7, <1>8, <1>10
<1>12. PICK T : T = {k \in 0..m : A[n + k] = M[k]}
  OBVIOUS
<1>13. ASSUME NEW k \in 1..m, k - 1 \in T PROVE k \in T
  <2>1. n + k \in 1..(n + m) /\ (n + k) - 1 = n + (k - 1)
    OBVIOUS
  <2>2. A[n + k] = Apply(A[n + (k - 1)], more[k])
    BY <1>3, <1>6, <2>1
  <2>3. A[n + (k - 1)] = M[k - 1]
    BY <1>12, <1>13
  <2>4. M[k] = Apply(M[k - 1], more[k])
    BY <1>6
  <2> QED
    BY <1>12, <2>2, <2>3, <2>4
<1>14. 0 \in T
  BY <1>11, <1>12
<1>15. 0..m \subseteq T
  BY <1>13, <1>14, UpTo
<1>16. A[n + m] = M[m]
  BY <1>12, <1>15
<1> QED
  BY <1>1, <1>4, <1>7, <1>16

\* The pages that are written get the paths of the writes, whatever the
\* tables; the others keep theirs.
LEMMA SlugsReplayed ==
    ASSUME NEW d \in Tables, NEW e \in Tables, NEW ws \in Seq(Moved \cup Written), NEW i \in Ids
    PROVE  IF \E k \in DOMAIN ws : ws[k].id = i
           THEN /\ Replay(d, ws).slug[i] = Replay(e, ws).slug[i]
                /\ \E k \in DOMAIN ws : ws[k].id = i /\ Replay(d, ws).slug[i] = ws[k].new
           ELSE Replay(d, ws).slug[i] = d.slug[i]
<1>0. PICK n \in Nat : n = Len(ws)
  OBVIOUS
<1>1. PICK D, E : D = Replayed(d, ws) /\ E = Replayed(e, ws)
  OBVIOUS
<1>2. /\ DOMAIN ws = 1..n /\ (\A k \in 1..n : ws[k] \in Moved \cup Written)
      /\ D[0] = d /\ (\A k \in 1..n : D[k] = Apply(D[k - 1], ws[k])) /\ (\A k \in 0..n : D[k] \in Tables)
      /\ E[0] = e /\ (\A k \in 1..n : E[k] = Apply(E[k - 1], ws[k])) /\ (\A k \in 0..n : E[k] \in Tables)
  BY <1>0, <1>1, ReplayedSteps
<1>3. Replay(d, ws) = D[n] /\ Replay(e, ws) = E[n]
  BY <1>0, <1>1, ReplayIsLast
<1>4. ASSUME NEW k \in 1..n
      PROVE  /\ D[k].slug[i] = IF ws[k].id = i THEN ws[k].new ELSE D[k - 1].slug[i]
             /\ E[k].slug[i] = IF ws[k].id = i THEN ws[k].new ELSE E[k - 1].slug[i]
  <2>1. k - 1 \in 0..n /\ ws[k] \in Moved \cup Written
    BY <1>0, <1>2
  <2>2. \A x \in Tables : Apply(x, ws[k]).slug[i] = IF ws[k].id = i THEN ws[k].new ELSE x.slug[i]
    <3> SUFFICES ASSUME NEW x \in Tables
                 PROVE  Apply(x, ws[k]).slug[i] = IF ws[k].id = i THEN ws[k].new ELSE x.slug[i]
      OBVIOUS
    <3>1. Apply(x, ws[k]).slug = [x.slug EXCEPT ![ws[k].id] = ws[k].new]
      BY <2>1, PathsAfter
    <3>2. x.slug \in [Ids -> Paths \cup {None}]
      BY DEF Tables
    <3> QED
      BY <3>1, <3>2
  <2> QED
    BY <1>0, <1>2, <2>1, <2>2
<1> DEFINE Done(k) == IF \E j \in 1..k : ws[j].id = i
                      THEN /\ D[k].slug[i] = E[k].slug[i]
                           /\ \E j \in 1..k : ws[j].id = i /\ D[k].slug[i] = ws[j].new
                      ELSE D[k].slug[i] = d.slug[i]
<1>5. PICK S : S = {k \in 0..n : Done(k)}
  OBVIOUS
<1>6. Done(0)
  BY <1>0, <1>2
<1>7. ASSUME NEW k \in 1..n, Done(k - 1) PROVE Done(k)
  <2>1. (\A j \in 1..k : j = k \/ j \in 1..(k - 1)) /\ k \in 1..k /\ \A j \in 1..(k - 1) : j \in 1..k
    OBVIOUS
  <2>2. CASE ws[k].id = i
    BY <1>4, <2>1, <2>2
  <2>3. CASE ws[k].id # i
    <3>1. D[k].slug[i] = D[k - 1].slug[i] /\ E[k].slug[i] = E[k - 1].slug[i]
      BY <1>4, <2>3
    <3>2. (\E j \in 1..k : ws[j].id = i) <=> \E j \in 1..(k - 1) : ws[j].id = i
      BY <2>1, <2>3
    <3> QED
      BY <1>7, <2>1, <3>1, <3>2
  <2> QED
    BY <2>2, <2>3
<1>8. 0 \in S /\ \A k \in 1..n : k - 1 \in S => k \in S
  <2> HIDE DEF Done
  <2> QED
    BY <1>5, <1>6, <1>7
<1>9. 0..n \subseteq S
  BY <1>8, UpTo
<1>10. Done(n)
  <2> HIDE DEF Done
  <2> QED
    BY <1>5, <1>9
<1> QED
  BY <1>0, <1>2, <1>3, <1>10

LEMMA LeadsOnAndOn ==
    ASSUME NEW d, NEW e, NEW f, LeadsOn(d, e), LeadsOn(e, f)
    PROVE  LeadsOn(d, f)
  BY DEF LeadsOn

LEMMA EachOnce ==
    ASSUME NEW found \in SUBSET (Moved \cup Written), IsFiniteSet(found)
    PROVE  /\ SetToSeq(found) \in Seq(Moved \cup Written)
           /\ \A k \in DOMAIN SetToSeq(found) : SetToSeq(found)[k] \in found
           /\ \A k, l \in DOMAIN SetToSeq(found) : SetToSeq(found)[k] = SetToSeq(found)[l] => k = l
<1>1. PICK s : s = SetToSeq(found)
  OBVIOUS
<1>2. s = CHOOSE f \in [1..Cardinality(found) -> found] : \A a, b \in DOMAIN f : f[a] = f[b] => a = b
  BY <1>1 DEF SetToSeq, IsInjective
<1>3. \E f \in [1..Cardinality(found) -> found] : \A a, b \in DOMAIN f : f[a] = f[b] => a = b
  BY FS_CardinalityType DEF ExistsBijection, Bijection, Injection, IsInjective
<1>4. s \in [1..Cardinality(found) -> found] /\ \A a, b \in DOMAIN s : s[a] = s[b] => a = b
  BY <1>2, <1>3
<1>5. s \in Seq(found)
  BY <1>1, SequenceOfSet
<1>6. s \in Seq(Moved \cup Written)
  BY <1>5
<1> QED
  BY <1>1, <1>4, <1>6

\* The writes of a task that was validated leave the paths leading on.
LEMMA TaskLeadsOn ==
    ASSUME NEW d \in Tables, NEW found \in SUBSET (Moved \cup Written), IsFiniteSet(found),
           OnePagePerPath(d), Distinct(found), \A w \in found : FreePath(d, w) /\ Validated(d, w)
    PROVE  LeadsOn(d, Replay(d, SetToSeq(found)))
<1>1. PICK s \in Seq(Moved \cup Written), n \in Nat :
         /\ s = SetToSeq(found) /\ n = Len(s)
         /\ \A k \in DOMAIN s : s[k] \in found
         /\ \A k, l \in DOMAIN s : s[k] = s[l] => k = l
  BY EachOnce
<1>2. PICK D : D = Replayed(d, s)
  OBVIOUS
<1>3. /\ DOMAIN s = 1..n /\ (\A k \in 1..n : s[k] \in Moved \cup Written)
      /\ D[0] = d /\ (\A k \in 1..n : D[k] = Apply(D[k - 1], s[k])) /\ (\A k \in 0..n : D[k] \in Tables)
  BY <1>1, <1>2, ReplayedSteps
<1>4. Replay(d, s) = D[n]
  BY <1>1, <1>2, ReplayIsLast
<1>5. \A k, l \in 1..n : k # l => s[k].id # s[l].id /\ s[k].new # s[l].new
  BY <1>1, <1>3 DEF Distinct
<1> DEFINE Fine(k) == /\ LeadsOn(d, D[k]) /\ OnePagePerPath(D[k])
                      /\ \A j \in (k + 1)..n : Validated(D[k], s[j]) /\ FreePath(D[k], s[j])
<1>6. PICK S : S = {k \in 0..n : Fine(k)}
  OBVIOUS
<1>7. Fine(0)
  <2>1. LeadsOn(d, D[0]) /\ OnePagePerPath(D[0])
    BY <1>3 DEF LeadsOn
  <2>2. \A j \in 1..n : Validated(D[0], s[j]) /\ FreePath(D[0], s[j])
    BY <1>1, <1>3
  <2> QED
    BY <2>1, <2>2
<1>8. ASSUME NEW k \in 1..n, Fine(k - 1) PROVE Fine(k)
  <2>1. PICK x \in Tables : x = D[k - 1]
    BY <1>3
  <2>2. PICK w \in Moved \cup Written : w = s[k]
    BY <1>3
  <2>3. Apply(x, w) = D[k]
    BY <1>3, <2>1, <2>2
  <2>4. (k - 1) + 1 = k /\ k \in k..n /\ \A j \in (k + 1)..n : j \in k..n /\ j # k /\ j \in 1..n
    OBVIOUS
  <2>5. LeadsOn(d, x) /\ OnePagePerPath(x) /\ \A j \in k..n : Validated(x, s[j]) /\ FreePath(x, s[j])
    BY <1>8, <2>1, <2>4
  <2>6. Validated(x, w) /\ FreePath(x, w)
    BY <2>2, <2>4, <2>5
  <2>7. LeadsOn(x, Apply(x, w)) /\ OnePagePerPath(Apply(x, w))
    BY <2>5, <2>6, WriteLeadsOn, StaysUnique
  <2>8. LeadsOn(d, Apply(x, w))
    BY <2>5, <2>7, LeadsOnAndOn
  <2>9. ASSUME NEW j \in (k + 1)..n PROVE Validated(Apply(x, w), s[j]) /\ FreePath(Apply(x, w), s[j])
    <3>1. PICK v \in Moved \cup Written : v = s[j]
      BY <1>3, <2>4
    <3>2. v.id # w.id /\ v.new # w.new
      BY <1>5, <2>2, <2>4, <3>1
    <3>3. Validated(x, v) /\ FreePath(x, v)
      BY <2>4, <2>5, <3>1
    <3> QED
      BY <2>6, <3>1, <3>2, <3>3, OthersValid
  <2> QED
    BY <2>3, <2>7, <2>8, <2>9
<1>9. 0 \in S /\ \A k \in 1..n : k - 1 \in S => k \in S
  <2> HIDE DEF Fine
  <2> QED
    BY <1>6, <1>7, <1>8
<1>10. 0..n \subseteq S
  BY <1>9, UpTo
<1>11. Fine(n)
  <2> HIDE DEF Fine
  <2> QED
    BY <1>6, <1>10
<1> QED
  BY <1>1, <1>4, <1>11

LEMMA TaskStaysUnique ==
    ASSUME NEW d \in Tables, NEW found \in SUBSET (Moved \cup Written), IsFiniteSet(found),
           OnePagePerPath(d), Distinct(found), \A w \in found : FreePath(d, w)
    PROVE  OnePagePerPath(Replay(d, SetToSeq(found)))
<1>1. PICK s \in Seq(Moved \cup Written) :
         /\ s = SetToSeq(found)
         /\ \A k \in DOMAIN s : s[k] \in found
  BY EachOnce
<1>2. PICK e : e = Replay(d, s)
  OBVIOUS
<1>3. ASSUME NEW i \in Ids
      PROVE  \/ \E w \in found : w.id = i /\ e.slug[i] = w.new
             \/ e.slug[i] = d.slug[i]
  BY <1>1, <1>2, SlugsReplayed
<1>4. ASSUME NEW i \in Ids, NEW j \in Ids, e.slug[i] = e.slug[j], i # j, NEW w \in found, w.id = i, e.slug[i] = w.new
      PROVE  FALSE
  <2>1. PICK v \in found : v.id = j /\ e.slug[j] = v.new
    BY <1>3, <1>4 DEF FreePath
  <2> QED
    BY <1>4, <2>1 DEF Distinct
<1>5. ASSUME NEW i \in Ids, NEW j \in Ids, e.slug[i] = e.slug[j] PROVE i = j \/ e.slug[i] = None
  <2>1. CASE e.slug[i] = d.slug[i] /\ e.slug[j] = d.slug[j]
    BY <1>5, <2>1 DEF OnePagePerPath
  <2>2. CASE \E w \in found : w.id = i /\ e.slug[i] = w.new
    BY <1>4, <1>5, <2>2
  <2>3. CASE \E w \in found : w.id = j /\ e.slug[j] = w.new
    BY <1>4, <1>5, <2>3
  <2> QED
    BY <1>3, <2>1, <2>2, <2>3
<1> QED
  BY <1>1, <1>2, <1>5 DEF OnePagePerPath

\* Other tables under the writes of a transaction.
LEMMA OthersUnique ==
    ASSUME NEW d \in Tables, NEW e \in Tables, NEW us \in Seq(Moved \cup Written),
           OnePagePerPath(e), OnePagePerPath(Replay(d, us)),
           \A i \in Ids, k \in DOMAIN us : e.slug[i] = us[k].new /\ us[k].id # i => e.slug[i] = d.slug[i]
    PROVE  OnePagePerPath(Replay(e, us))
<1>1. PICK x, y : x = Replay(d, us) /\ y = Replay(e, us)
  OBVIOUS
<1> DEFINE In(i) == \E k \in DOMAIN us : us[k].id = i
<1>2. ASSUME NEW i \in Ids, In(i)
      PROVE  y.slug[i] = x.slug[i] /\ \E k \in DOMAIN us : us[k].id = i /\ x.slug[i] = us[k].new
  BY <1>1, <1>2, SlugsReplayed
<1>3. ASSUME NEW i \in Ids, ~In(i) PROVE y.slug[i] = e.slug[i] /\ x.slug[i] = d.slug[i]
  BY <1>1, <1>3, SlugsReplayed
<1>4. ASSUME NEW i \in Ids, NEW j \in Ids, In(i), ~In(j), y.slug[i] = y.slug[j] PROVE i = j \/ y.slug[i] = None
  <2>1. PICK k \in DOMAIN us : us[k].id = i /\ x.slug[i] = us[k].new
    BY <1>2, <1>4
  <2>2. e.slug[j] = us[k].new /\ us[k].id # j
    BY <1>2, <1>3, <1>4, <2>1
  <2>3. x.slug[j] = x.slug[i]
    BY <1>3, <1>4, <2>1, <2>2
  <2> QED
    BY <1>1, <1>2, <1>4, <2>3 DEF OnePagePerPath
<1>5. ASSUME NEW i \in Ids, NEW j \in Ids, y.slug[i] = y.slug[j] PROVE i = j \/ y.slug[i] = None
  <2>1. CASE In(i) /\ In(j)
    BY <1>1, <1>2, <1>5, <2>1 DEF OnePagePerPath
  <2>2. CASE ~In(i) /\ ~In(j)
    BY <1>3, <1>5, <2>2 DEF OnePagePerPath
  <2>3. CASE In(i) /\ ~In(j)
    BY <1>4, <1>5, <2>3
  <2>4. CASE ~In(i) /\ In(j)
    BY <1>4, <1>5, <2>4
  <2> QED
    BY <2>1, <2>2, <2>3, <2>4
<1> QED
  BY <1>1, <1>5 DEF OnePagePerPath

\* Once another transaction has committed.
LEMMA CommitsUnique ==
    ASSUME NEW d \in Tables, NEW ws \in Seq(Moved \cup Written), NEW us \in Seq(Moved \cup Written),
           OnePagePerPath(Replay(d, ws)), OnePagePerPath(Replay(d, us)),
           \A k \in DOMAIN ws, l \in DOMAIN us : ws[k].id # us[l].id /\ ws[k].new # us[l].new
    PROVE  OnePagePerPath(Replay(Replay(d, ws), us))
<1>1. PICK e \in Tables : e = Replay(d, ws)
  BY ReplayTyped
<1>2. ASSUME NEW i \in Ids, NEW k \in DOMAIN us, e.slug[i] = us[k].new PROVE e.slug[i] = d.slug[i]
  BY <1>1, <1>2, SlugsReplayed
<1> QED
  BY <1>1, <1>2, OthersUnique

LEMMA RebaseInjective ==
    ASSUME NEW p \in Paths, NEW q \in Paths, NEW from \in Paths, NEW to \in Paths,
           p = from \/ Under(p, from), q = from \/ Under(q, from),
           Rebase(p, from, to) = Rebase(q, from, to)
    PROVE  p = q
<1>1. p \in Seq(STRING) /\ q \in Seq(STRING) /\ from \in Seq(STRING) /\ to \in Seq(STRING)
  BY NamespaceAssumption
<1>2. ASSUME NEW r \in Seq(STRING), r = from \/ IsStrictPrefix(from, r)
      PROVE  /\ Len(r) \in Nat /\ Len(from) \in Nat /\ Len(from) <= Len(r)
             /\ \A k \in 1..Len(from) : r[k] = from[k]
  <2>1. CASE r = from
    BY <1>1, <2>1
  <2>2. CASE IsStrictPrefix(from, r)
    <3>1. Len(from) <= Len(r) /\ SubSeq(from, 1, Len(from)) = SubSeq(r, 1, Len(from))
      BY <2>2 DEF IsStrictPrefix, IsPrefix
    <3>2. \A k \in 1..Len(from) : SubSeq(from, 1, Len(from))[k] = from[k] /\ SubSeq(r, 1, Len(from))[k] = r[k]
      BY <1>1, <3>1
    <3> QED
      BY <1>1, <3>1, <3>2
  <2> QED
    BY <1>2, <2>1, <2>2
<1>3. ASSUME NEW r \in Paths, r = from \/ Under(r, from)
      PROVE  r = from \/ IsStrictPrefix(from, r)
  BY <1>3 DEF Under, Above
<1>4. PICK n \in Nat, t \in Nat, a \in Nat, b \in Nat :
         n = Len(from) /\ t = Len(to) /\ a = Len(p) /\ b = Len(q) /\ n <= a /\ n <= b
  BY <1>1, <1>2, <1>3
<1>5. \A k \in 1..n : p[k] = from[k] /\ q[k] = from[k]
  BY <1>1, <1>2, <1>3, <1>4
<1>6. ASSUME NEW r \in Seq(STRING), n <= Len(r)
      PROVE  /\ Len(Rebase(r, from, to)) = t + (Len(r) - n)
             /\ \A k \in (n + 1)..Len(r) : Rebase(r, from, to)[t + (k - n)] = r[k]
  <2>1. PICK rest \in Seq(STRING) : rest = SubSeq(r, n + 1, Len(r))
    <3>1. PICK low \in Int, high \in Int : low = n + 1 /\ high = Len(r)
      BY <1>4, <1>6
    <3>2. \A k \in low..high : r[k] \in STRING
      BY <1>4, <1>6, <3>1
    <3>3. SubSeq(r, low, high) \in Seq(STRING)
      BY <3>2, SubSeqProperties
    <3> QED
      BY <3>1, <3>3
  <2>2. Len(rest) = Len(r) - n /\ \A k \in 1..(Len(r) - n) : rest[k] = r[n + k]
    BY <1>6, <2>1
  <2>3. Rebase(r, from, to) = to \o rest
    BY <1>4, <2>1 DEF Rebase
  <2>4. Len(to \o rest) = t + Len(rest) /\ \A k \in 1..Len(rest) : (to \o rest)[t + k] = rest[k]
    BY <1>1, <1>4
  <2>5. \A k \in (n + 1)..Len(r) : k - n \in 1..(Len(r) - n) /\ n + (k - n) = k
    BY <1>6
  <2> QED
    BY <2>2, <2>3, <2>4, <2>5
<1>7. a = b /\ \A k \in (n + 1)..a : p[k] = q[k]
  <2>1. t + (a - n) = t + (b - n)
    BY <1>1, <1>4, <1>6
  <2>2. a = b
    BY <2>1
  <2>3. PICK s : s = Rebase(p, from, to) /\ s = Rebase(q, from, to)
    OBVIOUS
  <2>4. \A k \in (n + 1)..a : s[t + (k - n)] = p[k]
    BY <1>1, <1>4, <1>6, <2>3
  <2>5. \A k \in (n + 1)..b : s[t + (k - n)] = q[k]
    BY <1>1, <1>4, <1>6, <2>3
  <2> QED
    BY <2>2, <2>4, <2>5
<1>8. \A k \in 1..a : p[k] = q[k]
  <2>1. \A k \in 1..a : k \in 1..n \/ k \in (n + 1)..a
    OBVIOUS
  <2> QED
    BY <1>5, <1>7, <2>1
<1> QED
  BY <1>1, <1>4, <1>7, <1>8, SeqEqual

\* A transaction that has written nothing.
LEMMA NothingWritten ==
    ASSUME NEW d \in Tables, OnePagePerPath(d), NEW t, t.writes = <<>>, t.step # "write"
    PROVE  Leading(d, t) /\ \A u : Separate(t, u) /\ Separate(u, t)
<1>1. Replay(d, t.writes) = d
  BY NoWrites
<1>2. LeadsOn(d, d)
  BY DEF LeadsOn
<1>3. DOMAIN t.writes = {}
  OBVIOUS
<1> QED
  BY <1>1, <1>2, <1>3 DEF Leading, Separate

LEMMA OwnerMoves ==
    ASSUME TablesTyped, PathsOwned, db' = db, NEW c \in Clients, NEW t, tx' = [tx EXCEPT ![c] = t],
           Leading(db, t), \A e \in Clients : e # c => Separate(t, tx[e]) /\ Separate(tx[e], t)
    PROVE  PathsOwned'
<1>1. tx'[c] = t /\ \A e \in Clients : e # c => tx'[e] = tx[e]
  BY DEF TablesTyped
<1>2. OnePagePerPath(db)
  BY DEF PathsOwned
<1>3. ASSUME NEW e \in Clients PROVE Leading(db', tx'[e])
  BY <1>1 DEF PathsOwned
<1>4. ASSUME NEW e \in Clients, NEW f \in Clients, e # f PROVE Separate(tx'[e], tx'[f])
  BY <1>1, <1>4 DEF PathsOwned
<1> QED
  BY <1>2, <1>3, <1>4 DEF PathsOwned

LEMMA OwnerRests ==
    ASSUME TablesTyped, PathsOwned, db' = db, NEW c \in Clients, NEW t, tx' = [tx EXCEPT ![c] = t],
           t.writes = <<>>, t.step # "write"
    PROVE  PathsOwned'
<1>1. db \in Tables /\ OnePagePerPath(db)
  BY DEF TablesTyped, PathsOwned
<1> QED
  BY <1>1, NothingWritten, OwnerMoves

LEMMA BeginPaths ==
    ASSUME TablesTyped, PathsOwned, NEW c \in Clients, NEW tasks, Begin(c, tasks)
    PROVE  PathsOwned'
<1>1. PICK t : t = [Idle EXCEPT !.todo = tasks, !.step = "read"]
  OBVIOUS
<1>2. t.step = "read" /\ t.writes = <<>>
  BY <1>1 DEF Idle
<1> QED
  BY <1>1, <1>2, OwnerRests DEF Begin

LEMMA ImportPaths ==
    ASSUME TablesTyped, PathsOwned, NEW c \in Clients, NEW paths, Import(c, paths)
    PROVE  PathsOwned'
<1>1. PICK t : t = [Idle EXCEPT !.rest = SetToSeq(paths), !.step = "import"]
  OBVIOUS
<1>2. t.step = "import" /\ t.writes = <<>>
  BY <1>1 DEF Idle
<1> QED
  BY <1>1, <1>2, OwnerRests DEF Import

LEMMA ImportPagePaths ==
    ASSUME TablesTyped, PathsOwned, NEW c \in Clients, importPage(c)
    PROVE  PathsOwned'
<1>1. PICK task : task = SaveTask(None, Head(tx[c].rest),
                            GetPage(db, Head(tx[c].rest)) # {} /\ Head(tx[c].rest) \in db.icons, {})
  OBVIOUS
<1>2. PICK t : t = [Idle EXCEPT !.todo = <<task>>, !.rest = Tail(tx[c].rest), !.step = "read"]
  OBVIOUS
<1>3. t.step = "read" /\ t.writes = <<>>
  BY <1>2 DEF Idle
<1>4. tx' = [tx EXCEPT ![c] = t]
  BY <1>1, <1>2 DEF importPage
<1> QED
  BY <1>3, <1>4, OwnerRests DEF importPage

LEMMA RestingPaths ==
    ASSUME TablesTyped, PathsOwned, NEW c \in Clients, Rollback(c) \/ CacheIcon(c) \/ InvalidateIcons(c)
    PROVE  PathsOwned'
<1>1. PICK t, u : t = Idle /\ u = [Idle EXCEPT !.rest = tx[c].rest, !.step = "import"]
  OBVIOUS
<1>2. t.step = "idle" /\ t.writes = <<>> /\ u.step = "import" /\ u.writes = <<>>
  BY <1>1 DEF Idle
<1>3. db' = db /\ (tx' = [tx EXCEPT ![c] = t] \/ tx' = [tx EXCEPT ![c] = u])
  BY <1>1 DEF Rollback, CacheIcon, InvalidateIcons, Invalidated, TablesTyped
<1> QED
  BY <1>2, <1>3, OwnerRests

LEMMA FoundPaths ==
    ASSUME TablesTyped, PathsOwned, NEW c \in Clients, tx[c].step = "read", NEW writes, Found(c, writes),
           Distinct(writes), \A w \in writes : Validated(View(c), w)
    PROVE  PathsOwned'
<1>1. PICK t \in Transaction : t = tx[c]
  BY DEF TablesTyped
<1>2. PICK u : u = [t EXCEPT !.found = writes, !.step = "write"]
  OBVIOUS
<1>3. u.step = "write" /\ u.found = writes /\ u.writes = t.writes /\ u.alone = t.alone
  BY <1>2 DEF Transaction
<1>4. tx' = [tx EXCEPT ![c] = u] /\ db' = db
  BY <1>1, <1>2 DEF Found, TablesTyped
<1>5. Leading(db, t) /\ t.step = "read" /\ View(c) = Replay(db, t.writes)
  BY <1>1 DEF PathsOwned, View
<1>6. Leading(db, u)
  BY <1>3, <1>5 DEF Leading
<1>7. ASSUME NEW e \in Clients, e # c PROVE Separate(u, tx[e]) /\ Separate(tx[e], u)
  BY <1>1, <1>3, <1>7 DEF PathsOwned, Separate
<1> QED
  BY <1>4, <1>6, <1>7, OwnerMoves

\* What a transaction sees.
LEMMA ViewOwned ==
    ASSUME TablesTyped, PathsOwned, NEW c \in Clients
    PROVE  View(c) \in Tables /\ OnePagePerPath(View(c))
  BY ViewTyped DEF PathsOwned, Leading, View

LEMMA ReadMovedPaths ==
    ASSUME TablesTyped, PathsOwned, NEW c \in Clients, ReadMoved(c)
    PROVE  PathsOwned'
<1>1. PICK d \in Tables : d = View(c) /\ OnePagePerPath(d)
  BY ViewOwned
<1>2. PICK task \in Moving : task = Head(tx[c].todo)
  <2>1. tx[c].todo \in Seq(Moving \cup Saving) /\ tx[c].todo # <<>> /\ Head(tx[c].todo).op = "move"
    BY DEF TablesTyped, Transaction, Underway, ReadMoved
  <2>2. PICK task \in Moving \cup Saving : task = Head(tx[c].todo)
    BY <2>1
  <2>3. task \in Moving
    BY <2>1, <2>2 DEF Saving
  <2> QED
    BY <2>2, <2>3
<1>3. PICK moves : moves = validateMoveDestinations(d, task)
  OBVIOUS
<1>4. /\ tx[c].step = "read" /\ Found(c, moves)
      /\ \A w \in moves : w.new \in Paths /\ validatePageDestination(d, w.id, w.new)
  BY <1>1, <1>2, <1>3 DEF ReadMoved
<1>5. ASSUME NEW w \in moves
      PROVE  /\ w.id \in Live(d) /\ w.old = d.slug[w.id] /\ w.old \in Paths
             /\ w.old = task.from \/ Under(w.old, task.from)
             /\ w.new = Rebase(w.old, task.from, task.to)
             /\ w = Move(w.id, w.old, w.new)
  <2>1. PICK i \in loadMovedPages(d, task) : w = Move(i, d.slug[i], Rebase(d.slug[i], task.from, task.to))
    BY <1>3 DEF validateMoveDestinations
  <2>2. PICK old, new : old = d.slug[i] /\ new = Rebase(d.slug[i], task.from, task.to)
    OBVIOUS
  <2>3. w.id = i /\ w.old = old /\ w.new = new /\ w = Move(i, old, new)
    BY <2>1, <2>2 DEF Move
  <2>4. i \in Live(d) /\ (old = task.from \/ Under(old, task.from)) /\ d.slug[i] # None /\ i \in Ids
    BY <2>2 DEF loadMovedPages, Live
  <2>5. old \in Paths
    BY <2>2, <2>4 DEF Tables
  <2> QED
    BY <2>2, <2>3, <2>4, <2>5
<1>6. \A w \in moves : Validated(d, w)
  BY <1>4, <1>5, FinitePaths DEF Validated, validatePageDestination
<1>7. Distinct(moves)
  <2> SUFFICES ASSUME NEW w \in moves, NEW v \in moves, w.id = v.id \/ w.new = v.new PROVE w = v
    BY DEF Distinct
  <2>1. CASE w.id = v.id
    BY <1>5, <2>1
  <2>2. CASE w.new = v.new
    <3>1. task.from \in Paths /\ task.to \in Paths
      BY DEF Moving
    <3>2. Rebase(w.old, task.from, task.to) = Rebase(v.old, task.from, task.to)
      BY <1>5, <2>2
    <3>3. w.old = v.old
      BY <1>5, <3>1, <3>2, RebaseInjective
    <3>4. w.id = v.id
      BY <1>1, <1>5, <3>3, FinitePaths DEF OnePagePerPath, Live
    <3> QED
      BY <1>5, <2>2, <3>3, <3>4
  <2> QED
    BY <2>1, <2>2
<1> QED
  BY <1>1, <1>4, <1>6, <1>7, FoundPaths

LEMMA SavePageRecordPaths ==
    ASSUME TablesTyped, PathsOwned, NEW c \in Clients, savePageRecord(c)
    PROVE  PathsOwned'
<1>1. PICK d \in Tables : d = View(c) /\ OnePagePerPath(d)
  BY ViewOwned
<1>2. PICK t \in Saving : t = Head(tx[c].todo)
  <2>1. tx[c].todo \in Seq(Moving \cup Saving) /\ tx[c].todo # <<>> /\ Head(tx[c].todo).op = "save"
    BY DEF TablesTyped, Transaction, Underway, savePageRecord
  <2>2. PICK t \in Moving \cup Saving : t = Head(tx[c].todo)
    BY <2>1
  <2>3. t \in Saving
    BY <2>1, <2>2 DEF Moving
  <2> QED
    BY <2>2, <2>3
<1>3. PICK path \in Paths : path = pageRecordLookupSlug(t)
  BY DEF pageRecordLookupSlug, Saving
<1> DEFINE found == {i \in Ids : d.slug[i] = path}
           write(i, old) == [op |-> "save", id |-> i, old |-> old, new |-> t.to, icon |-> t.icon, links |-> t.links]
<1>4. tx[c].step = "read"
  BY DEF savePageRecord
<1>5. \/ /\ found \subseteq Live(d)
         /\ t.to # path => \A i \in found : validatePageDestination(d, i, t.to)
         /\ Found(c, {write(i, path) : i \in found})
      \/ /\ d.alias[t.to] = None
         /\ \E i \in Ids : d.slug[i] = None /\ Found(c, {write(i, None)})
  BY <1>1, <1>2, <1>3 DEF savePageRecord
<1>6. \A i, old : write(i, old).id = i /\ write(i, old).old = old /\ write(i, old).new = t.to
  OBVIOUS
<1>7. None \notin Paths
  BY FinitePaths
<1> HIDE DEF write
<1>8. CASE /\ found \subseteq Live(d)
           /\ t.to # path => \A i \in found : validatePageDestination(d, i, t.to)
           /\ Found(c, {write(i, path) : i \in found})
  <2>1. PICK writes : writes = {write(i, path) : i \in found}
    OBVIOUS
  <2>2. ASSUME NEW i \in found PROVE Validated(d, write(i, path))
    BY <1>6, <1>7, <1>8, <2>2 DEF Validated, validatePageDestination
  <2>3. \A i, j \in found : i = j
    BY <1>1, <1>7 DEF OnePagePerPath
  <2>4. Distinct(writes) /\ \A w \in writes : Validated(d, w)
    <3>1. \A w, v \in writes : w = v
      BY <2>1, <2>3
    <3> QED
      BY <2>1, <2>2, <3>1 DEF Distinct
  <2> QED
    BY <1>1, <1>4, <1>8, <2>1, <2>4, FoundPaths
<1>9. ASSUME NEW i \in Ids, d.alias[t.to] = None, d.slug[i] = None, Found(c, {write(i, None)})
      PROVE  PathsOwned'
  <2>1. PICK writes : writes = {write(i, None)}
    OBVIOUS
  <2>2. Distinct(writes)
    BY <2>1 DEF Distinct
  <2>3. \A w \in writes : Validated(d, w)
    BY <1>6, <1>9, <2>1 DEF Validated
  <2> QED
    BY <1>1, <1>4, <1>9, <2>1, <2>2, <2>3, FoundPaths
<1> QED
  BY <1>5, <1>8, <1>9

LEMMA WriteTaskPaths ==
    ASSUME TablesTyped, PathsOwned, NEW c \in Clients, WriteTask(c)
    PROVE  PathsOwned'
<1>1. PICK d \in Tables : d = View(c) /\ OnePagePerPath(d)
  BY ViewOwned
<1>2. PICK t \in Transaction : t = tx[c] /\ t.step = "write" /\ t.found \in SUBSET (Moved \cup Written) /\ IsFiniteSet(t.found)
  BY DEF TablesTyped, Underway, WriteTask
<1>3. PICK s \in Seq(Moved \cup Written) :
         s = SetToSeq(t.found) /\ \A k \in DOMAIN s : s[k] \in t.found
  BY <1>2, EachOnce
<1>4. PICK step : step = IF Len(t.todo) = 1 THEN "commit" ELSE "read"
  OBVIOUS
<1>5. PICK u : u = [t EXCEPT !.writes = @ \o s, !.todo = Tail(@), !.found = None, !.step = step]
  OBVIOUS
<1>6. u.writes = t.writes \o s /\ u.alone = t.alone /\ u.step = step /\ t.writes \in Seq(Moved \cup Written)
  BY <1>5 DEF Transaction
<1>7. tx' = [tx EXCEPT ![c] = u] /\ db' = db
  BY <1>2, <1>3, <1>4, <1>5 DEF WriteTask, TablesTyped
<1>8. Leading(db, t) /\ d = Replay(db, t.writes)
  BY <1>1, <1>2 DEF PathsOwned, View
<1>9. /\ \A w \in t.found : FreePath(d, w)
      /\ \A w \in t.found, e \in Clients \ {c} : w.id \notin Locked(e) /\ {w.old, w.new} \cap Claimed(e) \subseteq {None}
  BY <1>1, <1>2 DEF WriteTask, FreePath, Others
<1>10. Distinct(t.found) /\ (t.alone => LeadsOn(db, d) /\ \A w \in t.found : Validated(d, w))
  BY <1>2, <1>8 DEF Leading
<1>11. Replay(db, u.writes) = Replay(d, s)
  BY <1>3, <1>6, <1>8, ReplayGoesOn DEF TablesTyped
<1>12. OnePagePerPath(Replay(d, s))
  BY <1>1, <1>2, <1>3, <1>9, <1>10, TaskStaysUnique
<1>13. t.alone => LeadsOn(db, Replay(d, s))
  <2> SUFFICES ASSUME t.alone PROVE LeadsOn(db, Replay(d, s))
    OBVIOUS
  <2>1. \A w \in t.found : FreePath(d, w) /\ Validated(d, w)
    BY <1>9, <1>10
  <2>2. LeadsOn(d, Replay(d, s))
    BY <1>1, <1>2, <1>3, <1>10, <2>1, TaskLeadsOn
  <2> QED
    BY <1>10, <2>2, LeadsOnAndOn
<1>14. Leading(db, u)
  BY <1>4, <1>6, <1>11, <1>12, <1>13 DEF Leading
<1>15. ASSUME NEW e \in Clients, e # c PROVE Separate(u, tx[e]) /\ Separate(tx[e], u)
  <2>1. PICK ws : ws = tx[e].writes
    OBVIOUS
  <2>2. ASSUME NEW w \in t.found, NEW l \in DOMAIN ws PROVE w.id # ws[l].id /\ w.new # ws[l].new
    <3>1. ws[l] \in Wrote(e)
      BY <2>1 DEF Wrote
    <3>2. ws[l].id \in Locked(e) /\ ws[l].new \in Claimed(e)
      BY <3>1 DEF Locked, Claimed
    <3>3. w.new # None
      BY <1>2, FinitePaths DEF Moved, Written
    <3> QED
      BY <1>9, <1>15, <3>2, <3>3
  <2>3. ASSUME NEW k \in DOMAIN t.writes, NEW l \in DOMAIN ws
        PROVE  t.writes[k].id # ws[l].id /\ t.writes[k].new # ws[l].new
    BY <1>2, <1>15, <2>1 DEF PathsOwned, Separate
  <2>4. \A k \in DOMAIN u.writes : (\E j \in DOMAIN t.writes : u.writes[k] = t.writes[j]) \/ u.writes[k] \in t.found
    <3>1. PICK first \in Seq(Moved \cup Written), n \in Nat : first = t.writes /\ n = Len(first)
      BY <1>6
    <3>2. PICK m \in Nat : m = Len(s)
      BY <1>3
    <3>3. PICK all \in Seq(Moved \cup Written) : all = first \o s
      BY ConcatProperties
    <3>4. /\ DOMAIN all = 1..(n + m) /\ DOMAIN first = 1..n /\ DOMAIN s = 1..m
          /\ \A k \in 1..n : all[k] = first[k]
          /\ \A k \in 1..(n + m) : k \in 1..n \/ (k - n \in 1..m /\ all[k] = s[k - n])
      BY <3>1, <3>2, <3>3
    <3>5. ASSUME NEW k \in 1..(n + m)
          PROVE  (\E j \in DOMAIN first : all[k] = first[j]) \/ all[k] \in t.found
      <4>1. CASE k \in 1..n
        BY <3>4, <4>1
      <4>2. CASE k - n \in 1..m /\ all[k] = s[k - n]
        BY <1>3, <3>4, <4>2
      <4> QED
        BY <3>4, <3>5, <4>1, <4>2
    <3>6. u.writes = all /\ t.writes = first
      BY <1>6, <3>1, <3>3
    <3> QED
      BY <3>4, <3>5, <3>6
  <2>5. \A k \in DOMAIN u.writes, l \in DOMAIN ws : u.writes[k].id # ws[l].id /\ u.writes[k].new # ws[l].new
    BY <2>2, <2>3, <2>4
  <2> QED
    BY <2>1, <2>5 DEF Separate
<1> QED
  BY <1>7, <1>14, <1>15, OwnerMoves

\* The tables change under the transactions: no other one is alone any more.
LEMMA OthersGiveUp ==
    ASSUME TablesTyped, NEW c, NEW step, NEW e \in Clients, e # c
    PROVE  /\ Changed(c, step)[e].writes = tx[e].writes
           /\ Changed(c, step)[e].step = tx[e].step
           /\ Changed(c, step)[e].found = tx[e].found
           /\ tx[e].step # "idle" => ~Changed(c, step)[e].alone
<1>1. PICK t \in Transaction : t = tx[e]
  BY DEF TablesTyped
<1>2. PICK p : p = Changed(c, step)[e]
  OBVIOUS
<1>3. p = IF t.step = "idle" THEN t ELSE [t EXCEPT !.alone = FALSE]
  BY <1>1, <1>2 DEF Changed
<1>4. CASE t.step = "idle"
  BY <1>1, <1>2, <1>3, <1>4
<1>5. CASE t.step # "idle"
  <2>1. p = [t EXCEPT !.alone = FALSE]
    BY <1>3, <1>5
  <2>2. p.writes = t.writes /\ p.step = t.step /\ p.found = t.found /\ p.alone = FALSE
    BY <2>1 DEF Transaction
  <2> QED
    BY <1>1, <1>2, <2>2
<1> QED
  BY <1>4, <1>5

LEMMA TablesChangePaths ==
    ASSUME TablesTyped, PathsOwned, db' \in Tables, OnePagePerPath(db'), NEW c, NEW step,
           step \in {"idle", "invalidate", "cached"},
           \A e \in Clients : e # c => /\ tx'[e].writes = tx[e].writes
                                       /\ tx'[e].step = tx[e].step
                                       /\ tx'[e].found = tx[e].found
                                       /\ tx[e].step # "idle" => ~tx'[e].alone,
           c \in Clients => tx'[c].writes = <<>> /\ tx'[c].step = step,
           \A e \in Clients : e # c => OnePagePerPath(Replay(db', tx[e].writes))
    PROVE  PathsOwned'
<1>1. ASSUME NEW e \in Clients, e # c PROVE Leading(db', tx'[e])
  <2>1. /\ tx'[e].writes = tx[e].writes /\ tx'[e].step = tx[e].step /\ tx'[e].found = tx[e].found
        /\ tx[e].step # "idle" => ~tx'[e].alone
    BY <1>1
  <2>2. OnePagePerPath(Replay(db', tx'[e].writes))
    BY <1>1, <2>1
  <2>3. tx'[e].step = "write" => Distinct(tx'[e].found)
    BY <2>1 DEF PathsOwned, Leading
  <2>4. ~(tx'[e].alone /\ tx'[e].step \in {"read", "write", "commit"})
    BY <2>1
  <2> QED
    BY <2>2, <2>3, <2>4 DEF Leading
<1>2. c \in Clients => Leading(db', tx'[c]) /\ \A u : Separate(tx'[c], u) /\ Separate(u, tx'[c])
  BY NothingWritten
<1>3. \A e \in Clients : e # c => tx'[e].writes = tx[e].writes
  OBVIOUS
<1>4. ASSUME NEW e \in Clients, NEW f \in Clients, e # f PROVE Separate(tx'[e], tx'[f])
  <2>1. CASE e # c /\ f # c
    BY <1>3, <1>4, <2>1 DEF PathsOwned, Separate
  <2> QED
    BY <1>2, <2>1
<1> QED
  BY <1>1, <1>2, <1>4 DEF PathsOwned

LEMMA ChangedPaths ==
    ASSUME TablesTyped, PathsOwned, db' \in Tables, OnePagePerPath(db'), NEW c, NEW step,
           step \in {"idle", "invalidate", "cached"}, tx' = Changed(c, step),
           \A e \in Clients : e # c => OnePagePerPath(Replay(db', tx[e].writes))
    PROVE  PathsOwned'
<1>1. ASSUME c \in Clients PROVE tx'[c].writes = <<>> /\ tx'[c].step = step
  <2>1. PICK p : p = tx'[c]
    OBVIOUS
  <2>2. p = [todo |-> <<>>, found |-> None, writes |-> <<>>, rest |-> tx[c].rest, alone |-> TRUE, step |-> step]
    BY <1>1, <2>1, OwnChange
  <2>3. p.writes = <<>> /\ p.step = step
    BY <2>2
  <2> QED
    BY <2>1, <2>3
<1>2. \A e \in Clients : e # c => /\ tx'[e].writes = tx[e].writes
                                  /\ tx'[e].step = tx[e].step
                                  /\ tx'[e].found = tx[e].found
                                  /\ tx[e].step # "idle" => ~tx'[e].alone
  BY OthersGiveUp
<1> QED
  BY <1>1, <1>2, TablesChangePaths

LEMMA CommitPaths ==
    ASSUME TablesTyped, PathsOwned, NEW c \in Clients, Commit(c)
    PROVE  PathsOwned'
<1>1. db' = View(c) /\ tx' = Changed(c, "invalidate") /\ db' = Replay(db, tx[c].writes)
  BY DEF Commit, View
<1>2. db' \in Tables /\ OnePagePerPath(db')
  BY <1>1, ViewOwned
<1>3. ASSUME NEW e \in Clients, e # c PROVE OnePagePerPath(Replay(db', tx[e].writes))
  <2>1. PICK d \in Tables : d = db
    BY DEF TablesTyped
  <2>2. PICK ws \in Seq(Moved \cup Written), us \in Seq(Moved \cup Written) : ws = tx[c].writes /\ us = tx[e].writes
    BY DEF TablesTyped, Transaction
  <2>3. OnePagePerPath(Replay(d, ws)) /\ OnePagePerPath(Replay(d, us))
    BY <2>1, <2>2 DEF PathsOwned, Leading
  <2>4. \A k \in DOMAIN ws, l \in DOMAIN us : ws[k].id # us[l].id /\ ws[k].new # us[l].new
    BY <1>3, <2>2 DEF PathsOwned, Separate
  <2>5. OnePagePerPath(Replay(Replay(d, ws), us))
    BY <2>3, <2>4, CommitsUnique
  <2> QED
    BY <1>1, <2>1, <2>2, <2>5
<1> QED
  BY <1>1, <1>2, <1>3, ChangedPaths

\* Tables in which the pages have the paths they had, or none any more.
LEMMA SamePaths ==
    ASSUME TablesTyped, PathsOwned, NEW e \in Tables,
           \A i \in Ids : e.slug[i] \in {db.slug[i], None}
    PROVE  OnePagePerPath(e) /\ \A c \in Clients : OnePagePerPath(Replay(e, tx[c].writes))
<1>1. PICK d \in Tables : d = db /\ OnePagePerPath(d)
  BY DEF TablesTyped, PathsOwned
<1>2. OnePagePerPath(e)
  BY <1>1 DEF OnePagePerPath
<1>3. ASSUME NEW c \in Clients PROVE OnePagePerPath(Replay(e, tx[c].writes))
  <2>1. PICK us \in Seq(Moved \cup Written) : us = tx[c].writes
    BY DEF TablesTyped, Transaction
  <2>2. OnePagePerPath(Replay(d, us))
    BY <1>1, <2>1 DEF PathsOwned, Leading
  <2>3. ASSUME NEW i \in Ids, NEW k \in DOMAIN us, e.slug[i] = us[k].new PROVE e.slug[i] = d.slug[i]
    <3>1. us[k] \in Moved \cup Written
      BY <2>1
    <3>2. us[k].new # None
      BY <3>1, PathsAfter, FinitePaths DEF Moved, Written
    <3> QED
      BY <1>1, <2>3, <3>2
  <2>4. OnePagePerPath(Replay(e, us))
    BY <1>2, <2>2, <2>3, OthersUnique
  <2> QED
    BY <2>1, <2>4
<1> QED
  BY <1>2, <1>3

LEMMA StatementPaths ==
    ASSUME TablesTyped, PathsOwned, NEW new \in Tables, Statement(new), new.slug = db.slug
    PROVE  PathsOwned'
<1>1. db' = new /\ tx' = Changed(None, "idle") /\ None \notin Clients
  BY FinitePaths DEF Statement
<1>2. OnePagePerPath(new) /\ \A c \in Clients : OnePagePerPath(Replay(new, tx[c].writes))
  BY SamePaths
<1> QED
  BY <1>1, <1>2, ChangedPaths

LEMMA BinPaths ==
    ASSUME TablesTyped, PathsOwned, NEW bin \in SUBSET Ids, Statement([db EXCEPT !.bin = bin])
    PROVE  PathsOwned'
<1>1. PICK d \in Tables : d = db
  BY DEF TablesTyped
<1>2. PICK new : new = [d EXCEPT !.bin = bin]
  OBVIOUS
<1>3. new.slug = d.slug
  BY <1>2 DEF Tables
<1>4. new \in Tables
  BY <1>1, <1>2, BinTyped
<1>5. Statement(new)
  BY <1>1, <1>2
<1> QED
  BY <1>1, <1>3, <1>4, <1>5, StatementPaths

LEMMA BinsPaths ==
    ASSUME TablesTyped, PathsOwned,
           (\E ids \in SUBSET Ids : BulkDeletePages(ids)) \/ (\E i \in Ids : RestorePage(i))
    PROVE  PathsOwned'
<1>1. db.bin \in SUBSET Ids
  BY DEF TablesTyped, Tables
<1>2. ASSUME NEW ids \in SUBSET Ids, BulkDeletePages(ids) PROVE PathsOwned'
  <2>1. Statement([db EXCEPT !.bin = @ \cup ids]) /\ db.bin \cup ids \in SUBSET Ids
    BY <1>1, <1>2 DEF BulkDeletePages
  <2> QED
    BY <2>1, BinPaths
<1>3. ASSUME NEW i \in Ids, RestorePage(i) PROVE PathsOwned'
  <2>1. Statement([db EXCEPT !.bin = @ \ {i}]) /\ db.bin \ {i} \in SUBSET Ids
    BY <1>1, <1>3 DEF RestorePage
  <2> QED
    BY <2>1, BinPaths
<1> QED
  BY <1>2, <1>3

LEMMA PurgePaths ==
    ASSUME TablesTyped, PathsOwned, NEW c \in Clients, NEW i \in Ids, PermanentlyDeletePage(c, i)
    PROVE  PathsOwned'
<1>1. PICK d \in Tables : d = db
  BY DEF TablesTyped
<1>2. db' \in Tables
  BY PurgeTyped DEF TablesTyped
<1>3. db'.slug = [d.slug EXCEPT ![i] = None]
  <2>1. PICK links, alias, icons, bin : db' = [d EXCEPT !.slug[i] = None, !.bin = bin, !.links[i] = links,
                                        !.alias = alias, !.icons = icons]
    BY <1>1 DEF PermanentlyDeletePage
  <2> QED
    BY <2>1 DEF Tables
<1>4. \A j \in Ids : db'.slug[j] \in {db.slug[j], None}
  BY <1>1, <1>3 DEF Tables
<1>5. OnePagePerPath(db') /\ \A e \in Clients : OnePagePerPath(Replay(db', tx[e].writes))
  <2>1. PICK e \in Tables : e = db'
    BY <1>2
  <2>2. OnePagePerPath(e) /\ \A f \in Clients : OnePagePerPath(Replay(e, tx[f].writes))
    BY <1>4, <2>1, SamePaths
  <2> QED
    BY <2>1, <2>2
<1>6. tx' = Changed(c, "invalidate")
  BY DEF PermanentlyDeletePage
<1> QED
  BY <1>2, <1>5, <1>6, ChangedPaths

LEMMA SetIconPaths ==
    ASSUME TablesTyped, PathsOwned, NEW c \in Clients, NEW path \in Settable, NEW icon \in BOOLEAN,
           SetNavigationIcon(c, path, icon)
    PROVE  PathsOwned'
<1>1. PICK d \in Tables : d = db
  BY DEF TablesTyped
<1>2. db' \in Tables
  BY SetIconTyped DEF TablesTyped
<1>3. PICK e \in Tables : e = db'
  BY <1>2
<1>4. e.slug = d.slug
  BY <1>1, <1>3 DEF SetNavigationIcon, Tables
<1>5. OnePagePerPath(e) /\ \A f \in Clients : OnePagePerPath(Replay(e, tx[f].writes))
  BY <1>1, <1>4, SamePaths
<1>6. PICK changed, found : changed = Changed(c, "cached") /\ found = [path |-> path, icon |-> icon]
  OBVIOUS
<1>7. tx' = [changed EXCEPT ![c].found = found]
  BY <1>6 DEF SetNavigationIcon
<1>8. DOMAIN changed = Clients
  BY <1>6 DEF Changed
<1>9. \A f \in Clients : f # c => tx'[f] = changed[f]
  BY <1>7, <1>8
<1>10. tx'[c].writes = <<>> /\ tx'[c].step = "cached"
  <2>1. PICK p : p = changed[c]
    OBVIOUS
  <2>2. p = [todo |-> <<>>, found |-> None, writes |-> <<>>, rest |-> tx[c].rest, alone |-> TRUE, step |-> "cached"]
    BY <1>6, <2>1, OwnChange
  <2>3. PICK q : q = [p EXCEPT !.found = found]
    OBVIOUS
  <2>4. q.writes = <<>> /\ q.step = "cached"
    BY <2>2, <2>3
  <2>5. tx'[c] = q
    BY <1>7, <1>8, <2>1, <2>3
  <2> QED
    BY <2>4, <2>5
<1>11. OnePagePerPath(db') /\ \A f \in Clients : OnePagePerPath(Replay(db', tx[f].writes))
  BY <1>3, <1>5
<1>12. ASSUME NEW f \in Clients, f # c
       PROVE  /\ tx'[f].writes = tx[f].writes
              /\ tx'[f].step = tx[f].step
              /\ tx'[f].found = tx[f].found
              /\ tx[f].step # "idle" => ~tx'[f].alone
  <2>1. tx'[f] = Changed(c, "cached")[f]
    BY <1>6, <1>9, <1>12
  <2> QED
    BY <1>12, <2>1, OthersGiveUp
<1> QED
  BY <1>2, <1>10, <1>11, <1>12, TablesChangePaths

LEMMA StillPaths ==
    ASSUME PathsOwned, UNCHANGED <<db, tx>>
    PROVE  PathsOwned'
<1>1. /\ OnePagePerPath(db')
      /\ \A c \in Clients : Leading(db', tx'[c])
      /\ \A c, e \in Clients : c # e => Separate(tx'[c], tx'[e])
  BY DEF PathsOwned
<1> QED
  BY <1>1 DEF PathsOwned

LEMMA SpaceStartsPaths ==
    ASSUME SpaceInit
    PROVE  PathsOwned
<1>1. db \in Tables
  BY SpaceStartsTyped DEF TablesTyped
<1>2. PICK slug, alias, links :
         /\ \A i, j \in Ids : slug[i] = slug[j] => i = j \/ slug[i] = None
         /\ db = [slug |-> slug, bin |-> {}, alias |-> alias, links |-> links, icons |-> {}]
  BY DEF SpaceInit
<1>3. db.slug = slug
  BY <1>2
<1>4. OnePagePerPath(db)
  BY <1>2, <1>3 DEF OnePagePerPath
<1>5. PICK t : t = Idle
  OBVIOUS
<1>6. t.step = "idle" /\ t.writes = <<>> /\ \A c \in Clients : tx[c] = t
  BY <1>5 DEF SpaceInit, Idle
<1>7. \A c \in Clients : Leading(db, tx[c]) /\ \A u : Separate(tx[c], u)
  BY <1>1, <1>4, <1>6, NothingWritten
<1> QED
  BY <1>4, <1>7 DEF PathsOwned

LEMMA RequestPaths ==
    ASSUME TablesTyped, PathsOwned, NEW c \in Clients, Request(c)
    PROVE  PathsOwned'
<1>1. ASSUME NEW tasks, Begin(c, tasks) PROVE PathsOwned'
  BY <1>1, BeginPaths
<1>2. ASSUME NEW to, NEW from, NEW icon, NEW links, Save(c, "user", from, to, icon, links) PROVE PathsOwned'
  BY <1>1, <1>2 DEF Save
<1>3. ASSUME NEW to, NEW from, NEW tree, MovePage(c, "user", from, to, tree) PROVE PathsOwned'
  BY <1>1, <1>3 DEF MovePage
<1>4. ASSUME NEW to, NEW selected, BulkMovePages(c, selected, to) PROVE PathsOwned'
  <2>1. \E tasks : Begin(c, tasks)
    BY <1>4 DEF BulkMovePages
  <2> QED
    BY <1>1, <2>1
<1>5. ASSUME NEW paths, Import(c, paths) PROVE PathsOwned'
  BY <1>5, ImportPaths
<1>6. ASSUME NEW paths, NEW icon, ImportPortablePages(c, paths, icon) PROVE PathsOwned'
  <2>1. \E tasks : Begin(c, tasks)
    BY <1>6 DEF ImportPortablePages
  <2> QED
    BY <1>1, <2>1
<1>7. ASSUME NEW p \in Settable, NEW icon \in BOOLEAN, SetNavigationIcon(c, p, icon) PROVE PathsOwned'
  BY <1>7, SetIconPaths
<1>8. ASSUME NEW i \in Ids, PermanentlyDeletePage(c, i) PROVE PathsOwned'
  BY <1>8, PurgePaths
<1> QED
  BY <1>2, <1>3, <1>4, <1>5, <1>6, <1>7, <1>8 DEF Request

LEMMA SpaceStepPaths ==
    ASSUME TablesTyped, PathsOwned, [SpaceNext]_spaceVars
    PROVE  PathsOwned'
<1>1. ASSUME NEW c \in Clients, Request(c) PROVE PathsOwned'
  BY <1>1, RequestPaths
<1>2. ASSUME NEW c \in Clients, importPage(c) PROVE PathsOwned'
  BY <1>2, ImportPagePaths
<1>3. ASSUME NEW c \in Clients, ReadMoved(c) PROVE PathsOwned'
  BY <1>3, ReadMovedPaths
<1>4. ASSUME NEW c \in Clients, savePageRecord(c) PROVE PathsOwned'
  BY <1>4, SavePageRecordPaths
<1>5. ASSUME NEW c \in Clients, WriteTask(c) PROVE PathsOwned'
  BY <1>5, WriteTaskPaths
<1>6. ASSUME NEW c \in Clients, Commit(c) PROVE PathsOwned'
  BY <1>6, CommitPaths
<1>7. ASSUME NEW c \in Clients, Rollback(c) \/ InvalidateIcons(c) \/ CacheIcon(c) PROVE PathsOwned'
  BY <1>7, RestingPaths
<1>8. ASSUME NEW ids \in (SUBSET Ids) \ {{}}, BulkDeletePages(ids) PROVE PathsOwned'
  BY <1>8, BinsPaths
<1>9. ASSUME NEW i \in Ids, RestorePage(i) PROVE PathsOwned'
  BY <1>9, BinsPaths
<1>10. CASE NavigationIcons
  BY <1>10, StillPaths DEF NavigationIcons
<1>11. ASSUME NEW p, NEW a, SetRule(p, a) PROVE PathsOwned'
  BY <1>11, StillPaths DEF SetRule
<1>12. CASE UNCHANGED spaceVars
  BY <1>12, StillPaths DEF spaceVars
<1> QED
  BY <1>1, <1>2, <1>3, <1>4, <1>5, <1>6, <1>7, <1>8, <1>9, <1>10, <1>11, <1>12 DEF SpaceNext

\* A transaction that is ready to commit is moved on by its own commit only.
LEMMA OnlyItCommits ==
    ASSUME TablesTyped, [SpaceNext]_spaceVars, NEW c \in Clients, tx[c].step = "commit", tx'[c].step # "commit"
    PROVE  Commit(c)
<1>1. ASSUME NEW e \in Clients, NEW t, tx' = [tx EXCEPT ![e] = t], e # c PROVE FALSE
  <2>1. tx'[c] = tx[c]
    BY <1>1 DEF TablesTyped
  <2> QED
    BY <2>1
<1>2. ASSUME NEW e, NEW step, tx' = Changed(e, step), e # c PROVE FALSE
  BY <1>2, OthersKeep
<1>3. ASSUME NEW e \in Clients, Request(e) PROVE FALSE
  <2>1. e # c
    BY <1>3 DEF Request
  <2>2. ASSUME NEW tasks, Begin(e, tasks) PROVE FALSE
    BY <1>1, <2>1, <2>2 DEF Begin
  <2>3. ASSUME NEW paths, Import(e, paths) PROVE FALSE
    BY <1>1, <2>1, <2>3 DEF Import
  <2>4. ASSUME NEW i, PermanentlyDeletePage(e, i) PROVE FALSE
    <3>1. tx' = Changed(e, "invalidate")
      BY <2>4 DEF PermanentlyDeletePage
    <3> QED
      BY <1>2, <2>1, <3>1
  <2>5. ASSUME NEW p, NEW icon, SetNavigationIcon(e, p, icon) PROVE FALSE
    <3>1. tx'[c] = Changed(e, "cached")[c]
      BY <2>1, <2>5 DEF SetNavigationIcon, Changed
    <3> QED
      BY <2>1, <3>1, OthersKeep
  <2>6. ASSUME NEW to, NEW selected, BulkMovePages(e, selected, to) PROVE FALSE
    <3>1. \E tasks : Begin(e, tasks)
      BY <2>6 DEF BulkMovePages
    <3> QED
      BY <2>2, <3>1
  <2>7. ASSUME NEW paths, NEW icon, ImportPortablePages(e, paths, icon) PROVE FALSE
    <3>1. \E tasks : Begin(e, tasks)
      BY <2>7 DEF ImportPortablePages
    <3> QED
      BY <2>2, <3>1
  <2>8. ASSUME NEW to, NEW from, NEW icon, NEW links, Save(e, "user", from, to, icon, links) PROVE FALSE
    BY <2>2, <2>8 DEF Save
  <2>9. ASSUME NEW to, NEW from, NEW tree, MovePage(e, "user", from, to, tree) PROVE FALSE
    BY <2>2, <2>9 DEF MovePage
  <2> QED
    BY <1>3, <2>3, <2>4, <2>5, <2>6, <2>7, <2>8, <2>9 DEF Request
<1>4. ASSUME NEW e \in Clients, importPage(e) PROVE FALSE
  <2>1. e # c /\ \E t : tx' = [tx EXCEPT ![e] = t]
    BY <1>4 DEF importPage
  <2> QED
    BY <1>1, <2>1
<1>5. ASSUME NEW e \in Clients, Rollback(e) \/ CacheIcon(e) PROVE FALSE
  BY <1>1, <1>5 DEF Rollback, CacheIcon
<1>6. ASSUME NEW e \in Clients, InvalidateIcons(e) PROVE FALSE
  <2>1. e # c /\ \E t : tx' = [tx EXCEPT ![e] = t]
    BY <1>6 DEF InvalidateIcons, Invalidated
  <2> QED
    BY <1>1, <2>1
<1>7. ASSUME NEW e \in Clients, NEW writes, e # c, Found(e, writes) PROVE FALSE
  <2>1. tx'[c] = tx[c]
    BY <1>7 DEF Found, TablesTyped
  <2> QED
    BY <2>1
<1>8. ASSUME NEW e \in Clients, ReadMoved(e) PROVE FALSE
  <2>1. e # c /\ \E writes : Found(e, writes)
    BY <1>8 DEF ReadMoved
  <2> QED
    BY <1>7, <2>1
<1>9. ASSUME NEW e \in Clients, savePageRecord(e) PROVE FALSE
  <2>1. e # c /\ \E writes : Found(e, writes)
    BY <1>9 DEF savePageRecord
  <2> QED
    BY <1>7, <2>1
<1>10. ASSUME NEW e \in Clients, WriteTask(e) PROVE FALSE
  <2>1. e # c /\ tx'[c] = tx[c]
    BY <1>10 DEF WriteTask, TablesTyped
  <2> QED
    BY <2>1
<1>11. ASSUME NEW e \in Clients, Commit(e), e # c PROVE FALSE
  BY <1>2, <1>11 DEF Commit
<1>12. ASSUME NEW new, Statement(new) PROVE FALSE
  BY <1>2, <1>12, FinitePaths DEF Statement
<1>13. ASSUME UNCHANGED tx PROVE FALSE
  BY <1>13
<1>14. ASSUME NEW ids, BulkDeletePages(ids) PROVE FALSE
  BY <1>12, <1>14 DEF BulkDeletePages
<1>15. ASSUME NEW i, RestorePage(i) PROVE FALSE
  BY <1>12, <1>15 DEF RestorePage
<1>16. CASE NavigationIcons
  BY <1>13, <1>16 DEF NavigationIcons
<1>17. ASSUME NEW p, NEW a, SetRule(p, a) PROVE FALSE
  BY <1>13, <1>17 DEF SetRule
<1>18. CASE UNCHANGED spaceVars
  BY <1>13, <1>18 DEF spaceVars
<1> QED
  BY <1>3, <1>4, <1>5, <1>6, <1>8, <1>9, <1>10, <1>11, <1>14, <1>15, <1>16, <1>17, <1>18 DEF SpaceNext

\* No two pages ever have one path, in the committed tables and in what any
\* transaction sees, two transactions under way have written to different
\* pages and paths, and one that is alone has turned no path away from the
\* page it led to.
THEOREM PathsInvariance == SpaceSpec => [](TablesTyped /\ PathsOwned)
<1>1. SpaceInit => TablesTyped /\ PathsOwned
  BY SpaceStartsTyped, SpaceStartsPaths
<1>2. TablesTyped /\ PathsOwned /\ [SpaceNext]_spaceVars => (TablesTyped /\ PathsOwned)'
  BY SpaceStepTyped, SpaceStepPaths
<1> QED
  BY <1>1, <1>2, PTL DEF SpaceSpec

\* A path that leads to a page leads to the same page after every save, move,
\* bulk move and import, as its new path or as an alias, when no other change
\* was committed while the request was under way.
THEOREM PathsLeadOn == SpaceSpec => PathsKeepLeading
<1> DEFINE Lead == \A c \in Clients :
              tx[c].step = "commit" /\ tx[c].alone /\ tx'[c].step = "invalidate" =>
                  \A p \in Paths : ResolvePageLinks(db, p) # {} =>
                      ResolvePageLinks(db', p) = ResolvePageLinks(db, p)
<1>1. TablesTyped /\ PathsOwned /\ [SpaceNext]_spaceVars => Lead
  <2> SUFFICES ASSUME TablesTyped, PathsOwned, [SpaceNext]_spaceVars, NEW c \in Clients,
                      tx[c].step = "commit", tx[c].alone, tx'[c].step = "invalidate"
               PROVE  LeadsOn(db, db')
    BY DEF LeadsOn
  <2>1. Commit(c)
    BY OnlyItCommits
  <2>2. db' = Replay(db, tx[c].writes)
    BY <2>1 DEF Commit, View
  <2>3. Leading(db, tx[c])
    BY DEF PathsOwned
  <2> QED
    BY <2>2, <2>3 DEF Leading
<1>2. TablesTyped /\ PathsOwned /\ [SpaceNext]_spaceVars => [Lead]_spaceVars
  BY <1>1
<1> HIDE DEF Lead
<1>3. SpaceSpec => [][Lead]_spaceVars
  BY <1>2, PathsInvariance, PTL DEF SpaceSpec
<1> QED
  BY <1>3 DEF PathsKeepLeading, Lead

-----------------------------------------------------------------------------
(* What a reader is shown.                                                  *)

Phase == {"idle", "rule", "page", "edit", "lookup", "target", "listed", "shown", "links", "linked"}
Answers == {"shown", "linked"}

Answer == [step : Phase, paths : SUBSET Paths, leads : Paths \cup {None}, seen : SUBSET Paths]

\* What the rules allow now counts as seen, and the paths of a request that
\* passed them were seen.
Reading ==
    /\ reader \in Answer
    /\ reader.step \notin Answers \cup {"idle"} => Visible \subseteq reader.seen
    /\ reader.step \in Answers \cup {"page", "lookup"} => reader.paths \subseteq reader.seen

LEMMA ReaderSame ==
    ASSUME UNCHANGED <<rules, reader>>, Reading
    PROVE  Reading'
  BY DEF Reading, Visible, FilterPages, CanView, Grants, nearest

LEMMA VisibleSame ==
    ASSUME UNCHANGED spaceVars
    PROVE  Visible' = Visible
  BY DEF spaceVars, Visible, FilterPages, CanView, Grants, nearest

LEMMA VisiblePaths == Visible \subseteq Paths /\ (\A p \in Paths : CanView("user", p) <=> p \in Visible)
  BY DEF Visible, FilterPages

\* Who may edit a path may view it.
LEMMA EditorsView ==
    ASSUME NEW p, CanEdit("user", p)
    PROVE  CanView("user", p)
  BY DEF CanEdit, CanView, Grants

\* What a step of the reader leaves.
Fair(r) ==
    /\ r \in Answer
    /\ r.step \notin Answers \cup {"idle"} => Visible \subseteq r.seen
    /\ r.step \in Answers \cup {"page", "lookup"} => r.paths \subseteq r.seen

LEMMA Answered ==
    ASSUME NEW r, Fair(r), Reads(r)
    PROVE  Reading'
<1>1. reader' = r /\ UNCHANGED spaceVars
  BY DEF Reads
<1>2. Visible' = Visible
  BY <1>1, VisibleSame
<1> QED
  BY <1>1, <1>2 DEF Fair, Reading

\* A reader of a step and of paths that it may have goes on to another one.
LEMMA GoesOn ==
    ASSUME NEW r, Fair(r), NEW step \in Phase, NEW paths \in SUBSET Paths,
           r.step \notin Answers \cup {"idle"},
           step \in Answers \cup {"page", "lookup"} => paths \subseteq r.seen
    PROVE  Fair([r EXCEPT !.step = step, !.paths = paths])
<1>1. PICK p : p = [r EXCEPT !.step = step, !.paths = paths]
  OBVIOUS
<1>2. /\ p = [step |-> step, paths |-> paths, leads |-> r.leads, seen |-> r.seen]
      /\ r.seen \in SUBSET Paths /\ r.leads \in Paths \cup {None}
  BY <1>1 DEF Fair, Answer
<1>3. Fair(p)
  BY <1>2 DEF Fair, Answer, Answers
<1> QED
  BY <1>1, <1>3

LEMMA StepsOn ==
    ASSUME NEW r, Fair(r), NEW step \in Phase, r.step \notin Answers \cup {"idle"},
           step \in Answers \cup {"page", "lookup"} => r.paths \subseteq r.seen
    PROVE  Fair([r EXCEPT !.step = step])
<1>1. PICK p : p = [r EXCEPT !.step = step]
  OBVIOUS
<1>2. /\ p = [step |-> step, paths |-> r.paths, leads |-> r.leads, seen |-> r.seen]
      /\ r.seen \in SUBSET Paths /\ r.paths \in SUBSET Paths /\ r.leads \in Paths \cup {None}
  BY <1>1 DEF Fair, Answer
<1>3. Fair(p)
  BY <1>2 DEF Fair, Answer, Answers
<1> QED
  BY <1>1, <1>3

LEMMA GoneAway == Fair(Away)
<1>1. Away = [step |-> "idle", paths |-> {}, leads |-> None, seen |-> {}]
  BY DEF Away
<1> QED
  BY <1>1 DEF Fair, Answer, Answers, Phase

LEMMA ReaderFair ==
    ASSUME Reading
    PROVE  Fair(reader)
  BY DEF Reading, Fair

LEMMA Asked ==
    ASSUME NEW step \in {"rule", "edit", "target", "listed"}, NEW paths \in SUBSET Paths, Ask(step, paths)
    PROVE  Reading'
<1>1. PICK r : r = [Away EXCEPT !.step = step, !.paths = paths, !.seen = Visible]
  OBVIOUS
<1>2. r = [step |-> step, paths |-> paths, leads |-> None, seen |-> Visible]
  BY <1>1 DEF Away
<1>3. Fair(r)
  BY <1>2, VisiblePaths DEF Fair, Answer, Answers, Phase
<1>4. Reads(r)
  BY <1>1 DEF Ask, Reads
<1> QED
  BY <1>3, <1>4, Answered

\* The pages of the tables are at paths.
LEMMA PagesAtPaths ==
    ASSUME TablesTyped
    PROVE  \A i \in Live(db) : db.slug[i] \in Paths
  BY DEF TablesTyped, Tables, Live

LEMMA AliasesLive ==
    ASSUME NEW d, NEW p
    PROVE  ResolvePageAlias(d, p) \subseteq Live(d) /\ GetPage(d, p) \subseteq Live(d)
  BY DEF ResolvePageAlias, GetPage

LEMMA RequireViewFair ==
    ASSUME Reading, RequireView
    PROVE  Reading'
<1>1. PICK next \in {<<"rule", "page">>, <<"rule", "lookup">>, <<"target", "rule">>, <<"target", "lookup">>} :
        /\ reader.step = next[1]
        /\ Reads(IF \A p \in reader.paths : CanView("user", p) THEN [reader EXCEPT !.step = next[2]] ELSE Away)
  BY DEF RequireView
<1>2. PICK to : to = next[2]
  OBVIOUS
<1>3. reader.step \in {"rule", "target"} /\ to \in {"page", "lookup", "rule"}
  BY <1>1, <1>2
<1>4. CASE \A p \in reader.paths : CanView("user", p)
  <2>1. reader.paths \subseteq reader.seen
    BY <1>3, <1>4, VisiblePaths DEF Reading, Answer, Answers
  <2>2. Fair([reader EXCEPT !.step = to])
    BY <1>3, <2>1, ReaderFair, StepsOn DEF Answers, Phase
  <2> QED
    BY <1>1, <1>2, <1>4, <2>2, Answered
<1>5. CASE ~ \A p \in reader.paths : CanView("user", p)
  BY <1>1, <1>5, GoneAway, Answered
<1> QED
  BY <1>4, <1>5

LEMMA RequireEditFair ==
    ASSUME Reading, RequireEdit
    PROVE  Reading'
<1>1. /\ reader.step = "edit"
      /\ Reads(IF \A p \in reader.paths : CanEdit("user", p) THEN [reader EXCEPT !.step = "lookup"] ELSE Away)
  BY DEF RequireEdit
<1>2. CASE \A p \in reader.paths : CanEdit("user", p)
  <2>1. reader.paths \subseteq reader.seen
    BY <1>1, <1>2, EditorsView, VisiblePaths DEF Reading, Answer, Answers
  <2>2. Fair([reader EXCEPT !.step = "lookup"])
    BY <1>1, <2>1, ReaderFair, StepsOn DEF Answers, Phase
  <2> QED
    BY <1>1, <1>2, <2>2, Answered
<1>3. CASE ~ \A p \in reader.paths : CanEdit("user", p)
  BY <1>1, <1>3, GoneAway, Answered
<1> QED
  BY <1>2, <1>3

LEMMA GetPageForFair ==
    ASSUME Reading, GetPageFor
    PROVE  Reading'
<1>1. /\ reader.step = "lookup"
      /\ Reads(IF \E p \in reader.paths : GetPage(db, p) # {} THEN [reader EXCEPT !.step = "shown"] ELSE Away)
  BY DEF GetPageFor
<1>2. Fair([reader EXCEPT !.step = "shown"])
  BY <1>1, ReaderFair, StepsOn DEF Reading, Answers, Phase
<1>3. CASE \E p \in reader.paths : GetPage(db, p) # {}
  BY <1>1, <1>2, <1>3, Answered
<1>4. CASE ~ \E p \in reader.paths : GetPage(db, p) # {}
  BY <1>1, <1>4, GoneAway, Answered
<1> QED
  BY <1>3, <1>4

LEMMA GetPageOrAliasFair ==
    ASSUME TablesTyped, Reading, getPageOrAlias
    PROVE  Reading'
<1>1. PICK p \in reader.paths :
        /\ reader.step = "page"
        /\ IF GetPage(db, p) # {} THEN Show({p})
           ELSE IF ResolvePageAlias(db, p) = {} THEN Reads(Away)
           ELSE Reads([reader EXCEPT !.step = "target", !.paths = {db.slug[i] : i \in ResolvePageAlias(db, p)}])
  BY DEF getPageOrAlias
<1>2. PICK targets : targets = {db.slug[i] : i \in ResolvePageAlias(db, p)}
  OBVIOUS
<1>3. targets \in SUBSET Paths
  BY <1>2, PagesAtPaths, AliasesLive
<1>4. {p} \in SUBSET Paths /\ {p} \subseteq reader.seen
  BY <1>1 DEF Reading, Answer
<1>5. Fair([reader EXCEPT !.step = "shown", !.paths = {p}])
  BY <1>1, <1>4, ReaderFair, GoesOn DEF Answers, Phase
<1>6. Fair([reader EXCEPT !.step = "target", !.paths = targets])
  BY <1>1, <1>3, ReaderFair, GoesOn DEF Answers, Phase
<1>7. CASE Show({p})
  BY <1>5, <1>7, Answered DEF Show
<1>8. CASE Reads(Away)
  BY <1>8, GoneAway, Answered
<1>9. CASE Reads([reader EXCEPT !.step = "target", !.paths = targets])
  BY <1>6, <1>9, Answered
<1> QED
  BY <1>1, <1>2, <1>7, <1>8, <1>9

LEMMA ListsFair ==
    ASSUME TablesTyped, Reading, List \/ ResolveLinks
    PROVE  Reading'
<1>1. PICK paths : /\ Ask("listed", paths)
                   /\ \/ paths = ListPages \/ paths = aliasTargets
                      \/ paths = {db.slug[i] : i \in UNION {ResolvePageLinks(db, p) : p \in Settable}}
  BY DEF List, ResolveLinks
<1>2. UNION {ResolvePageLinks(db, p) : p \in Settable} \subseteq Live(db)
  BY AliasesLive DEF ResolvePageLinks
<1>3. UNION {ResolvePageAlias(db, p) : p \in Paths} \subseteq Live(db)
  BY AliasesLive
<1>4. paths \in SUBSET Paths
  BY <1>1, <1>2, <1>3, PagesAtPaths DEF ListPages, aliasTargets
<1> QED
  BY <1>1, <1>4, Asked

LEMMA BacklinksOfFair ==
    ASSUME TablesTyped, Reading, BacklinksOf
    PROVE  Reading'
<1>1. PICK p \in reader.paths : reader.step = "page" /\ Reads([reader EXCEPT !.step = "listed", !.paths = Backlinks(p)])
  BY DEF BacklinksOf
<1>2. Backlinks(p) \in SUBSET Paths
  BY PagesAtPaths DEF Backlinks
<1>3. Fair([reader EXCEPT !.step = "listed", !.paths = Backlinks(p)])
  BY <1>1, <1>2, ReaderFair, GoesOn DEF Answers, Phase
<1> QED
  BY <1>1, <1>3, Answered

LEMMA PageLinksFair ==
    ASSUME TablesTyped, Reading, PageLinks
    PROVE  Reading'
<1>1. PICK p \in reader.paths, i \in Ids :
        /\ reader.step = "page"
        /\ \E path \in UNION {db.links[j] : j \in GetPage(db, p)} :
              /\ i \in ResolvePageLinks(db, path)
              /\ Reads([reader EXCEPT !.step = "links", !.paths = {path}, !.leads = db.slug[i]])
  BY DEF PageLinks
<1>2. PICK path \in UNION {db.links[j] : j \in GetPage(db, p)} :
              /\ i \in ResolvePageLinks(db, path)
              /\ Reads([reader EXCEPT !.step = "links", !.paths = {path}, !.leads = db.slug[i]])
  BY <1>1
<1>3. path \in Paths /\ db.slug[i] \in Paths
  <2>1. i \in Live(db) /\ GetPage(db, p) \subseteq Ids
    BY <1>2, AliasesLive DEF ResolvePageLinks, GetPage, Live
  <2> QED
    BY <1>2, <2>1, PagesAtPaths DEF TablesTyped, Tables
<1>4. PICK r : r = [reader EXCEPT !.step = "links", !.paths = {path}, !.leads = db.slug[i]]
  OBVIOUS
<1>5. r = [step |-> "links", paths |-> {path}, leads |-> db.slug[i], seen |-> reader.seen]
  BY <1>4 DEF Reading, Answer
<1>6. Fair(r)
  BY <1>1, <1>3, <1>5 DEF Fair, Reading, Answer, Answers, Phase
<1> QED
  BY <1>2, <1>4, <1>6, Answered

LEMMA RedactLinksFair ==
    ASSUME Reading, RedactLinks
    PROVE  Reading'
<1>1. /\ reader.step = "links"
      /\ Reads(IF reader.paths \subseteq Visible THEN [reader EXCEPT !.step = "linked"] ELSE Away)
  BY DEF RedactLinks
<1>2. CASE reader.paths \subseteq Visible
  <2>1. reader.paths \subseteq reader.seen
    BY <1>1, <1>2 DEF Reading, Answers
  <2>2. Fair([reader EXCEPT !.step = "linked"])
    BY <1>1, <2>1, ReaderFair, StepsOn DEF Answers, Phase
  <2> QED
    BY <1>1, <1>2, <2>2, Answered
<1>3. CASE ~ reader.paths \subseteq Visible
  BY <1>1, <1>3, GoneAway, Answered
<1> QED
  BY <1>2, <1>3

LEMMA FilterFair ==
    ASSUME Reading, Filter
    PROVE  Reading'
<1>1. PICK paths : paths = FilterPages("user", reader.paths)
  OBVIOUS
<1>2. reader.step = "listed" /\ Reads([reader EXCEPT !.step = "shown", !.paths = paths])
  BY <1>1 DEF Filter, Show
<1>3. paths \in SUBSET Paths /\ paths \subseteq reader.seen
  BY <1>1, <1>2, VisiblePaths DEF FilterPages, Reading, Answer, Answers
<1>4. Fair([reader EXCEPT !.step = "shown", !.paths = paths])
  BY <1>2, <1>3, ReaderFair, GoesOn DEF Answers, Phase
<1> QED
  BY <1>2, <1>4, Answered

LEMMA MeanwhileFair ==
    ASSUME Reading, Meanwhile
    PROVE  Reading'
<1>1. /\ reader.step \notin Answers
      /\ reader' = IF reader.step = "idle" THEN reader ELSE [reader EXCEPT !.seen = @ \cup Visible']
  BY DEF Meanwhile, Answers
<1>2. Visible' \subseteq Paths
  BY DEF Visible, FilterPages
<1>3. CASE reader.step = "idle"
  BY <1>1, <1>3 DEF Reading
<1>4. CASE reader.step # "idle"
  <2>1. PICK visible \in SUBSET Paths : visible = Visible'
    BY <1>2
  <2>2. PICK r : r = reader /\ r \in Answer /\ (r.step \in Answers \cup {"page", "lookup"} => r.paths \subseteq r.seen)
    BY DEF Reading
  <2>3. PICK p : p = [r EXCEPT !.seen = r.seen \cup visible]
    OBVIOUS
  <2>4. p = [step |-> r.step, paths |-> r.paths, leads |-> r.leads, seen |-> r.seen \cup visible]
    BY <2>2, <2>3 DEF Answer
  <2>5. reader' = p
    BY <1>1, <1>4, <2>1, <2>2, <2>3
  <2>6. p \in Answer /\ visible \subseteq p.seen /\ (p.step \in Answers \cup {"page", "lookup"} => p.paths \subseteq p.seen)
    BY <2>2, <2>4 DEF Answer
  <2> QED
    BY <2>1, <2>5, <2>6 DEF Reading, Answer
<1> QED
  BY <1>3, <1>4

LEMMA ReadStep ==
    ASSUME TablesTyped, Reading, [ReadNext]_readVars
    PROVE  Reading'
<1>1. ASSUME NEW p \in Sources \cup Targets, ViewPage(p) \/ EditPage(p) PROVE Reading'
  <2>1. {p} \in SUBSET Paths
    BY FinitePaths
  <2> QED
    BY <1>1, <2>1, Asked DEF ViewPage, EditPage
<1>2. ASSUME NEW i \in Ids, CanonicalPage(i) PROVE Reading'
  <2>1. {db.slug[i]} \in SUBSET Paths /\ Ask("target", {db.slug[i]})
    BY <1>2, PagesAtPaths DEF CanonicalPage
  <2> QED
    BY <2>1, Asked
<1>3. CASE Close
  BY <1>3, GoneAway, Answered DEF Close
<1>4. CASE UNCHANGED readVars
  BY <1>4, ReaderSame DEF readVars, spaceVars
<1> QED
  BY <1>1, <1>2, <1>3, <1>4, MeanwhileFair, RequireViewFair, RequireEditFair, GetPageForFair, GetPageOrAliasFair,
     ListsFair, BacklinksOfFair, FilterFair, PageLinksFair, RedactLinksFair DEF ReadNext

LEMMA ReadersAct ==
    ASSUME [ReadNext]_readVars
    PROVE  [SpaceNext]_spaceVars
  BY DEF ReadNext, readVars, Meanwhile, ViewPage, EditPage, CanonicalPage,
         RequireView, RequireEdit, GetPageFor, getPageOrAlias, List, BacklinksOf,
         ResolveLinks, Filter, PageLinks, RedactLinks, Close, Ask, Reads, Show

\* A reader only reads: the specification with readers implements the one
\* without.
THEOREM ReadersOnlyRead == ReadSpec => SpaceSpec
<1>1. ReadInit => SpaceInit
  BY DEF ReadInit
<1>2. [ReadNext]_readVars => [SpaceNext]_spaceVars
  BY ReadersAct
<1> QED
  BY <1>1, <1>2, PTL DEF ReadSpec, SpaceSpec

\* A page is only shown under a path the user was allowed to view since the
\* request began, whichever alias, permalink or list led there and whoever
\* moves pages or changes rules meanwhile; so is the path an outgoing link
\* names, whatever that link leads to.
THEOREM ReadersSeeTheirOwn == ReadSpec => []ShownWasViewable
<1>1. ReadInit => Reading
  BY GoneAway DEF ReadInit, Away, Fair, Reading, Answers
<1>2. TablesTyped /\ Reading /\ [ReadNext]_readVars => Reading'
  BY ReadStep
<1>3. Reading => ShownWasViewable
  BY DEF Reading, ShownWasViewable, Answers
<1>4. ReadSpec => []TablesTyped
  BY ReadersOnlyRead, SpaceInvariance, PTL
<1> QED
  BY <1>1, <1>2, <1>3, <1>4, PTL DEF ReadSpec

-----------------------------------------------------------------------------
(* Uploaded files and the texts that refer to them (PortableArchive, whose  *)
(* assumption is used).                                                     *)

Upload == [by : {"user", "administrator"}, data : File]
ArchivedPage == [slug : Paths, text : SUBSET Reference, showed : SUBSET File]
Resource == [section : Kinds, file : File, data : File]
Archive == [pages : SUBSET ArchivedPage, resources : Seq(Resource)]
Numbers == UNION {[D -> File] : D \in SUBSET File}
Deletion == [file : File, alone : BOOLEAN]
ShelfWork == [step : {"idle", "export", "restore"}, todo : Seq(Paths), need : SUBSET File, out : Archive,
                   portable : BOOLEAN, client : Clients \cup {None}, new : Numbers]

\* A restore gives numbers to files of the archive it restores.
NumbersOfShelf ==
    work.client # None =>
        \A f \in DOMAIN work.new : \E k \in DOMAIN shelf.resources : shelf.resources[k].file = f

FilesTyped ==
    /\ files \in [File -> Upload \cup {None}]
    /\ last \in [Kinds -> Nat]
    /\ texts \in [Ids -> SUBSET Reference]
    /\ deletion \in Deletion \cup {None}
    /\ shelf \in Archive
    /\ work \in ShelfWork
    /\ NumbersOfShelf

\* No page that has a path, in the recycle bin or not, shows the file.
ShownNowhere(f) == \A i \in Ids : db.slug[i] # None => f \notin ReferencedFiles(texts[i])

\* What a member deletes is shown nowhere until a text changes, and files
\* are only deleted where they are explored.
DeletesUnused ==
    /\ fileOps \in Nat
    /\ fileOps > MaxFileOps => deletion = None
    /\ deletion # None /\ deletion.alone => ShownNowhere(deletion.file)

LEMMA ArchiveConstants ==
    /\ Texts \subseteq SUBSET Reference
    /\ MaxFiles \in Nat /\ MaxFileOps \in Nat
    /\ None \notin Deletion /\ None \notin Upload
  BY ArchiveAssumption DEF Deletion, Upload

LEMMA FileParts ==
    ASSUME NEW f \in File
    PROVE  f[1] \in Kinds /\ f[2] \in 1..MaxFiles /\ f = <<f[1], f[2]>>
  BY DEF File

LEMMA ReferenceParts ==
    ASSUME NEW r \in Reference
    PROVE  r[1] \in {"url", "relative", "code"} /\ r[2] \in File /\ r = <<r[1], r[2]>>
  BY DEF Reference

LEMMA Referenced ==
    ASSUME NEW text \in SUBSET Reference
    PROVE  /\ ReferencedFiles(text) \subseteq File /\ ImagesOf(text) \subseteq File
           /\ rewriteMarkdown(text) \in SUBSET Reference
<1>1. ReferencedFiles(text) \subseteq File
  BY ReferenceParts DEF ReferencedFiles, Ranges
<1>2. \A r \in text : <<"relative", r[2]>> \in Reference
  BY ReferenceParts DEF Reference
<1> QED
  BY <1>1, <1>2 DEF ImagesOf, rewriteMarkdown

LEMMA RestoredReferences ==
    ASSUME NEW text \in SUBSET Reference, NEW new \in Numbers
    PROVE  RestoreResourceReferences(text, new) \in SUBSET Reference
<1>1. \A f \in DOMAIN new : new[f] \in File
  BY DEF Numbers
<1>2. \A f \in File : <<"url", f>> \in Reference
  BY DEF Reference
<1>3. \A r \in text : r[2] \in DOMAIN new => <<"url", new[r[2]]>> \in Reference
  BY <1>1, <1>2
<1> QED
  BY <1>3 DEF RestoreResourceReferences

LEMMA NothingUnderWay == NoArchive \in Archive /\ NoJob \in ShelfWork /\ NoJob.client = None
<1>1. <<>> \in Seq(Paths) /\ <<>> \in Seq(Resource)
  OBVIOUS
<1>2. NoArchive \in Archive
  BY <1>1 DEF NoArchive, Archive
<1>3. <<>> \in [{} -> File]
  OBVIOUS
<1>4. <<>> \in Numbers
  BY <1>3 DEF Numbers
<1> QED
  BY <1>1, <1>2, <1>4 DEF NoJob, ShelfWork

LEMMA FilesStart ==
    ASSUME ArchiveInit
    PROVE  FilesTyped /\ DeletesUnused
<1>1. files \in [File -> Upload \cup {None}]
  BY DEF ArchiveInit, Upload
<1>2. last \in [Kinds -> Nat]
  BY DEF ArchiveInit
<1>3. texts \in [Ids -> SUBSET Reference]
  BY ArchiveConstants DEF ArchiveInit
<1>4. fileOps \in Nat
  BY ArchiveConstants DEF ArchiveInit
<1>5. work = NoJob /\ shelf = NoArchive /\ deletion = None
  BY DEF ArchiveInit
<1> QED
  BY <1>1, <1>2, <1>3, <1>4, <1>5, NothingUnderWay DEF FilesTyped, NumbersOfShelf, DeletesUnused


\* What files and pages share stays as it is while files are only stored,
\* exported or taken from the shelf.
LEMMA StillUnused ==
    ASSUME DeletesUnused, UNCHANGED <<db, texts>>, fileOps <= MaxFileOps,
           fileOps' = fileOps \/ FileRequest, deletion' = deletion \/ deletion' = None
    PROVE  DeletesUnused'
<1>1. fileOps' \in Nat /\ ~(fileOps' > MaxFileOps)
  BY ArchiveConstants DEF DeletesUnused, FileRequest
<1> QED
  BY <1>1 DEF DeletesUnused, ShownNowhere

LEMMA SaveFileTyped ==
    ASSUME FilesTyped, NEW kind \in Kinds, NEW actor \in {"user", "administrator"}, saveFile(kind, actor)
    PROVE  FilesTyped'
<1>1. PICK f : f = <<kind, last[kind] + 1>>
  OBVIOUS
<1>2. f \in File
  BY <1>1, ArchiveConstants DEF FilesTyped, saveFile, File
<1>3. [by |-> actor, data |-> f] \in Upload
  BY <1>2 DEF Upload
<1>4. last' \in [Kinds -> Nat] /\ files' \in [File -> Upload \cup {None}]
  BY <1>1, <1>2, <1>3 DEF FilesTyped, saveFile
<1>5. UNCHANGED <<texts, deletion, work, shelf>>
  BY DEF saveFile
<1> QED
  BY <1>4, <1>5 DEF FilesTyped, NumbersOfShelf

LEMMA FileSaved ==
    ASSUME FilesTyped, DeletesUnused, fileOps <= MaxFileOps, UploadImage \/ UploadAttachment
    PROVE  FilesTyped' /\ DeletesUnused'
<1>1. PICK kind \in Kinds : saveFile(kind, "user")
  BY DEF UploadImage, UploadAttachment, Kinds
<1>2. FilesTyped'
  BY <1>1, SaveFileTyped
<1>3. UNCHANGED <<db, texts, deletion>> /\ FileRequest
  BY <1>1 DEF saveFile, readVars, spaceVars, UploadImage, UploadAttachment
<1> QED
  BY <1>2, <1>3, StillUnused

\* No page that uses the file counts, so none shows it.
LEMMA CountsAll ==
    ASSUME FilesTyped, NEW f, UsageCount(f) = 0
    PROVE  ShownNowhere(f)
<1> DEFINE Users == {i \in Ids : db.slug[i] # None /\ \E form \in {"url", "code"} : <<form, f>> \in texts[i]}
<1>1. IsFiniteSet(Users)
  BY FinitePaths, FS_Subset
<1>2. Users = {}
  BY <1>1, FS_EmptySet DEF UsageCount
<1>3. ASSUME NEW i \in Ids, db.slug[i] # None, f \in ReferencedFiles(texts[i]) PROVE FALSE
  <2>1. PICK r \in texts[i] : r[1] = "url" /\ r[2] = f
    BY <1>3 DEF ReferencedFiles, Ranges
  <2>2. r = <<"url", f>>
    BY <2>1, ReferenceParts DEF FilesTyped
  <2> QED
    BY <1>2, <1>3, <2>1, <2>2
<1> QED
  BY <1>3 DEF ShownNowhere

LEMMA DeletionBegins ==
    ASSUME FilesTyped, DeletesUnused, fileOps <= MaxFileOps, NEW f \in File, DeleteFile(f)
    PROVE  FilesTyped' /\ DeletesUnused'
<1>1. /\ UNCHANGED <<db, files, last, texts, work, shelf>>
      /\ deletion' = [file |-> f, alone |-> TRUE]
  BY DEF DeleteFile, readVars, spaceVars
<1>2. deletion' \in Deletion
  BY <1>1 DEF Deletion
<1>3. ShownNowhere(f)
  BY CountsAll DEF DeleteFile, authorizeMediaDeletion
<1>4. fileOps' \in Nat /\ ~(fileOps' > MaxFileOps)
  BY ArchiveConstants DEF DeletesUnused, DeleteFile, FileRequest
<1>5. ShownNowhere(f)' /\ deletion'.file = f
  BY <1>1, <1>3 DEF ShownNowhere
<1> QED
  BY <1>1, <1>2, <1>4, <1>5 DEF FilesTyped, NumbersOfShelf, DeletesUnused, ShownNowhere

LEMMA FileDeleted ==
    ASSUME FilesTyped, DeletesUnused, fileOps <= MaxFileOps,
           FinishDeletion \/ \E f \in File : DeleteAdminAttachment(f)
    PROVE  FilesTyped' /\ DeletesUnused'
<1>1. /\ UNCHANGED <<db, last, texts, work, shelf>> /\ files' \in [File -> Upload \cup {None}]
      /\ deletion' = deletion \/ deletion' = None
      /\ fileOps' = fileOps \/ FileRequest
  BY DEF FilesTyped, FinishDeletion, DeleteAdminAttachment, readVars, spaceVars
<1>2. FilesTyped'
  BY <1>1 DEF FilesTyped, NumbersOfShelf
<1> QED
  BY <1>1, <1>2, StillUnused

\* An administrator's export goes on, or is given up.
LEMMA WorkGoesOn ==
    ASSUME FilesTyped, DeletesUnused, fileOps <= MaxFileOps, NEW new \in ShelfWork,
           new.client = None \/ (new.client = work.client /\ new.new = work.new),
           Work(new), shelf' = shelf
    PROVE  FilesTyped' /\ DeletesUnused'
<1>1. UNCHANGED <<db, files, last, texts, deletion, shelf, fileOps>> /\ work' = new
  BY DEF Work, readVars, spaceVars
<1>2. FilesTyped'
  BY <1>1 DEF FilesTyped, NumbersOfShelf
<1> QED
  BY <1>1, <1>2, StillUnused

LEMMA GivenUp ==
    ASSUME FilesTyped, DeletesUnused, fileOps <= MaxFileOps, Work(NoJob), shelf' = shelf
    PROVE  FilesTyped' /\ DeletesUnused'
  BY NothingUnderWay, WorkGoesOn

LEMMA ExportBegins ==
    ASSUME FilesTyped, DeletesUnused, fileOps <= MaxFileOps,
           NEW paths \in SUBSET Paths, NEW portable \in BOOLEAN, StartExport(paths, portable)
    PROVE  FilesTyped' /\ DeletesUnused'
<1>1. SetToSeq(paths) \in Seq(Paths)
  BY SubsetsFinite, SequenceOfSet
<1>2. work' = [NoJob EXCEPT !.step = "export", !.portable = portable, !.todo = SetToSeq(paths)]
  BY DEF StartExport
<1>3. work' \in ShelfWork /\ work'.client = None
  BY <1>1, <1>2, NothingUnderWay DEF ShelfWork
<1>4. UNCHANGED <<db, files, last, texts, deletion, shelf>> /\ FileRequest
  BY DEF StartExport, readVars, spaceVars
<1>5. FilesTyped'
  BY <1>3, <1>4 DEF FilesTyped, NumbersOfShelf
<1> QED
  BY <1>4, <1>5, StillUnused

LEMMA ShownFiles ==
    ASSUME FilesTyped, NEW text \in SUBSET Reference
    PROVE  Showing(files, text) \subseteq File
  BY Referenced DEF FilesTyped, Showing, Upload

LEMMA PageWritten ==
    ASSUME FilesTyped, DeletesUnused, fileOps <= MaxFileOps, WritePage
    PROVE  FilesTyped' /\ DeletesUnused'
<1>1. shelf' = shelf /\ work.todo # <<>>
  BY DEF WritePage
<1>2. CASE Work(NoJob)
  BY <1>1, <1>2, GivenUp
<1>3. CASE ~Work(NoJob)
  <2> DEFINE path == Head(work.todo)
  <2>1. PICK i \in GetPage(db, path) :
           Work([work EXCEPT
                    !.todo = Tail(@),
                    !.need = IF work.portable THEN ReferencedFiles(texts[i]) ELSE ImagesOf(texts[i]),
                    !.out.pages = @ \cup {[slug |-> path, text |-> rewriteMarkdown(texts[i]),
                                           showed |-> Showing(files, texts[i])]}])
    BY <1>3 DEF WritePage
  <2>2. i \in Ids /\ texts[i] \in SUBSET Reference
    BY <2>1 DEF GetPage, Live, FilesTyped
  <2>3. PICK archived : archived = [slug |-> path, text |-> rewriteMarkdown(texts[i]), showed |-> Showing(files, texts[i])]
    OBVIOUS
  <2>4. work \in ShelfWork
    BY DEF FilesTyped
  <2>5. path \in Paths /\ Tail(work.todo) \in Seq(Paths)
    BY <1>1, <2>4 DEF ShelfWork
  <2>6. archived \in ArchivedPage
    BY <2>2, <2>3, <2>5, Referenced, ShownFiles DEF ArchivedPage
  <2>7. PICK need : need = IF work.portable THEN ReferencedFiles(texts[i]) ELSE ImagesOf(texts[i])
    OBVIOUS
  <2>8. need \in SUBSET File
    BY <2>2, <2>7, Referenced
  <2>9. PICK todo_ : todo_ = Tail(work.todo)
    OBVIOUS
  <2>10. PICK out : out = [work.out EXCEPT !.pages = @ \cup {archived}]
    OBVIOUS
  <2>11. out \in Archive
    BY <2>4, <2>6, <2>10 DEF ShelfWork, Archive
  <2>12. PICK new : new = [work EXCEPT !.todo = todo_, !.need = need, !.out = out]
    OBVIOUS
  <2>13. Work(new)
    BY <2>1, <2>3, <2>7, <2>9, <2>10, <2>12
  <2>14. new \in ShelfWork /\ new.client = work.client /\ new.new = work.new
    BY <2>4, <2>5, <2>8, <2>9, <2>11, <2>12 DEF ShelfWork
  <2> QED
    BY <1>1, <2>13, <2>14, WorkGoesOn
<1> QED
  BY <1>2, <1>3

LEMMA ResourceWritten ==
    ASSUME FilesTyped, DeletesUnused, fileOps <= MaxFileOps, WriteResource
    PROVE  FilesTyped' /\ DeletesUnused'
<1>1. shelf' = shelf
  BY DEF WriteResource
<1>2. PICK f \in work.need :
         IF AlreadyWritten(f) \/ files[f] # None
         THEN Work([work EXCEPT !.need = @ \ {f}, !.out.resources = exportResource(f)])
         ELSE Work(NoJob)
  BY DEF WriteResource
<1>3. CASE ~(AlreadyWritten(f) \/ files[f] # None)
  BY <1>1, <1>2, <1>3, GivenUp
<1>4. CASE AlreadyWritten(f) \/ files[f] # None
  <2>1. work \in ShelfWork /\ files \in [File -> Upload \cup {None}]
    BY DEF FilesTyped
  <2>2. f \in File /\ work.out \in Archive /\ work.out.resources \in Seq(Resource)
    BY <2>1 DEF ShelfWork, Archive
  <2>3. PICK resource : resource = [section |-> f[1], file |-> f, data |-> files[f].data]
    OBVIOUS
  <2>4. files[f] # None => resource \in Resource
    BY <2>1, <2>2, <2>3, FileParts DEF Upload, Resource
  <2>5. exportResource(f) \in Seq(Resource)
    <3>1. CASE AlreadyWritten(f)
      BY <2>2, <3>1 DEF exportResource
    <3>2. CASE ~AlreadyWritten(f)
      <4>1. exportResource(f) = Append(work.out.resources, resource) /\ resource \in Resource
        BY <1>4, <2>3, <2>4, <3>2 DEF exportResource
      <4> QED
        BY <2>2, <4>1
    <3> QED
      BY <3>1, <3>2
  <2>6. PICK out : out = [work.out EXCEPT !.resources = exportResource(f)]
    OBVIOUS
  <2>7. out \in Archive
    BY <2>2, <2>5, <2>6 DEF Archive
  <2>8. PICK new : new = [work EXCEPT !.need = @ \ {f}, !.out = out]
    OBVIOUS
  <2>9. Work(new)
    BY <1>2, <1>4, <2>6, <2>8
  <2>10. new \in ShelfWork /\ new.client = work.client /\ new.new = work.new
    BY <2>1, <2>7, <2>8 DEF ShelfWork
  <2> QED
    BY <1>1, <2>9, <2>10, WorkGoesOn
<1> QED
  BY <1>3, <1>4

LEMMA ExportEnds ==
    ASSUME FilesTyped, DeletesUnused, fileOps <= MaxFileOps, FinishExport
    PROVE  FilesTyped' /\ DeletesUnused'
<1>1. shelf' \in Archive
  BY DEF FinishExport, FilesTyped, ShelfWork
<1>2. UNCHANGED <<db, files, last, texts, deletion, fileOps>> /\ work' = NoJob
  BY DEF FinishExport, Work, readVars, spaceVars
<1>3. FilesTyped'
  BY <1>1, <1>2, NothingUnderWay DEF FilesTyped, NumbersOfShelf
<1> QED
  BY <1>2, <1>3, StillUnused

\* The n-th file of a kind gets the n-th of the next numbers.
LEMMA NumbersGiven ==
    ASSUME FilesTyped, readArchiveResources(shelf.resources),
           \A k \in Kinds : last[k] + Cardinality(OfKind(shelf.resources, k)) <= MaxFiles
    PROVE  /\ uploaded(shelf.resources) \in Numbers
           /\ \A f \in DOMAIN uploaded(shelf.resources) : \E k \in DOMAIN shelf.resources : shelf.resources[k].file = f
<1> DEFINE resources == shelf.resources
           stored == {resources[k].file : k \in DOMAIN resources}
           at(f) == CHOOSE k \in DOMAIN resources : resources[k].file = f
           before(f) == {k \in OfKind(resources, f[1]) : k <= at(f)}
<1>1. resources \in Seq(Resource)
  BY DEF FilesTyped, Archive
<1>2. Len(resources) \in Nat /\ DOMAIN resources = 1..Len(resources)
  BY <1>1
<1>3. \A k \in DOMAIN resources : resources[k].file \in File /\ resources[k].section = resources[k].file[1]
  <2>1. \A k \in DOMAIN resources : resources[k].section = resources[k].file[1]
    BY DEF readArchiveResources
  <2>2. \A k \in DOMAIN resources : resources[k] \in Resource
    BY <1>1, <1>2
  <2> QED
    BY <2>1, <2>2 DEF Resource
<1>4. stored \in SUBSET File
  BY <1>3
<1>5. ASSUME NEW f \in stored
      PROVE  <<f[1], last[f[1]] + Cardinality(before(f))>> \in File
  <2>1. PICK n : n = at(f)
    OBVIOUS
  <2>2. n \in DOMAIN resources /\ resources[n].file = f
    BY <1>5, <2>1
  <2>3. f \in File /\ f[1] \in Kinds
    BY <1>4, <1>5, FileParts
  <2>4. n \in OfKind(resources, f[1]) /\ n \in Nat
    BY <1>2, <1>3, <2>2 DEF OfKind
  <2>5. IsFiniteSet(DOMAIN resources)
    BY <1>2, FS_Interval
  <2>6. IsFiniteSet(OfKind(resources, f[1]))
    BY <2>5, FS_Subset DEF OfKind
  <2>7. PICK S : S = before(f)
    OBVIOUS
  <2>8. S \in SUBSET OfKind(resources, f[1]) /\ n \in S
    BY <2>1, <2>4, <2>7
  <2>9. IsFiniteSet(S) /\ Cardinality(S) <= Cardinality(OfKind(resources, f[1]))
    BY <2>6, <2>8, FS_Subset
  <2>10. Cardinality(S) \in Nat /\ Cardinality(S) # 0 /\ Cardinality(OfKind(resources, f[1])) \in Nat
    BY <2>6, <2>8, <2>9, FS_CardinalityType, FS_EmptySet
  <2>11. last[f[1]] \in Nat /\ last[f[1]] + Cardinality(OfKind(resources, f[1])) <= MaxFiles
    BY <2>3 DEF FilesTyped
  <2>12. last[f[1]] + Cardinality(S) \in 1..MaxFiles
    BY <2>9, <2>10, <2>11, ArchiveConstants
  <2> QED
    BY <2>3, <2>7, <2>12 DEF File
<1>6. uploaded(resources) = [f \in stored |-> <<f[1], last[f[1]] + Cardinality(before(f))>>]
  BY DEF uploaded
<1> HIDE DEF before
<1>7. uploaded(resources) \in [stored -> File]
  BY <1>5, <1>6
<1>8. uploaded(resources) \in Numbers
  BY <1>4, <1>7 DEF Numbers
<1> QED
  BY <1>7, <1>8

LEMMA BeginKeeps ==
    ASSUME NEW c, NEW tasks, Begin(c, tasks)
    PROVE  db' = db
  BY DEF Begin

LEMMA RestoreBegins ==
    ASSUME TablesTyped, FilesTyped, DeletesUnused, fileOps <= MaxFileOps, NEW c \in Clients, Restore(c)
    PROVE  TablesTyped' /\ FilesTyped' /\ DeletesUnused'
<1>1. PICK slugs : slugs = {p.slug : p \in shelf.pages}
  OBVIOUS
<1>2. ImportPortablePages(c, slugs, FALSE)
  BY <1>1 DEF Restore
<1>3. shelf.pages \in SUBSET ArchivedPage /\ shelf.pages # {}
  BY DEF FilesTyped, Archive, Restore, Parse, readArchivePages
<1>4. slugs \in SUBSET Paths /\ slugs # {}
  BY <1>1, <1>3 DEF ArchivedPage
<1>5. TablesTyped' /\ db' = db
  BY <1>2, <1>4, ImportPortableTyped, BeginKeeps DEF ImportPortablePages
<1>6. PICK grown : grown = [k \in Kinds |-> last[k] + Cardinality(OfKind(shelf.resources, k))]
  OBVIOUS
<1>7. (\A k \in Kinds : grown[k] <= MaxFiles) /\ last' = grown
  BY <1>6 DEF Restore
<1>8. readArchiveResources(shelf.resources)
  BY DEF Restore, Parse
<1>9. \A k \in Kinds : last[k] + Cardinality(OfKind(shelf.resources, k)) <= MaxFiles
  BY <1>6, <1>7
<1>10. PICK new : new = uploaded(shelf.resources)
  OBVIOUS
<1>11. new \in Numbers /\ \A f \in DOMAIN new : \E k \in DOMAIN shelf.resources : shelf.resources[k].file = f
  BY <1>8, <1>9, <1>10, NumbersGiven
<1>12. work' = [NoJob EXCEPT !.step = "restore", !.client = c, !.new = new] /\ shelf' = shelf
  BY <1>10 DEF Restore
<1>13. work' \in ShelfWork /\ work'.new = new
  BY <1>11, <1>12, NothingUnderWay DEF ShelfWork
<1>14. \A k \in Kinds : grown[k] \in Nat
  <2> SUFFICES ASSUME NEW k \in Kinds PROVE grown[k] \in Nat
    OBVIOUS
  <2>1. shelf.resources \in Seq(Resource)
    BY DEF FilesTyped, Archive
  <2>2. IsFiniteSet(DOMAIN shelf.resources)
    BY <2>1, FS_Interval
  <2>3. IsFiniteSet(OfKind(shelf.resources, k))
    BY <2>2, FS_Subset DEF OfKind
  <2>4. Cardinality(OfKind(shelf.resources, k)) \in Nat /\ last[k] \in Nat
    BY <2>3, FS_CardinalityType DEF FilesTyped
  <2> QED
    BY <1>6, <2>4
<1>15. last' \in [Kinds -> Nat]
  BY <1>6, <1>7, <1>14
<1>16. UNCHANGED <<files, texts, deletion, shelf>> /\ FileRequest
  BY DEF Restore
<1>17. NumbersOfShelf'
  BY <1>11, <1>13, <1>16 DEF NumbersOfShelf
<1>18. FilesTyped'
  BY <1>13, <1>15, <1>16, <1>17 DEF FilesTyped
<1> QED
  BY <1>5, <1>16, <1>18, StillUnused

\* Only a commit gives a path to an identity that had none.
LEMMA NoNewPages ==
    ASSUME TablesTyped, PageStep
    PROVE  /\ TablesTyped'
           /\ (\A c \in Clients : ~Commits(c)) => \A i \in Ids : db'.slug[i] # None => db.slug[i] # None
<1> DEFINE Keeps == TablesTyped' /\ \A i \in Ids : db'.slug[i] # None => db.slug[i] # None
<1>1. ASSUME NEW c \in Clients, NEW from \in Sources, NEW to \in Targets, MovePage(c, "user", from, to, FALSE)
      PROVE  Keeps
  <2>1. TablesTyped'
    BY <1>1, MovePageTyped
  <2> QED
    BY <1>1, <2>1, BeginKeeps DEF MovePage
<1>2. ASSUME NEW c \in Clients, NEW from \in Sources, Save(c, "user", from, from, FALSE, {})
      PROVE  Keeps
  <2>1. from \in Paths /\ {} \in SUBSET Settable
    BY FinitePaths
  <2>2. TablesTyped'
    BY <1>2, <2>1, SaveTyped
  <2> QED
    BY <1>2, <2>2, BeginKeeps DEF Save
<1>3. ASSUME NEW c \in Clients, NEW i \in Ids, PermanentlyDeletePage(c, i) PROVE Keeps
  <2>1. TablesTyped'
    BY <1>3, PurgeTyped
  <2>2. db'.slug = [db.slug EXCEPT ![i] = None]
    BY <1>3 DEF PermanentlyDeletePage, TablesTyped, Tables
  <2>3. db.slug \in [Ids -> Paths \cup {None}]
    BY DEF TablesTyped, Tables
  <2> QED
    BY <2>1, <2>2, <2>3
<1>4. CASE PageRequest
  BY <1>1, <1>2, <1>3, <1>4 DEF PageRequest
<1>5. ASSUME NEW c \in Clients, ReadMoved(c) \/ savePageRecord(c) \/ WriteTask(c) \/ Rollback(c) \/ InvalidateIcons(c)
      PROVE  Keeps
  <2>1. db' = db
    BY <1>5 DEF ReadMoved, savePageRecord, WriteTask, Rollback, InvalidateIcons, Found
  <2>2. TablesTyped'
    BY <1>5, ReadMovedTyped, SavePageRecordTyped, WriteTaskTyped, RollbackTyped, InvalidateTyped
  <2> QED
    BY <2>1, <2>2
<1>6. ASSUME NEW c \in Clients, Commit(c) PROVE TablesTyped' /\ Commits(c)
  <2>1. TablesTyped'
    BY <1>6, CommitTyped
  <2>2. tx' = Changed(c, "invalidate")
    BY <1>6 DEF Commit
  <2>3. PICK t : t = [todo |-> <<>>, found |-> None, writes |-> <<>>, rest |-> tx[c].rest,
                      alone |-> TRUE, step |-> "invalidate"]
    OBVIOUS
  <2>4. Changed(c, "invalidate")[c] = t
    BY <2>3, OwnChange
  <2>5. t.step = "invalidate"
    BY <2>3
  <2> QED
    BY <1>6, <2>1, <2>2, <2>4, <2>5 DEF Commit, Commits
<1>7. ASSUME NEW bin \in SUBSET Ids, db' = [db EXCEPT !.bin = bin] PROVE db'.slug = db.slug
  BY <1>7 DEF TablesTyped, Tables
<1>8. ASSUME NEW i \in Ids, BulkDeletePages({i}) PROVE Keeps
  <2>1. TablesTyped'
    BY <1>8, BulkDeleteTyped
  <2>2. db.bin \cup {i} \in SUBSET Ids /\ db' = [db EXCEPT !.bin = db.bin \cup {i}]
    BY <1>8 DEF BulkDeletePages, Statement, TablesTyped, Tables
  <2> QED
    BY <1>7, <2>1, <2>2
<1>9. ASSUME NEW i \in Ids, RestorePage(i) PROVE Keeps
  <2>1. TablesTyped'
    BY <1>9, RestoreTyped
  <2>2. db.bin \ {i} \in SUBSET Ids /\ db' = [db EXCEPT !.bin = db.bin \ {i}]
    BY <1>9 DEF RestorePage, Statement, TablesTyped, Tables
  <2> QED
    BY <1>7, <2>1, <2>2
<1>10. \/ PageRequest
       \/ \E c \in Clients :
             ReadMoved(c) \/ savePageRecord(c) \/ WriteTask(c) \/ Commit(c) \/ Rollback(c) \/ InvalidateIcons(c)
       \/ \E i \in Ids : BulkDeletePages({i}) \/ RestorePage(i)
  BY DEF PageStep
<1> QED
  BY <1>4, <1>5, <1>6, <1>8, <1>9, <1>10

\* What a commit publishes.
LEMMA PublishTyped ==
    ASSUME FilesTyped, NEW c \in Clients,
           \/ work.client = c /\ PublishRestore(c)
           \/ PublishSave(c)
    PROVE  /\ files' \in [File -> Upload \cup {None}] /\ texts' \in [Ids -> SUBSET Reference]
           /\ work' \in {NoJob, work}
<1>1. CASE PublishSave(c)
  <2>1. PICK text \in Texts : texts' = [i \in Ids |-> IF i \in SavedBy(c) THEN text ELSE texts[i]]
    BY <1>1 DEF PublishSave
  <2>2. texts' \in [Ids -> SUBSET Reference]
    BY <2>1, ArchiveConstants DEF FilesTyped
  <2> QED
    BY <1>1, <2>2 DEF PublishSave, FilesTyped
<1>2. CASE work.client = c /\ PublishRestore(c)
  <2>1. work \in ShelfWork /\ shelf \in Archive /\ work.new \in Numbers
    BY DEF FilesTyped, ShelfWork
  <2>2. DOMAIN work.new \subseteq File /\ \A g \in DOMAIN work.new : work.new[g] \in File
    BY <2>1 DEF Numbers
  <2>3. \A g \in DOMAIN work.new : \E k \in DOMAIN shelf.resources : shelf.resources[k].file = g
    BY <1>2, FinitePaths DEF FilesTyped, NumbersOfShelf
  <2>4. \A k \in DOMAIN shelf.resources : shelf.resources[k].data \in File
    <3>1. \A k \in DOMAIN shelf.resources : shelf.resources[k] \in Resource
      BY <2>1 DEF Archive
    <3> QED
      BY <3>1 DEF Resource
  <2>5. ASSUME NEW f \in File PROVE RestoreFiles[f] \in Upload \cup {None}
    <3>1. CASE \E g \in DOMAIN work.new : work.new[g] = f
      <4>1. PICK g : g = CHOOSE h \in DOMAIN work.new : work.new[h] = f
        OBVIOUS
      <4>2. g \in DOMAIN work.new
        BY <3>1, <4>1
      <4>3. PICK k : k = CHOOSE l \in DOMAIN shelf.resources : shelf.resources[l].file = g
        OBVIOUS
      <4>4. k \in DOMAIN shelf.resources
        BY <2>3, <4>2, <4>3
      <4>5. RestoreFiles[f] = [by |-> "administrator", data |-> shelf.resources[k].data]
        BY <3>1, <4>1, <4>3, <2>5 DEF RestoreFiles
      <4> QED
        BY <2>4, <4>4, <4>5 DEF Upload
    <3>2. CASE ~ \E g \in DOMAIN work.new : work.new[g] = f
      BY <2>5, <3>2 DEF RestoreFiles, FilesTyped
    <3> QED
      BY <3>1, <3>2
  <2>6. files' = [f \in File |-> RestoreFiles[f]]
    BY <1>2 DEF PublishRestore, RestoreFiles
  <2>7. files' \in [File -> Upload \cup {None}]
    BY <2>5, <2>6
  <2>8. ASSUME NEW d, NEW i \in Ids PROVE RestoredText(d, i) \in SUBSET Reference
    <3>1. CASE \E p \in shelf.pages : p.slug = d.slug[i]
      <4>1. PICK p : p = CHOOSE q \in shelf.pages : q.slug = d.slug[i]
        OBVIOUS
      <4>2. p \in shelf.pages
        BY <3>1, <4>1
      <4>3. p.text \in SUBSET Reference
        BY <2>1, <4>2 DEF Archive, ArchivedPage
      <4> QED
        BY <2>1, <3>1, <4>1, <4>3, RestoredReferences DEF RestoredText
    <3>2. CASE ~ \E p \in shelf.pages : p.slug = d.slug[i]
      BY <3>2 DEF RestoredText, FilesTyped
    <3> QED
      BY <3>1, <3>2
  <2>9. PICK d : d = db'
    OBVIOUS
  <2>10. texts' = [i \in Ids |-> IF i \in SavedBy(c) THEN RestoredText(d, i) ELSE texts[i]]
    BY <1>2, <2>9 DEF PublishRestore
  <2>11. texts' \in [Ids -> SUBSET Reference]
    BY <2>8, <2>10 DEF FilesTyped
  <2> QED
    BY <1>2, <2>7, <2>11 DEF PublishRestore
<1> QED
  BY <1>1, <1>2

LEMMA PagesChange ==
    ASSUME TablesTyped, FilesTyped, DeletesUnused, PageStep
    PROVE  TablesTyped' /\ FilesTyped' /\ DeletesUnused'
<1>1. UNCHANGED <<last, shelf, fileOps>>
  BY DEF PageStep
<1>2. \/ /\ files' \in [File -> Upload \cup {None}] /\ texts' \in [Ids -> SUBSET Reference]
         /\ work' \in {NoJob, work} /\ \E c \in Clients : Commits(c)
      \/ UNCHANGED <<files, texts>> /\ work' \in {NoJob, work} /\ \A c \in Clients : ~Commits(c)
  BY PublishTyped DEF PageStep
<1>3. files' \in [File -> Upload \cup {None}] /\ texts' \in [Ids -> SUBSET Reference] /\ work' \in {NoJob, work}
  BY <1>2 DEF FilesTyped
<1>4. deletion' = IF deletion # None /\ \E c \in Clients : Commits(c) THEN [deletion EXCEPT !.alone = FALSE]
                  ELSE deletion
  BY DEF PageStep
<1>5. deletion' \in Deletion \cup {None}
  BY <1>4 DEF FilesTyped, Deletion
<1>6. FilesTyped'
  <2>1. work' \in ShelfWork /\ NumbersOfShelf'
    BY <1>1, <1>3, NothingUnderWay DEF FilesTyped, NumbersOfShelf
  <2> QED
    BY <1>1, <1>3, <1>5, <2>1 DEF FilesTyped
<1>7. TablesTyped'
  BY NoNewPages
<1>8. deletion = None => deletion' = None
  BY <1>4
<1>9. CASE \E c \in Clients : Commits(c)
  <2>1. deletion # None => deletion'.alone = FALSE
    BY <1>4, <1>9 DEF FilesTyped, Deletion
  <2> QED
    BY <1>1, <1>6, <1>7, <1>8, <2>1 DEF DeletesUnused
<1>10. CASE \A c \in Clients : ~Commits(c)
  <2>1. UNCHANGED <<texts, deletion>> /\ \A i \in Ids : db'.slug[i] # None => db.slug[i] # None
    BY <1>2, <1>4, <1>10, NoNewPages
  <2> QED
    BY <1>1, <1>6, <1>7, <2>1 DEF DeletesUnused, ShownNowhere
<1> QED
  BY <1>9, <1>10

LEMMA FileSteps ==
    ASSUME TablesTyped, FilesTyped, DeletesUnused, fileOps <= MaxFileOps, FileStep
    PROVE  TablesTyped' /\ FilesTyped' /\ DeletesUnused'
<1>1. UNCHANGED spaceVars => TablesTyped'
  BY SpaceStepTyped
<1>2. ASSUME NEW c \in Clients, Restore(c) PROVE TablesTyped' /\ FilesTyped' /\ DeletesUnused'
  BY <1>2, RestoreBegins
<1>3. ASSUME NEW paths \in SUBSET Paths, ExportPortablePages(paths)
      PROVE  UNCHANGED spaceVars /\ FilesTyped' /\ DeletesUnused'
  <2>1. StartExport(paths, TRUE)
    BY <1>3 DEF ExportPortablePages
  <2> QED
    BY <2>1, ExportBegins DEF StartExport, readVars
<1>4. ASSUME NEW path \in Paths, ExportPageMarkdown(path) \/ PreviewPageExport(path)
      PROVE  UNCHANGED spaceVars /\ FilesTyped' /\ DeletesUnused'
  <2>1. StartExport({path}, FALSE) /\ {path} \in SUBSET Paths
    BY <1>4 DEF ExportPageMarkdown, PreviewPageExport
  <2> QED
    BY <2>1, ExportBegins DEF StartExport, readVars
<1>5. CASE UploadImage \/ UploadAttachment
  BY <1>1, <1>5, FileSaved DEF UploadImage, UploadAttachment, saveFile, readVars
<1>6. ASSUME NEW f \in File, DeleteFile(f) PROVE UNCHANGED spaceVars /\ FilesTyped' /\ DeletesUnused'
  BY <1>6, DeletionBegins DEF DeleteFile, readVars
<1>7. CASE FinishDeletion \/ \E f \in File : DeleteAdminAttachment(f)
  BY <1>1, <1>7, FileDeleted DEF FinishDeletion, DeleteAdminAttachment, readVars
<1>8. CASE WritePage
  BY <1>1, <1>8, PageWritten DEF WritePage, Work, readVars
<1>9. CASE WriteResource
  BY <1>1, <1>9, ResourceWritten DEF WriteResource, Work, readVars
<1>10. CASE FinishExport
  BY <1>1, <1>10, ExportEnds DEF FinishExport, Work, readVars
<1> QED
  BY <1>2, <1>3, <1>4, <1>5, <1>6, <1>7, <1>8, <1>9, <1>10, <1>1 DEF FileStep, ImageRequest, AttachmentRequest

LEMMA ArchiveStep ==
    ASSUME TablesTyped, FilesTyped, DeletesUnused, [ArchiveNext]_archiveVars
    PROVE  TablesTyped' /\ FilesTyped' /\ DeletesUnused'
<1>1. CASE fileOps > MaxFileOps /\ ReadNext /\ UNCHANGED fileVars
  <2>1. [SpaceNext]_spaceVars
    BY <1>1, ReadersAct
  <2>2. TablesTyped'
    BY <2>1, SpaceStepTyped
  <2> QED
    BY <1>1, <2>2 DEF fileVars, FilesTyped, NumbersOfShelf, DeletesUnused
<1>2. CASE UNCHANGED archiveVars
  <2>1. UNCHANGED spaceVars /\ UNCHANGED <<db, fileVars>>
    BY <1>2 DEF archiveVars, readVars, spaceVars
  <2>2. TablesTyped'
    BY <2>1, SpaceStepTyped
  <2> QED
    BY <2>1, <2>2 DEF fileVars, FilesTyped, NumbersOfShelf, DeletesUnused, ShownNowhere
<1>3. CASE fileOps <= MaxFileOps /\ FileStep
  BY <1>3, FileSteps
<1>4. CASE fileOps <= MaxFileOps /\ PageStep
  BY <1>4, PagesChange
<1> QED
  BY <1>1, <1>2, <1>3, <1>4 DEF ArchiveNext

\* What is deleted: one file that no page shows.
LEMMA NothingShown ==
    ASSUME FilesTyped, DeletesUnused, FinishDeletion, deletion.alone, NEW i \in Ids, db.slug[i] # None
    PROVE  Showing(files', texts'[i]) = Showing(files, texts[i])
<1>1. deletion \in Deletion /\ deletion.file \in File
  BY DEF FilesTyped, FinishDeletion, Deletion
<1>2. texts' = texts /\ files' = [files EXCEPT ![deletion.file] = None]
  BY DEF FinishDeletion
<1>3. deletion.file \notin ReferencedFiles(texts[i])
  BY DEF DeletesUnused, FinishDeletion, ShownNowhere
<1>4. ReferencedFiles(texts[i]) \subseteq File
  BY Referenced DEF FilesTyped
<1>5. \A f \in ReferencedFiles(texts[i]) : files'[f] = files[f]
  BY <1>1, <1>2, <1>3, <1>4 DEF FilesTyped
<1>6. Showing(files', texts[i]) = Showing(files, texts[i])
  BY <1>5 DEF Showing
<1> QED
  BY <1>2, <1>6

\* Only the end of a member's deletion takes it away.
LEMMA OnlyFinished ==
    ASSUME FilesTyped, DeletesUnused, [ArchiveNext]_archiveVars, deletion # None, deletion' = None
    PROVE  FinishDeletion
<1>1. ~(fileOps > MaxFileOps)
  BY DEF DeletesUnused
<1>2. CASE PageStep
  <2>1. deletion' = deletion \/ deletion' = [deletion EXCEPT !.alone = FALSE]
    BY <1>2 DEF PageStep
  <2>2. deletion' \in Deletion
    BY <2>1 DEF FilesTyped, Deletion
  <2> QED
    BY <2>2, ArchiveConstants
<1>3. CASE UNCHANGED archiveVars
  BY <1>3 DEF archiveVars, fileVars
<1>4. CASE FileStep
  BY <1>4 DEF FileStep, ImageRequest, AttachmentRequest, UploadImage, UploadAttachment, saveFile, DeleteFile,
              DeleteAdminAttachment, ExportPortablePages, ExportPageMarkdown, PreviewPageExport, StartExport,
              WritePage, WriteResource, FinishExport, Work, Restore
<1> QED
  BY <1>1, <1>2, <1>3, <1>4 DEF ArchiveNext

\* Files, texts, the shelf and what is under way stay what they are, and a
\* file that a member is about to delete is shown by no page.
THEOREM ArchiveInvariance == ArchiveSpec => [](TablesTyped /\ FilesTyped /\ DeletesUnused)
<1>1. ArchiveInit => TablesTyped /\ FilesTyped /\ DeletesUnused
  BY SpaceStartsTyped, FilesStart DEF ArchiveInit, ReadInit
<1>2. TablesTyped /\ FilesTyped /\ DeletesUnused /\ [ArchiveNext]_archiveVars
         => (TablesTyped /\ FilesTyped /\ DeletesUnused)'
  BY ArchiveStep
<1> QED
  BY <1>1, <1>2, PTL DEF ArchiveSpec

\* The deletion of a member takes no file away from a page, also none in the
\* recycle bin, unless a text changed while the deletion was under way.
THEOREM DeletionsTakeNothing == ArchiveSpec => UsedFilesStay
<1> DEFINE Taken == deletion # None /\ deletion' = None /\ deletion.alone =>
                       \A i \in Ids : db.slug[i] # None =>
                           Showing(files', texts'[i]) = Showing(files, texts[i])
<1>1. TablesTyped /\ FilesTyped /\ DeletesUnused /\ [ArchiveNext]_archiveVars => [Taken]_archiveVars
  BY OnlyFinished, NothingShown
<1> QED
  BY <1>1, ArchiveInvariance, PTL DEF ArchiveSpec, UsedFilesStay

-----------------------------------------------------------------------------
(* What archives hold, and what is restored from them.                      *)

\* A number of a sequence is given once.
Given(n, f) == f[2] <= n[f[1]]

StoredGiven(stored, n) == \A f \in File : stored[f] # None => Given(n, f)

HasFile(out, f) == \E k \in DOMAIN out.resources : out.resources[k].file = f

HasData(out, f, data) == \E k \in DOMAIN out.resources : out.resources[k].file = f /\ out.resources[k].data = data

\* What an archive shows of a page is in one of its resources, and the page
\* refers to it.
Complete(out) == \A p \in out.pages : \A data \in p.showed : \E f \in File : <<"relative", f>> \in p.text /\ HasData(out, f, data)

\* Or it has still to be written: it is that file's, or the file is gone.
Awaited(w, n, stored, f, data) ==
    /\ f \in w.need /\ Given(n, f) /\ ~HasFile(w.out, f)
    /\ stored[f] # None => stored[f].data = data

Covered(w, n, stored) ==
    w.portable => \A p \in w.out.pages : \A data \in p.showed : \E f \in File :
        <<"relative", f>> \in p.text /\ (HasData(w.out, f, data) \/ Awaited(w, n, stored, f, data))

\* What was written of a file is the file's, or the file is gone.
Collected(resources, n, stored) ==
    \A k \in DOMAIN resources :
        /\ Given(n, resources[k].file)
        /\ stored[resources[k].file] # None => stored[resources[k].file].data = resources[k].data

\* Each page is written once.
Listed(pages, paths) ==
    /\ pages # {} \/ paths # <<>>
    /\ \A k, l \in DOMAIN paths : paths[k] = paths[l] => k = l
    /\ \A p \in pages, k \in DOMAIN paths : p.slug # paths[k]
    /\ \A p, q \in pages : p.slug = q.slug => p = q

Exported(w, n, stored) ==
    w.step = "export" =>
        /\ Listed(w.out.pages, w.todo)
        /\ readArchiveResources(w.out.resources)
        /\ Collected(w.out.resources, n, stored)
        /\ Covered(w, n, stored)

\* Every page of an archive is saved, or was saved, by the transaction.
Saves(pages, t) ==
    /\ t.step \in {"read", "write", "commit"}
    /\ t.step = "commit" => t.todo = <<>>
    /\ \A k \in DOMAIN t.todo : t.todo[k].op = "save" /\ t.todo[k].from = None
    /\ \A k \in DOMAIN t.writes : t.writes[k].op = "save"
    /\ \A k, l \in DOMAIN t.writes : t.writes[k].id = t.writes[l].id => t.writes[k].new = t.writes[l].new
    /\ t.step = "write" =>
          /\ t.found # {}
          /\ \A w \in t.found : /\ w.op = "save" /\ w.new = t.todo[1].to
                                /\ \A k \in DOMAIN t.writes : w.id = t.writes[k].id => w.new = t.writes[k].new
    /\ \A p \in pages : \/ \E k \in DOMAIN t.todo : t.todo[k].to = p.slug
                        \/ \E k \in DOMAIN t.writes : t.writes[k].new = p.slug

\* The files of the archive get different numbers.
Numbered(out, new, n) ==
    /\ readArchivePages(out.pages) /\ readArchiveResources(out.resources)
    /\ \A k \in DOMAIN out.resources : out.resources[k].file \in DOMAIN new
    /\ \A f \in DOMAIN new : Given(n, new[f])
    /\ \A f, g \in DOMAIN new : new[f] = new[g] => f = g

ArchivesSound ==
    /\ fileOps > MaxFileOps => work = NoJob
    /\ StoredGiven(files, last)
    /\ Complete(shelf)
    /\ Exported(work, last, files)
    /\ work.client # None <=> work.step = "restore"
    /\ work.step = "restore" => Numbered(shelf, work.new, last) /\ Saves(shelf.pages, tx[work.client])

\* A set as a sequence has each of its elements once.
LEMMA SetInOrder ==
    ASSUME NEW S, IsFiniteSet(S)
    PROVE  /\ SetToSeq(S) \in Seq(S)
           /\ \A k, l \in DOMAIN SetToSeq(S) : SetToSeq(S)[k] = SetToSeq(S)[l] => k = l
           /\ \A x \in S : \E k \in DOMAIN SetToSeq(S) : SetToSeq(S)[k] = x
<1>1. PICK n \in Nat : n = Cardinality(S)
  BY FS_CardinalityType
<1>2. PICK s : s = SetToSeq(S)
  OBVIOUS
<1>3. s = CHOOSE f \in [1..n -> S] : \A a, b \in DOMAIN f : f[a] = f[b] => a = b
  BY <1>1, <1>2 DEF SetToSeq, IsInjective
<1>4. \E f \in [1..n -> S] : \A a, b \in DOMAIN f : f[a] = f[b] => a = b
  BY <1>1, FS_CardinalityType DEF ExistsBijection, Bijection, Injection, IsInjective
<1>5. s \in [1..n -> S] /\ \A k, l \in DOMAIN s : s[k] = s[l] => k = l
  BY <1>3, <1>4
<1>6. s \in Seq(S)
  BY <1>2, SequenceOfSet
<1>7. s \in Injection(1..n, S) /\ Cardinality(1..n) = n
  <2>1. s \in Injection(1..n, S)
    BY <1>5 DEF Injection, IsInjective
  <2>2. Cardinality(1..n) = IF 1 > n THEN 0 ELSE n - 1 + 1
    BY FS_Interval
  <2> QED
    BY <2>1, <2>2
<1>8. s \in Surjection(1..n, S)
  BY <1>1, <1>7, FS_Injection
<1>9. \A x \in S : \E k \in 1..n : s[k] = x
  BY <1>8 DEF Surjection
<1> QED
  BY <1>2, <1>5, <1>6, <1>9

\* Files that come with new numbers, or go, leave an export what it is.
LEMMA ExportStays ==
    ASSUME NEW w \in ShelfWork, NEW n \in [Kinds -> Nat], NEW m \in [Kinds -> Nat],
           NEW stored, NEW now, Exported(w, n, stored),
           \A kind \in Kinds : n[kind] <= m[kind],
           \A f \in File : now[f] \in {stored[f], None} \/ ~Given(n, f)
    PROVE  Exported(w, m, now)
<1>1. \A f \in File : Given(n, f) => Given(m, f) /\ now[f] \in {stored[f], None}
  <2> SUFFICES ASSUME NEW f \in File, Given(n, f) PROVE Given(m, f) /\ now[f] \in {stored[f], None}
    OBVIOUS
  <2>1. f[1] \in Kinds /\ f[2] \in Nat /\ n[f[1]] \in Nat /\ m[f[1]] \in Nat
    BY FileParts, ArchiveConstants
  <2> QED
    BY <2>1 DEF Given
<1> SUFFICES ASSUME w.step = "export" PROVE Exported(w, m, now)
  BY DEF Exported
<1>2. /\ Listed(w.out.pages, w.todo) /\ readArchiveResources(w.out.resources)
      /\ Collected(w.out.resources, n, stored) /\ Covered(w, n, stored)
  BY DEF Exported
<1>3. Collected(w.out.resources, m, now)
  <2> SUFFICES ASSUME NEW k \in DOMAIN w.out.resources
               PROVE  /\ Given(m, w.out.resources[k].file)
                      /\ now[w.out.resources[k].file] # None =>
                            now[w.out.resources[k].file].data = w.out.resources[k].data
    BY DEF Collected
  <2>1. w.out.resources \in Seq(Resource)
    BY DEF ShelfWork, Archive
  <2>2. PICK r \in Resource : r = w.out.resources[k]
    BY <2>1
  <2>3. r.file \in File
    BY DEF Resource
  <2>4. Given(n, r.file) /\ (stored[r.file] # None => stored[r.file].data = r.data)
    BY <1>2, <2>2 DEF Collected
  <2> QED
    BY <1>1, <2>2, <2>3, <2>4
<1>4. Covered(w, m, now)
  <2>1. \A f \in File : \A data : Awaited(w, n, stored, f, data) => Awaited(w, m, now, f, data)
    BY <1>1 DEF Awaited
  <2> QED
    BY <1>2, <2>1 DEF Covered
<1> QED
  BY <1>2, <1>3, <1>4 DEF Exported

LEMMA NumbersStay ==
    ASSUME NEW out, NEW new \in Numbers, NEW n \in [Kinds -> Nat], NEW m \in [Kinds -> Nat],
           \A kind \in Kinds : n[kind] <= m[kind], Numbered(out, new, n)
    PROVE  Numbered(out, new, m)
<1>1. ASSUME NEW f \in DOMAIN new PROVE Given(m, new[f])
  <2>1. PICK g \in File : g = new[f]
    BY DEF Numbers
  <2>2. Given(n, g)
    BY <2>1 DEF Numbered
  <2>3. g[1] \in Kinds /\ g[2] \in Nat /\ n[g[1]] \in Nat /\ m[g[1]] \in Nat
    BY FileParts, ArchiveConstants
  <2> QED
    BY <2>1, <2>2, <2>3 DEF Given
<1> QED
  BY <1>1 DEF Numbered

\* Files come with new numbers, or go, while an export or a restore is under
\* way.
LEMMA FilesMove ==
    ASSUME FilesTyped, FilesTyped', ArchivesSound, fileOps \in Nat, fileOps' \in Nat, fileOps' <= MaxFileOps,
           UNCHANGED <<tx, work, shelf>>, StoredGiven(files', last'),
           \A kind \in Kinds : last[kind] <= last'[kind],
           \A f \in File : files'[f] \in {files[f], None} \/ ~Given(last, f)
    PROVE  ArchivesSound'
<1>0. PICK stored, now : stored = files /\ now = files'
  OBVIOUS
<1>1. PICK n \in [Kinds -> Nat], m \in [Kinds -> Nat] : n = last /\ m = last'
  BY DEF FilesTyped
<1>2. PICK w \in ShelfWork : w = work
  BY DEF FilesTyped
<1>3. w.new \in Numbers
  BY DEF ShelfWork
<1>4. Exported(w, m, now)
  <2>1. Exported(w, n, stored)
    BY <1>0, <1>1, <1>2 DEF ArchivesSound
  <2>2. (\A kind \in Kinds : n[kind] <= m[kind]) /\ \A f \in File : now[f] \in {stored[f], None} \/ ~Given(n, f)
    BY <1>0, <1>1
  <2> QED
    BY <2>1, <2>2, ExportStays
<1>5. w.step = "restore" => Numbered(shelf, w.new, m)
  <2>1. w.step = "restore" => Numbered(shelf, w.new, n)
    BY <1>1, <1>2 DEF ArchivesSound
  <2>2. \A kind \in Kinds : n[kind] <= m[kind]
    BY <1>1
  <2> QED
    BY <1>3, <2>1, <2>2, NumbersStay
<1>6. /\ Complete(shelf) /\ (w.client # None <=> w.step = "restore")
      /\ w.step = "restore" => Saves(shelf.pages, tx[w.client])
  BY <1>2 DEF ArchivesSound
<1>7. ~(fileOps' > MaxFileOps)
  BY ArchiveConstants
<1>8. work' = w /\ last' = m /\ files' = now /\ shelf' = shelf /\ tx' = tx
  BY <1>0, <1>1, <1>2
<1>9. StoredGiven(now, m)
  BY <1>8
<1> QED
  BY <1>4, <1>5, <1>6, <1>7, <1>8, <1>9 DEF ArchivesSound

LEMMA UploadSound ==
    ASSUME FilesTyped, FilesTyped', DeletesUnused, ArchivesSound, fileOps <= MaxFileOps,
           UploadImage \/ UploadAttachment
    PROVE  ArchivesSound'
<1>1. PICK kind \in Kinds : saveFile(kind, "user") /\ FileRequest
  BY DEF UploadImage, UploadAttachment, Kinds
<1>2. PICK f : f = <<kind, last[kind] + 1>>
  OBVIOUS
<1>3. /\ files' = [files EXCEPT ![f] = [by |-> "user", data |-> f]]
      /\ last' = [last EXCEPT ![kind] = @ + 1]
      /\ UNCHANGED <<tx, work, shelf>>
  BY <1>1, <1>2 DEF saveFile, readVars, spaceVars
<1>4. last \in [Kinds -> Nat] /\ files \in [File -> Upload \cup {None}]
  BY DEF FilesTyped
<1>5. \A k \in Kinds : last[k] <= last'[k]
  BY <1>3, <1>4
<1>6. ~Given(last, f) /\ Given(last', f)
  BY <1>2, <1>3, <1>4 DEF Given
<1>7. \A g \in File : g # f => files'[g] = files[g]
  BY <1>3, <1>4
<1>8. StoredGiven(files', last')
  <2> SUFFICES ASSUME NEW g \in File, files'[g] # None PROVE Given(last', g)
    BY DEF StoredGiven
  <2>1. CASE g = f
    BY <1>6, <2>1
  <2>2. CASE g # f
    <3>1. Given(last, g)
      BY <1>7, <2>2 DEF ArchivesSound, StoredGiven
    <3>2. g[1] \in Kinds /\ g[2] \in Nat
      BY FileParts, ArchiveConstants
    <3>3. last[g[1]] \in Nat /\ last'[g[1]] \in Nat /\ last[g[1]] <= last'[g[1]]
      BY <1>4, <1>5, <3>2 DEF FilesTyped
    <3> QED
      BY <3>1, <3>2, <3>3 DEF Given
  <2> QED
    BY <2>1, <2>2
<1>9. fileOps \in Nat /\ fileOps' \in Nat /\ fileOps' <= MaxFileOps
  BY <1>1, ArchiveConstants DEF DeletesUnused, FileRequest
<1>10. \A g \in File : files'[g] \in {files[g], None} \/ ~Given(last, g)
  BY <1>6, <1>7
<1> QED
  BY <1>3, <1>5, <1>8, <1>9, <1>10, FilesMove

LEMMA DeletionSound ==
    ASSUME FilesTyped, FilesTyped', DeletesUnused, ArchivesSound, fileOps <= MaxFileOps,
           FinishDeletion \/ \E f \in File : DeleteFile(f) \/ DeleteAdminAttachment(f)
    PROVE  ArchivesSound'
<1>1. UNCHANGED <<tx, work, shelf, last>> /\ (FileRequest \/ fileOps' = fileOps)
  BY DEF FinishDeletion, DeleteFile, DeleteAdminAttachment, readVars, spaceVars
<1>2. \A f \in File : files'[f] \in {files[f], None}
  BY DEF FilesTyped, FinishDeletion, DeleteFile, DeleteAdminAttachment
<1>3. StoredGiven(files', last')
  BY <1>1, <1>2 DEF ArchivesSound, StoredGiven
<1>4. fileOps \in Nat /\ fileOps' \in Nat /\ fileOps' <= MaxFileOps
  BY <1>1, ArchiveConstants DEF DeletesUnused, FileRequest
<1>5. \A kind \in Kinds : last[kind] <= last'[kind]
  BY <1>1 DEF FilesTyped
<1> QED
  BY <1>1, <1>2, <1>3, <1>4, <1>5, FilesMove

\* What only the export changes.
LEMMA ExportMoves ==
    ASSUME FilesTyped, ArchivesSound, fileOps' \in Nat, fileOps' <= MaxFileOps, UNCHANGED <<tx, files, last>>,
           work'.client = None, work'.step # "restore", Complete(shelf'), Exported(work', last, files)
    PROVE  ArchivesSound'
<1>1. ~(fileOps' > MaxFileOps)
  BY ArchiveConstants
<1> QED
  BY <1>1 DEF ArchivesSound

LEMMA ExportGivenUp ==
    ASSUME FilesTyped, DeletesUnused, ArchivesSound, fileOps <= MaxFileOps, Work(NoJob), Complete(shelf')
    PROVE  ArchivesSound'
<1>1. work' = NoJob /\ UNCHANGED <<tx, files, last, fileOps>>
  BY DEF Work, readVars, spaceVars
<1>2. work'.client = None /\ work'.step = "idle"
  BY <1>1 DEF NoJob
<1>3. Exported(work', last, files)
  BY <1>2 DEF Exported
<1> QED
  BY <1>1, <1>2, <1>3, ExportMoves DEF DeletesUnused

LEMMA ExportStartsSound ==
    ASSUME FilesTyped, DeletesUnused, ArchivesSound, fileOps <= MaxFileOps,
           NEW paths \in SUBSET Paths, NEW portable \in BOOLEAN, StartExport(paths, portable)
    PROVE  ArchivesSound'
<1>1. work' = [NoJob EXCEPT !.step = "export", !.portable = portable, !.todo = SetToSeq(paths)]
  BY DEF StartExport
<1>2. PICK ordered : ordered = SetToSeq(paths)
  OBVIOUS
<1>3. PICK w : w = work'
  OBVIOUS
<1>4. w = [NoJob EXCEPT !.step = "export", !.portable = portable, !.todo = ordered]
  BY <1>1, <1>2, <1>3
<1>5. /\ w.step = "export" /\ w.todo = ordered /\ w.client = None
      /\ w.out.pages = {} /\ w.out.resources = <<>>
  <2>1. w.step = "export" /\ w.todo = ordered /\ w.client = None /\ w.out = NoArchive
    BY <1>4 DEF NoJob
  <2> QED
    BY <2>1 DEF NoArchive
<1>6. ordered # <<>> /\ \A k, l \in DOMAIN ordered : ordered[k] = ordered[l] => k = l
  BY <1>2, SubsetsFinite, SequenceOfSet, SetInOrder DEF StartExport
<1>7. Listed(w.out.pages, w.todo)
  BY <1>5, <1>6 DEF Listed
<1>8. DOMAIN w.out.resources = {}
  BY <1>5
<1>9. readArchiveResources(w.out.resources) /\ Collected(w.out.resources, last, files)
  BY <1>8 DEF readArchiveResources, Collected
<1>10. Covered(w, last, files)
  BY <1>5 DEF Covered
<1>11. Exported(w, last, files)
  BY <1>7, <1>9, <1>10 DEF Exported
<1>12. UNCHANGED <<tx, files, last, shelf>> /\ fileOps' \in Nat /\ fileOps' <= MaxFileOps
  BY ArchiveConstants DEF DeletesUnused, StartExport, FileRequest, readVars, spaceVars
<1>13. work'.client = None /\ work'.step # "restore" /\ Exported(work', last, files)
  BY <1>3, <1>5, <1>11
<1>14. Complete(shelf')
  BY <1>12 DEF ArchivesSound
<1> QED
  BY <1>12, <1>13, <1>14, ExportMoves

\* One page more.
LEMMA PageListed ==
    ASSUME NEW paths \in Seq(Paths), paths # <<>>, NEW pages, Listed(pages, paths),
           NEW archived, archived.slug = Head(paths)
    PROVE  Listed(pages \cup {archived}, Tail(paths))
<1>1. PICK n \in Nat : n = Len(paths) /\ n # 0
  BY EmptySeq, LenProperties
<1>2. PICK rest \in Seq(Paths) : rest = Tail(paths)
  <2>1. Tail(paths) \in Seq(Paths)
    OBVIOUS
  <2> QED
    BY <2>1
<1>3. DOMAIN paths = 1..n /\ DOMAIN rest = 1..(n - 1) /\ \A k \in 1..(n - 1) : rest[k] = paths[k + 1]
  BY <1>1, <1>2
<1>4. Head(paths) = paths[1] /\ 1 \in 1..n /\ \A k \in 1..(n - 1) : k + 1 \in 1..n /\ k + 1 # 1
  BY <1>1
<1>5. /\ \A k, l \in 1..n : paths[k] = paths[l] => k = l
      /\ \A p \in pages, k \in 1..n : p.slug # paths[k]
      /\ \A p, q \in pages : p.slug = q.slug => p = q
  BY <1>3 DEF Listed
<1>6. \A k, l \in 1..(n - 1) : rest[k] = rest[l] => k = l
  <2> SUFFICES ASSUME NEW k \in 1..(n - 1), NEW l \in 1..(n - 1), rest[k] = rest[l] PROVE k = l
    OBVIOUS
  <2>1. k + 1 = l + 1
    BY <1>3, <1>4, <1>5
  <2> QED
    BY <2>1
<1>7. \A p \in pages \cup {archived}, k \in 1..(n - 1) : p.slug # rest[k]
  BY <1>3, <1>4, <1>5
<1>8. \A p, q \in pages \cup {archived} : p.slug = q.slug => p = q
  BY <1>4, <1>5
<1> QED
  BY <1>2, <1>3, <1>6, <1>7, <1>8 DEF Listed

\* What it shows is awaited, or was written before.
LEMMA PageCovered ==
    ASSUME NEW w \in ShelfWork, NEW n, NEW stored, Exported(w, n, stored), w.step = "export", w.need = {},
           w.todo # <<>>, NEW archived, archived.slug = Head(w.todo), NEW new,
           new.todo = Tail(w.todo), new.out.pages = w.out.pages \cup {archived},
           new.out.resources = w.out.resources, new.portable = w.portable,
           w.portable => \A data \in archived.showed : \E f \in File :
               <<"relative", f>> \in archived.text /\ f \in new.need /\ Given(n, f) /\ stored[f] # None /\ stored[f].data = data
    PROVE  Exported(new, n, stored)
<1>1. /\ Listed(w.out.pages, w.todo) /\ readArchiveResources(w.out.resources)
      /\ Collected(w.out.resources, n, stored) /\ Covered(w, n, stored)
  BY DEF Exported
<1>2. Listed(new.out.pages, new.todo)
  BY <1>1, PageListed DEF ShelfWork
<1>3. \A f, data : HasData(w.out, f, data) => HasData(new.out, f, data)
  BY DEF HasData
<1>4. Covered(new, n, stored)
  <2> SUFFICES ASSUME w.portable, NEW p \in new.out.pages, NEW data \in p.showed
               PROVE  \E f \in File : /\ <<"relative", f>> \in p.text
                                      /\ HasData(new.out, f, data) \/ Awaited(new, n, stored, f, data)
    BY DEF Covered
  <2>1. CASE p \in w.out.pages
    <3>1. PICK f \in File : <<"relative", f>> \in p.text /\ (HasData(w.out, f, data) \/ Awaited(w, n, stored, f, data))
      BY <1>1, <2>1 DEF Covered
    <3>2. ~Awaited(w, n, stored, f, data)
      BY DEF Awaited
    <3> QED
      BY <1>3, <3>1, <3>2
  <2>2. CASE p = archived
    <3>1. PICK f \in File : /\ <<"relative", f>> \in archived.text /\ f \in new.need /\ Given(n, f)
                            /\ stored[f] # None /\ stored[f].data = data
      BY <2>2
    <3>2. CASE HasFile(new.out, f)
      <4>1. PICK k \in DOMAIN w.out.resources : w.out.resources[k].file = f
        BY <3>2 DEF HasFile
      <4>2. w.out.resources[k].data = data
        BY <1>1, <3>1, <4>1 DEF Collected
      <4>3. HasData(new.out, f, data)
        BY <4>1, <4>2 DEF HasData
      <4> QED
        BY <2>2, <3>1, <4>3
    <3>3. CASE ~HasFile(new.out, f)
      <4>1. Awaited(new, n, stored, f, data)
        BY <3>1, <3>3 DEF Awaited
      <4> QED
        BY <2>2, <3>1, <4>1
    <3> QED
      BY <3>2, <3>3
  <2> QED
    BY <2>1, <2>2
<1> QED
  BY <1>1, <1>2, <1>4 DEF Exported

LEMMA WritePageSound ==
    ASSUME FilesTyped, DeletesUnused, ArchivesSound, fileOps <= MaxFileOps, WritePage
    PROVE  ArchivesSound'
<1>1. shelf' = shelf /\ work.todo # <<>> /\ work.step = "export" /\ work.need = {}
  BY DEF WritePage
<1>2. CASE Work(NoJob)
  BY <1>1, <1>2, ExportGivenUp DEF ArchivesSound
<1>3. CASE ~Work(NoJob)
  <2> DEFINE path == Head(work.todo)
  <2>1. PICK i \in GetPage(db, path) :
           Work([work EXCEPT
                    !.todo = Tail(@),
                    !.need = IF work.portable THEN ReferencedFiles(texts[i]) ELSE ImagesOf(texts[i]),
                    !.out.pages = @ \cup {[slug |-> path, text |-> rewriteMarkdown(texts[i]),
                                           showed |-> Showing(files, texts[i])]}])
    BY <1>3 DEF WritePage
  <2>2. PICK text \in SUBSET Reference : text = texts[i]
    BY <2>1 DEF GetPage, Live, FilesTyped
  <2>3. PICK archived : archived = [slug |-> path, text |-> rewriteMarkdown(text), showed |-> Showing(files, text)]
    OBVIOUS
  <2>4. PICK w \in ShelfWork : w = work
    BY DEF FilesTyped
  <2>5. PICK need : need = IF w.portable THEN ReferencedFiles(text) ELSE ImagesOf(text)
    OBVIOUS
  <2>6. PICK rest : rest = Tail(w.todo)
    OBVIOUS
  <2>7. PICK out : out = [w.out EXCEPT !.pages = @ \cup {archived}]
    OBVIOUS
  <2>8. PICK new : new = [w EXCEPT !.todo = rest, !.need = need, !.out = out]
    OBVIOUS
  <2>9. Work(new)
    BY <2>1, <2>2, <2>3, <2>4, <2>5, <2>6, <2>7, <2>8
  <2>10. /\ new.todo = Tail(w.todo) /\ new.need = need /\ new.out = out /\ new.portable = w.portable
         /\ new.step = w.step /\ new.client = w.client
    BY <2>4, <2>6, <2>8 DEF ShelfWork
  <2>11. out.pages = w.out.pages \cup {archived} /\ out.resources = w.out.resources
    BY <2>4, <2>7 DEF ShelfWork, Archive
  <2>12. ASSUME w.portable, NEW data \in archived.showed
         PROVE  \E f \in File : /\ <<"relative", f>> \in archived.text /\ f \in new.need /\ Given(last, f)
                                /\ files[f] # None /\ files[f].data = data
    <3>1. PICK f \in ReferencedFiles(text) : files[f] # None /\ files[f].data = data
      BY <2>3, <2>12 DEF Showing
    <3>2. PICK r \in text : r[1] = "url" /\ r[2] = f
      BY <3>1 DEF ReferencedFiles, Ranges
    <3>3. f \in File
      BY <3>1, Referenced
    <3>4. <<"relative", f>> \in archived.text
      BY <2>3, <3>2 DEF rewriteMarkdown
    <3>5. Given(last, f)
      BY <3>1, <3>3 DEF ArchivesSound, StoredGiven
    <3>6. f \in new.need
      BY <2>5, <2>10, <2>12, <3>1
    <3> QED
      BY <3>1, <3>3, <3>4, <3>5, <3>6
  <2>13. Exported(w, last, files) /\ w.step = "export" /\ w.need = {} /\ w.todo # <<>>
    BY <1>1, <2>4 DEF ArchivesSound
  <2>14. /\ archived.slug = Head(w.todo) /\ new.out.pages = w.out.pages \cup {archived}
         /\ new.out.resources = w.out.resources
    BY <2>3, <2>4, <2>10, <2>11
  <2>15. Exported(new, last, files)
    BY <2>10, <2>12, <2>13, <2>14, PageCovered
  <2>16. work' = new /\ UNCHANGED <<tx, files, last, fileOps>>
    BY <2>9 DEF Work, readVars, spaceVars
  <2>17. new.client = None /\ new.step # "restore"
    BY <2>4, <2>10, <2>13 DEF ArchivesSound
  <2>18. fileOps' \in Nat /\ fileOps' <= MaxFileOps /\ Complete(shelf')
    BY <1>1, <2>16 DEF ArchivesSound, DeletesUnused
  <2> QED
    BY <2>15, <2>16, <2>17, <2>18, ExportMoves
<1> QED
  BY <1>2, <1>3

\* One file more, or one that was written before.
LEMMA ResourceCollected ==
    ASSUME NEW w \in ShelfWork, NEW n, NEW stored, Exported(w, n, stored), w.step = "export",
           StoredGiven(stored, n), NEW f \in w.need, NEW new, new.todo = w.todo, new.need = w.need \ {f},
           new.out.pages = w.out.pages, new.portable = w.portable,
           \/ HasFile(w.out, f) /\ new.out.resources = w.out.resources
           \/ /\ ~HasFile(w.out, f) /\ stored[f] # None
              /\ new.out.resources = Append(w.out.resources, [section |-> f[1], file |-> f, data |-> stored[f].data])
    PROVE  Exported(new, n, stored)
<1>1. /\ Listed(w.out.pages, w.todo) /\ readArchiveResources(w.out.resources)
      /\ Collected(w.out.resources, n, stored) /\ Covered(w, n, stored)
  BY DEF Exported
<1>2. PICK resources \in Seq(Resource) : resources = w.out.resources
  BY DEF ShelfWork, Archive
<1>3. f \in File
  BY DEF ShelfWork
<1>4. /\ readArchiveResources(new.out.resources) /\ Collected(new.out.resources, n, stored)
      /\ \A g, data : HasData(w.out, g, data) => HasData(new.out, g, data)
      /\ \A g : HasFile(new.out, g) => HasFile(w.out, g) \/ g = f
      /\ \A data : ~HasFile(w.out, f) /\ (stored[f] # None => stored[f].data = data) => HasData(new.out, f, data)
  <2>1. CASE HasFile(w.out, f) /\ new.out.resources = w.out.resources
    BY <1>1, <2>1 DEF HasFile, HasData
  <2>2. CASE /\ ~HasFile(w.out, f) /\ stored[f] # None
             /\ new.out.resources = Append(w.out.resources, [section |-> f[1], file |-> f, data |-> stored[f].data])
    <3>1. PICK r : r = [section |-> f[1], file |-> f, data |-> stored[f].data]
      OBVIOUS
    <3>2. r.section = f[1] /\ r.file = f /\ r.data = stored[f].data
      BY <3>1
    <3>3. PICK more : more = new.out.resources
      OBVIOUS
    <3>4. PICK m \in Nat : m = Len(resources)
      OBVIOUS
    <3>5. more = Append(resources, r)
      BY <1>2, <2>2, <3>1, <3>3
    <3>6. /\ DOMAIN resources = 1..m /\ DOMAIN more = 1..(m + 1) /\ (\A k \in 1..m : more[k] = resources[k])
          /\ more[m + 1] = r /\ \A k \in 1..(m + 1) : k \in 1..m \/ k = m + 1
      BY <3>4, <3>5
    <3>7. /\ \A k \in 1..m : resources[k].file # f /\ resources[k].section = resources[k].file[1]
          /\ \A k, l \in 1..m : resources[k].file = resources[l].file => k = l
          /\ \A k \in 1..m : /\ Given(n, resources[k].file)
                             /\ stored[resources[k].file] # None => stored[resources[k].file].data = resources[k].data
      BY <1>1, <1>2, <2>2, <3>6 DEF HasFile, readArchiveResources, Collected
    <3>8. readArchiveResources(more)
      BY <3>2, <3>6, <3>7 DEF readArchiveResources
    <3>9. Given(n, f)
      BY <1>3, <2>2 DEF StoredGiven
    <3>10. Collected(more, n, stored)
      BY <3>2, <3>6, <3>7, <3>9 DEF Collected
    <3>11. \A g, data : HasData(w.out, g, data) => HasData(new.out, g, data)
      BY <1>2, <3>3, <3>6 DEF HasData
    <3>12. \A g : HasFile(new.out, g) => HasFile(w.out, g) \/ g = f
      BY <1>2, <3>2, <3>3, <3>6 DEF HasFile
    <3>13. HasData(new.out, f, stored[f].data)
      BY <3>2, <3>3, <3>6 DEF HasData
    <3> QED
      BY <2>2, <3>3, <3>8, <3>10, <3>11, <3>12, <3>13
  <2> QED
    BY <2>1, <2>2
<1>5. Covered(new, n, stored)
  <2> SUFFICES ASSUME w.portable, NEW p \in w.out.pages, NEW data \in p.showed
               PROVE  \E g \in File : /\ <<"relative", g>> \in p.text
                                      /\ HasData(new.out, g, data) \/ Awaited(new, n, stored, g, data)
    BY DEF Covered
  <2>1. PICK g \in File : <<"relative", g>> \in p.text /\ (HasData(w.out, g, data) \/ Awaited(w, n, stored, g, data))
    BY <1>1 DEF Covered
  <2>2. CASE HasData(w.out, g, data)
    BY <1>4, <2>1, <2>2
  <2>3. CASE Awaited(w, n, stored, g, data)
    <3>1. CASE g = f
      <4>1. HasData(new.out, g, data)
        BY <1>4, <2>3, <3>1 DEF Awaited
      <4> QED
        BY <2>1, <4>1
    <3>2. CASE g # f
      <4>1. Awaited(new, n, stored, g, data)
        BY <1>4, <2>3, <3>2 DEF Awaited
      <4> QED
        BY <2>1, <4>1
    <3> QED
      BY <3>1, <3>2
  <2> QED
    BY <2>1, <2>2, <2>3
<1> QED
  BY <1>1, <1>4, <1>5 DEF Exported

LEMMA WriteResourceSound ==
    ASSUME FilesTyped, DeletesUnused, ArchivesSound, fileOps <= MaxFileOps, WriteResource
    PROVE  ArchivesSound'
<1>1. shelf' = shelf /\ work.step = "export"
  BY DEF WriteResource
<1>2. PICK f \in work.need :
         IF AlreadyWritten(f) \/ files[f] # None
         THEN Work([work EXCEPT !.need = @ \ {f}, !.out.resources = exportResource(f)])
         ELSE Work(NoJob)
  BY DEF WriteResource
<1>3. CASE ~(AlreadyWritten(f) \/ files[f] # None)
  BY <1>1, <1>2, <1>3, ExportGivenUp DEF ArchivesSound
<1>4. CASE AlreadyWritten(f) \/ files[f] # None
  <2>1. PICK w \in ShelfWork : w = work
    BY DEF FilesTyped
  <2>2. PICK resources : resources = exportResource(f)
    OBVIOUS
  <2>3. PICK out : out = [w.out EXCEPT !.resources = resources]
    OBVIOUS
  <2>4. PICK need : need = w.need \ {f}
    OBVIOUS
  <2>5. PICK new : new = [w EXCEPT !.need = need, !.out = out]
    OBVIOUS
  <2>6. Work(new)
    BY <1>2, <1>4, <2>1, <2>2, <2>3, <2>4, <2>5
  <2>7. /\ new.todo = w.todo /\ new.need = need /\ new.out = out /\ new.portable = w.portable
        /\ new.step = w.step /\ new.client = w.client
    BY <2>5 DEF ShelfWork
  <2>8. out.pages = w.out.pages /\ out.resources = resources
    BY <2>3 DEF ShelfWork, Archive
  <2>9. AlreadyWritten(f) <=> HasFile(w.out, f)
    BY <2>1 DEF AlreadyWritten, HasFile
  <2>10. \/ HasFile(w.out, f) /\ new.out.resources = w.out.resources
         \/ /\ ~HasFile(w.out, f) /\ files[f] # None
            /\ new.out.resources = Append(w.out.resources, [section |-> f[1], file |-> f, data |-> files[f].data])
    BY <1>4, <2>1, <2>2, <2>7, <2>8, <2>9 DEF exportResource
  <2>11. /\ Exported(w, last, files) /\ w.step = "export" /\ StoredGiven(files, last) /\ f \in w.need
         /\ new.need = w.need \ {f} /\ new.out.pages = w.out.pages
    BY <1>1, <2>1, <2>4, <2>7, <2>8 DEF ArchivesSound
  <2>12. Exported(new, last, files)
    BY <2>7, <2>10, <2>11, ResourceCollected
  <2>13. work' = new /\ UNCHANGED <<tx, files, last, fileOps>>
    BY <2>6 DEF Work, readVars, spaceVars
  <2>14. new.client = None /\ new.step # "restore"
    BY <2>1, <2>7, <2>11 DEF ArchivesSound
  <2>15. fileOps' \in Nat /\ fileOps' <= MaxFileOps /\ Complete(shelf')
    BY <1>1, <2>13 DEF ArchivesSound, DeletesUnused
  <2> QED
    BY <2>12, <2>13, <2>14, <2>15, ExportMoves
<1> QED
  BY <1>3, <1>4

\* What ends up on the shelf is an archive the import accepts.
LEMMA ExportIsSound ==
    ASSUME FilesTyped, ArchivesSound, FinishExport, work.portable
    PROVE  readArchivePages(work.out.pages) /\ readArchiveResources(work.out.resources) /\ Complete(work.out)
<1>1. work.step = "export" /\ work.need = {} /\ work.todo = <<>>
  BY DEF FinishExport
<1>2. /\ Listed(work.out.pages, work.todo) /\ readArchiveResources(work.out.resources)
      /\ Covered(work, last, files)
  BY <1>1 DEF ArchivesSound, Exported
<1>3. readArchivePages(work.out.pages)
  BY <1>1, <1>2 DEF Listed, readArchivePages
<1>4. \A f, data : ~Awaited(work, last, files, f, data)
  BY <1>1 DEF Awaited
<1>5. Complete(work.out)
  BY <1>2, <1>4 DEF Complete, Covered
<1> QED
  BY <1>2, <1>3, <1>5

LEMMA FinishExportSound ==
    ASSUME FilesTyped, DeletesUnused, ArchivesSound, fileOps <= MaxFileOps, FinishExport
    PROVE  ArchivesSound'
<1>1. shelf' = IF work.portable THEN work.out ELSE shelf
  BY DEF FinishExport
<1>2. Complete(shelf')
  BY <1>1, ExportIsSound DEF ArchivesSound
<1> QED
  BY <1>2, ExportGivenUp DEF FinishExport

\* The numbers that a restore takes: each file its own.
LEMMA NumbersDiffer ==
    ASSUME FilesTyped, readArchiveResources(shelf.resources), NEW m \in [Kinds -> Nat],
           \A k \in Kinds : m[k] = last[k] + Cardinality(OfKind(shelf.resources, k)),
           NEW new, new = uploaded(shelf.resources)
    PROVE  /\ \A k \in DOMAIN shelf.resources : shelf.resources[k].file \in DOMAIN new
           /\ \A f \in DOMAIN new : Given(m, new[f])
           /\ \A f, g \in DOMAIN new : new[f] = new[g] => f = g
<1> DEFINE resources == shelf.resources
           stored == {resources[k].file : k \in DOMAIN resources}
           at(f) == CHOOSE k \in DOMAIN resources : resources[k].file = f
           before(f) == {k \in OfKind(resources, f[1]) : k <= at(f)}
<1>1. resources \in Seq(Resource)
  BY DEF FilesTyped, Archive
<1>2. Len(resources) \in Nat /\ DOMAIN resources = 1..Len(resources)
  BY <1>1
<1>3. \A k \in DOMAIN resources : resources[k].file \in File /\ resources[k].section = resources[k].file[1]
  <2>1. \A k \in DOMAIN resources : resources[k].section = resources[k].file[1]
    BY DEF readArchiveResources
  <2>2. \A k \in DOMAIN resources : resources[k] \in Resource
    BY <1>1, <1>2
  <2> QED
    BY <2>1, <2>2 DEF Resource
<1>4. stored \in SUBSET File
  BY <1>3
<1>5. \A kind : IsFiniteSet(OfKind(resources, kind)) /\ Cardinality(OfKind(resources, kind)) \in Nat
  <2>1. IsFiniteSet(DOMAIN resources)
    BY <1>2, FS_Interval
  <2> QED
    BY <2>1, FS_Subset, FS_CardinalityType DEF OfKind
<1>6. ASSUME NEW f \in stored
      PROVE  /\ at(f) \in DOMAIN resources /\ at(f) \in Nat /\ resources[at(f)].file = f /\ at(f) \in before(f)
             /\ f[1] \in Kinds
             /\ IsFiniteSet(before(f)) /\ Cardinality(before(f)) \in Nat
             /\ Cardinality(before(f)) <= Cardinality(OfKind(resources, f[1]))
  <2>1. PICK n : n = at(f)
    OBVIOUS
  <2>2. n \in DOMAIN resources /\ resources[n].file = f
    BY <1>6, <2>1
  <2>3. f[1] \in Kinds
    BY <1>4, <1>6, FileParts
  <2>4. n \in OfKind(resources, f[1]) /\ n \in Nat
    BY <1>2, <1>3, <2>2 DEF OfKind
  <2>5. PICK S : S = before(f)
    OBVIOUS
  <2>6. S \in SUBSET OfKind(resources, f[1]) /\ n \in S
    BY <2>1, <2>4, <2>5
  <2>7. IsFiniteSet(S) /\ Cardinality(S) <= Cardinality(OfKind(resources, f[1]))
    BY <1>5, <2>6, FS_Subset
  <2>8. Cardinality(S) \in Nat
    BY <2>7, FS_CardinalityType
  <2> QED
    BY <2>1, <2>2, <2>3, <2>4, <2>5, <2>6, <2>7, <2>8
<1>7. new = [f \in stored |-> <<f[1], last[f[1]] + Cardinality(before(f))>>]
  BY DEF uploaded
<1>8. ASSUME NEW f \in stored, NEW g \in stored, f[1] = g[1], at(f) < at(g)
      PROVE  Cardinality(before(f)) # Cardinality(before(g))
  <2>1. PICK S, T, n, m_ : S = before(f) /\ T = before(g) /\ n = at(f) /\ m_ = at(g)
    OBVIOUS
  <2>2. n \in Nat /\ m_ \in Nat /\ n < m_ /\ m_ \in T /\ IsFiniteSet(T)
    BY <1>6, <1>8, <2>1
  <2>3. S = {k \in OfKind(resources, f[1]) : k <= n} /\ T = {k \in OfKind(resources, f[1]) : k <= m_}
    BY <1>8, <2>1
  <2>4. \A k \in OfKind(resources, f[1]) : k \in Nat
    BY <1>2 DEF OfKind
  <2>5. S \in SUBSET T /\ m_ \notin S
    BY <2>2, <2>3, <2>4
  <2> QED
    BY <2>1, <2>2, <2>5, FS_Subset
<1> HIDE DEF at, before, resources, stored
<1>9. ASSUME NEW f \in stored, NEW g \in stored, new[f] = new[g] PROVE f = g
  <2>1. new[f] = <<f[1], last[f[1]] + Cardinality(before(f))>> /\ new[g] = <<g[1], last[g[1]] + Cardinality(before(g))>>
    BY <1>7
  <2>2. f[1] = g[1] /\ last[f[1]] + Cardinality(before(f)) = last[f[1]] + Cardinality(before(g))
    <3>1. PICK x, y : x = last[f[1]] + Cardinality(before(f)) /\ y = last[g[1]] + Cardinality(before(g))
      OBVIOUS
    <3>2. <<f[1], x>> = <<g[1], y>>
      BY <1>9, <2>1, <3>1
    <3>3. f[1] = g[1] /\ x = y
      BY <3>2
    <3> QED
      BY <3>1, <3>3
  <2>3. last[f[1]] \in Nat /\ Cardinality(before(f)) \in Nat /\ Cardinality(before(g)) \in Nat
    BY <1>6 DEF FilesTyped
  <2>4. Cardinality(before(f)) = Cardinality(before(g))
    BY <2>2, <2>3
  <2>5. ~(at(f) < at(g)) /\ ~(at(g) < at(f))
    BY <1>8, <2>2, <2>4
  <2>6. at(f) = at(g)
    BY <1>6, <2>5
  <2> QED
    BY <1>6, <2>6
<1>10. ASSUME NEW f \in stored PROVE Given(m, new[f])
  <2>1. new[f] = <<f[1], last[f[1]] + Cardinality(before(f))>>
    BY <1>7
  <2>2. m[f[1]] = last[f[1]] + Cardinality(OfKind(resources, f[1])) /\ last[f[1]] \in Nat
    BY <1>6 DEF FilesTyped, resources
  <2>3. last[f[1]] + Cardinality(before(f)) <= last[f[1]] + Cardinality(OfKind(resources, f[1]))
    BY <1>5, <1>6, <2>2
  <2> QED
    BY <2>1, <2>2, <2>3 DEF Given
<1>11. DOMAIN new = stored
  BY <1>7
<1> QED
  BY <1>9, <1>10, <1>11 DEF stored, resources

\* Every page of the archive is to be saved.
LEMMA RestoreSaves ==
    ASSUME TablesTyped, NEW c \in Clients, NEW pages \in SUBSET ArchivedPage,
           ImportPortablePages(c, {p.slug : p \in pages}, FALSE)
    PROVE  Saves(pages, tx'[c]) /\ tx[c].step = "idle"
<1>1. PICK slugs \in SUBSET Paths : slugs = {p.slug : p \in pages}
  BY DEF ArchivedPage
<1>2. PICK ordered : ordered = SetToSeq(slugs)
  OBVIOUS
<1>3. ordered \in Seq(slugs) /\ \A x \in slugs : \E k \in DOMAIN ordered : ordered[k] = x
  BY <1>1, <1>2, SubsetsFinite, SetInOrder
<1>4. PICK tasks : tasks = [k \in DOMAIN ordered |-> SaveTask(None, ordered[k], FALSE, {})]
  OBVIOUS
<1>5. Begin(c, tasks)
  BY <1>1, <1>2, <1>4 DEF ImportPortablePages
<1>6. PICK t : t = [Idle EXCEPT !.todo = tasks, !.step = "read"]
  OBVIOUS
<1>7. t.todo = tasks /\ t.step = "read" /\ t.writes = <<>>
  BY <1>6 DEF Idle
<1>8. tx'[c] = t /\ tx[c].step = "idle"
  BY <1>5, <1>6 DEF Begin, TablesTyped
<1>9. /\ DOMAIN tasks = DOMAIN ordered
      /\ \A k \in DOMAIN tasks : tasks[k].op = "save" /\ tasks[k].from = None /\ tasks[k].to = ordered[k]
  BY <1>4 DEF SaveTask
<1>10. ASSUME NEW p \in pages PROVE \E k \in DOMAIN tasks : tasks[k].to = p.slug
  <2>1. p.slug \in slugs
    BY <1>1
  <2>2. PICK k \in DOMAIN ordered : ordered[k] = p.slug
    BY <1>3, <2>1
  <2> QED
    BY <1>9, <2>2
<1>11. DOMAIN t.writes = {}
  BY <1>7
<1>12. Saves(pages, t)
  BY <1>7, <1>9, <1>10, <1>11 DEF Saves
<1> QED
  BY <1>8, <1>12

LEMMA RestoreSound ==
    ASSUME TablesTyped, FilesTyped, FilesTyped', DeletesUnused, ArchivesSound, fileOps <= MaxFileOps,
           NEW c \in Clients, Restore(c)
    PROVE  ArchivesSound'
<1>1. work = NoJob /\ Parse(shelf) /\ UNCHANGED <<files, shelf>>
  BY DEF Restore
<1>2. PICK grown : grown = [k \in Kinds |-> last[k] + Cardinality(OfKind(shelf.resources, k))]
  OBVIOUS
<1>3. last' = grown
  BY <1>2 DEF Restore
<1>4. PICK m \in [Kinds -> Nat] : m = last'
  BY DEF FilesTyped
<1>5. \A k \in Kinds : m[k] = last[k] + Cardinality(OfKind(shelf.resources, k))
  BY <1>2, <1>3, <1>4
<1>6. PICK new : new = uploaded(shelf.resources)
  OBVIOUS
<1>7. PICK w \in ShelfWork : w = work'
  BY DEF FilesTyped
<1>8. w = [NoJob EXCEPT !.step = "restore", !.client = c, !.new = new]
  BY <1>6, <1>7 DEF Restore
<1>9. w.step = "restore" /\ w.client = c /\ w.new = new
  BY <1>8 DEF NoJob
<1>10. Numbered(shelf, new, m)
  <2>1. readArchivePages(shelf.pages) /\ readArchiveResources(shelf.resources)
    BY <1>1 DEF Parse
  <2> QED
    BY <1>5, <1>6, <2>1, NumbersDiffer DEF Numbered
<1>11. Saves(shelf.pages, tx'[c])
  <2>1. PICK pages \in SUBSET ArchivedPage : pages = shelf.pages
    BY DEF FilesTyped, Archive
  <2>2. ImportPortablePages(c, {p.slug : p \in pages}, FALSE)
    BY <2>1 DEF Restore
  <2> QED
    BY <2>1, <2>2, RestoreSaves
<1>12. StoredGiven(files, m)
  <2> SUFFICES ASSUME NEW f \in File, files[f] # None PROVE Given(m, f)
    BY DEF StoredGiven
  <2>1. Given(last, f)
    BY DEF ArchivesSound, StoredGiven
  <2>2. f[1] \in Kinds /\ f[2] \in Nat
    BY FileParts, ArchiveConstants
  <2>3. last[f[1]] \in Nat /\ m[f[1]] \in Nat
    BY <2>2 DEF FilesTyped
  <2>4. IsFiniteSet(OfKind(shelf.resources, f[1]))
    <3>1. shelf.resources \in Seq(Resource)
      BY DEF FilesTyped, Archive
    <3>2. Len(shelf.resources) \in Nat /\ DOMAIN shelf.resources = 1..Len(shelf.resources)
      BY <3>1
    <3>3. IsFiniteSet(DOMAIN shelf.resources)
      <4>1. PICK n \in Nat : n = Len(shelf.resources)
        BY <3>2
      <4>2. IsFiniteSet(1..n)
        BY FS_Interval
      <4> QED
        BY <3>2, <4>1, <4>2
    <3> QED
      BY <3>3, FS_Subset DEF OfKind
  <2>5. Cardinality(OfKind(shelf.resources, f[1])) \in Nat
    BY <2>4, FS_CardinalityType
  <2>6. m[f[1]] = last[f[1]] + Cardinality(OfKind(shelf.resources, f[1]))
    BY <1>5, <2>2
  <2> QED
    BY <2>1, <2>2, <2>3, <2>5, <2>6 DEF Given
<1>13. ~(fileOps' > MaxFileOps)
  BY ArchiveConstants DEF Restore, FileRequest, DeletesUnused
<1>14. c # None /\ Complete(shelf) /\ w.step # "export"
  BY <1>9, FinitePaths DEF ArchivesSound
<1>15. Exported(w, m, files)
  BY <1>14 DEF Exported
<1>16. work' = w /\ last' = m /\ files' = files /\ shelf' = shelf
  BY <1>1, <1>4, <1>7
<1> QED
  BY <1>9, <1>10, <1>11, <1>12, <1>13, <1>14, <1>15, <1>16 DEF ArchivesSound

LEMMA FileStepSound ==
    ASSUME TablesTyped, FilesTyped, FilesTyped', DeletesUnused, ArchivesSound, fileOps <= MaxFileOps, FileStep
    PROVE  ArchivesSound'
<1>1. ASSUME NEW paths \in SUBSET Paths, ExportPortablePages(paths) PROVE ArchivesSound'
  <2>1. StartExport(paths, TRUE)
    BY <1>1 DEF ExportPortablePages
  <2> QED
    BY <2>1, ExportStartsSound
<1>2. ASSUME NEW path \in Paths, ExportPageMarkdown(path) \/ PreviewPageExport(path) PROVE ArchivesSound'
  <2>1. StartExport({path}, FALSE) /\ {path} \in SUBSET Paths
    BY <1>2 DEF ExportPageMarkdown, PreviewPageExport
  <2> QED
    BY <2>1, ExportStartsSound
<1>3. CASE UploadImage \/ UploadAttachment
  BY <1>3, UploadSound
<1>4. CASE FinishDeletion \/ \E f \in File : DeleteFile(f) \/ DeleteAdminAttachment(f)
  BY <1>4, DeletionSound
<1>5. CASE WritePage \/ WriteResource \/ FinishExport
  BY <1>5, WritePageSound, WriteResourceSound, FinishExportSound
<1>6. ASSUME NEW c \in Clients, Restore(c) PROVE ArchivesSound'
  BY <1>6, RestoreSound
<1> QED
  BY <1>1, <1>2, <1>3, <1>4, <1>5, <1>6 DEF FileStep, ImageRequest, AttachmentRequest

\* A transaction that another step leaves alone.
Kept(t, u) == u.todo = t.todo /\ u.found = t.found /\ u.writes = t.writes /\ u.step = t.step

LEMMA KeptSaves ==
    ASSUME NEW pages, NEW t, NEW u, Saves(pages, t), Kept(t, u)
    PROVE  Saves(pages, u)
  BY DEF Saves, Kept

\* The save of a page that the archive holds is read, and written.
LEMMA SavesRead ==
    ASSUME TablesTyped, NEW c \in Clients, NEW pages, Saves(pages, tx[c]), savePageRecord(c)
    PROVE  Saves(pages, tx'[c])
<1>1. PICK u \in Transaction : u = tx[c] /\ u.todo # <<>>
  BY DEF TablesTyped, Underway, savePageRecord
<1>2. PICK ws \in Seq(Moved \cup Written), tasks \in Seq(Moving \cup Saving) : ws = u.writes /\ tasks = u.todo /\ tasks # <<>>
  BY <1>1 DEF Transaction
<1>3. /\ \A k \in DOMAIN tasks : tasks[k].op = "save" /\ tasks[k].from = None
      /\ \A k \in DOMAIN ws : ws[k].op = "save"
      /\ \A k, l \in DOMAIN ws : ws[k].id = ws[l].id => ws[k].new = ws[l].new
      /\ \A p \in pages : (\E k \in DOMAIN tasks : tasks[k].to = p.slug) \/ \E k \in DOMAIN ws : ws[k].new = p.slug
  BY <1>1, <1>2 DEF Saves
<1>4. PICK t \in Saving : t = tasks[1] /\ t = Head(tasks) /\ t.from = None
  <2>1. Len(tasks) \in Nat /\ Len(tasks) # 0 /\ DOMAIN tasks = 1..Len(tasks)
    BY <1>2, EmptySeq, LenProperties
  <2>2. 1 \in DOMAIN tasks /\ tasks[1] \in Moving \cup Saving /\ tasks[1] = Head(tasks)
    BY <1>2, <2>1
  <2>3. tasks[1].op = "save" /\ tasks[1].from = None
    BY <1>3, <2>2
  <2>4. tasks[1] \in Saving
    BY <2>2, <2>3 DEF Moving
  <2> QED
    BY <2>2, <2>3, <2>4
<1>5. PICK d \in Tables : d = View(c)
  BY ViewTyped
<1>6. d = Replay(db, ws) /\ db \in Tables
  BY <1>1, <1>2, <1>5 DEF View, TablesTyped
<1>7. ASSUME NEW i \in Ids, NEW k \in DOMAIN ws, ws[k].id = i
      PROVE  d.slug[i] = ws[k].new /\ d.slug[i] # None
  <2>1. \E j \in DOMAIN ws : ws[j].id = i /\ d.slug[i] = ws[j].new
    BY <1>6, <1>7, SlugsReplayed
  <2>2. d.slug[i] = ws[k].new
    BY <1>3, <1>7, <2>1
  <2>3. ws[k] \in Moved \cup Written
    BY <1>2
  <2>4. ws[k].new \in Paths
    BY <2>3 DEF Moved, Written
  <2> QED
    BY <2>2, <2>4, FinitePaths
<1> DEFINE found == {i \in Ids : d.slug[i] = t.to}
           write(i, old) == [op |-> "save", id |-> i, old |-> old, new |-> t.to, icon |-> t.icon, links |-> t.links]
<1>8. \/ found # {} /\ Found(c, {write(i, t.to) : i \in found})
      \/ \E i \in Ids : d.slug[i] = None /\ Found(c, {write(i, None)})
  <2>1. Head(tx[c].todo) = t /\ pageRecordLookupSlug(t) = t.to
    BY <1>1, <1>2, <1>4 DEF pageRecordLookupSlug
  <2> QED
    BY <1>5, <2>1 DEF savePageRecord
<1>9. \A i, old : write(i, old).op = "save" /\ write(i, old).id = i /\ write(i, old).new = t.to
  OBVIOUS
<1>10. PICK writes : /\ Found(c, writes) /\ writes # {}
                     /\ \A w \in writes : /\ w.op = "save" /\ w.new = t.to /\ w.id \in Ids
                                          /\ d.slug[w.id] \in {t.to, None}
  <2> HIDE DEF write
  <2>1. CASE found # {} /\ Found(c, {write(i, t.to) : i \in found})
    <3>1. PICK writes : writes = {write(i, t.to) : i \in found}
      OBVIOUS
    <3>2. \A w \in writes : \E i \in found : w = write(i, t.to)
      BY <3>1
    <3>3. \A w \in writes : w.op = "save" /\ w.new = t.to /\ w.id \in Ids /\ d.slug[w.id] = t.to
      BY <1>9, <3>2
    <3> QED
      BY <2>1, <3>1, <3>3
  <2>2. ASSUME NEW i \in Ids, d.slug[i] = None, Found(c, {write(i, None)})
        PROVE  \E writes : /\ Found(c, writes) /\ writes # {}
                           /\ \A w \in writes : /\ w.op = "save" /\ w.new = t.to /\ w.id \in Ids
                                                /\ d.slug[w.id] \in {t.to, None}
    <3>1. PICK w : w = write(i, None)
      OBVIOUS
    <3>2. w.op = "save" /\ w.new = t.to /\ w.id = i
      BY <1>9, <3>1
    <3>3. PICK writes : writes = {w}
      OBVIOUS
    <3>4. Found(c, writes)
      BY <2>2, <3>1, <3>3
    <3>5. writes # {} /\ \A v \in writes : v.op = "save" /\ v.new = t.to /\ v.id \in Ids /\ d.slug[v.id] = None
      BY <2>2, <3>2, <3>3
    <3> QED
      BY <3>4, <3>5
  <2> QED
    BY <1>8, <2>1, <2>2
<1>11. PICK v : v = [u EXCEPT !.found = writes, !.step = "write"]
  OBVIOUS
<1>12. v.todo = tasks /\ v.writes = ws /\ v.found = writes /\ v.step = "write"
  BY <1>1, <1>2, <1>11 DEF Transaction
<1>13. tx'[c] = v
  BY <1>1, <1>10, <1>11 DEF Found, TablesTyped
<1>14. \A w \in writes, k \in DOMAIN ws : w.id = ws[k].id => w.new = ws[k].new
  BY <1>7, <1>10
<1>15. Saves(pages, v)
  BY <1>3, <1>4, <1>10, <1>12, <1>14 DEF Saves
<1> QED
  BY <1>13, <1>15

LEMMA SavesWritten ==
    ASSUME TablesTyped, NEW c \in Clients, NEW pages, Saves(pages, tx[c]), WriteTask(c)
    PROVE  Saves(pages, tx'[c])
<1>1. PICK u \in Transaction : u = tx[c] /\ u.step = "write" /\ u.todo # <<>>
                               /\ u.found \in SUBSET (Moved \cup Written) /\ IsFiniteSet(u.found)
  BY DEF TablesTyped, Underway, WriteTask
<1>2. PICK ws \in Seq(Moved \cup Written), tasks \in Seq(Moving \cup Saving) : ws = u.writes /\ tasks = u.todo /\ tasks # <<>>
  BY <1>1 DEF Transaction
<1>3. PICK found : found = u.found
  OBVIOUS
<1>4. PICK s \in Seq(Moved \cup Written) : /\ s = SetToSeq(found)
                                           /\ \A k \in DOMAIN s : s[k] \in found
                                           /\ \A w \in found : \E k \in DOMAIN s : s[k] = w
  BY <1>1, <1>3, EachOnce, SetInOrder
<1>5. /\ \A k \in DOMAIN tasks : tasks[k].op = "save" /\ tasks[k].from = None
      /\ \A k \in DOMAIN ws : ws[k].op = "save"
      /\ \A k, l \in DOMAIN ws : ws[k].id = ws[l].id => ws[k].new = ws[l].new
      /\ found # {}
      /\ \A w \in found : /\ w.op = "save" /\ w.new = tasks[1].to
                          /\ \A k \in DOMAIN ws : w.id = ws[k].id => w.new = ws[k].new
      /\ \A p \in pages : (\E k \in DOMAIN tasks : tasks[k].to = p.slug) \/ \E k \in DOMAIN ws : ws[k].new = p.slug
  BY <1>1, <1>2, <1>3 DEF Saves
<1>6. PICK rest, step : rest = Tail(tasks) /\ step = IF Len(tasks) = 1 THEN "commit" ELSE "read"
  OBVIOUS
<1>7. PICK v : v = [u EXCEPT !.writes = @ \o s, !.todo = rest, !.found = None, !.step = step]
  OBVIOUS
<1>8. PICK all \in Seq(Moved \cup Written) : all = ws \o s
  BY ConcatProperties
<1>9. v.todo = rest /\ v.writes = all /\ v.step = step
  BY <1>2, <1>7, <1>8 DEF Transaction
<1>10. tx'[c] = v
  BY <1>1, <1>2, <1>3, <1>4, <1>6, <1>7 DEF WriteTask, TablesTyped
<1>11. PICK n \in Nat : n = Len(tasks) /\ n # 0
  BY <1>2, EmptySeq, LenProperties
<1>12. /\ DOMAIN tasks = 1..n /\ rest \in Seq(Moving \cup Saving) /\ Len(rest) = n - 1 /\ DOMAIN rest = 1..(n - 1)
       /\ \A k \in 1..(n - 1) : rest[k] = tasks[k + 1] /\ k + 1 \in 1..n
       /\ \A k \in 1..n : k = 1 \/ (k - 1 \in 1..(n - 1) /\ rest[k - 1] = tasks[k])
  BY <1>2, <1>6, <1>11
<1>13. step = "commit" => rest = <<>>
  <2>1. rest = <<>> <=> Len(rest) = 0
    BY <1>12, EmptySeq
  <2> QED
    BY <1>6, <1>11, <1>12, <2>1
<1>14. step \in {"read", "commit"}
  BY <1>6
<1>15. /\ \A k \in DOMAIN all : (\E j \in DOMAIN ws : all[k] = ws[j]) \/ all[k] \in found
       /\ \A j \in DOMAIN ws : \E k \in DOMAIN all : all[k] = ws[j]
       /\ \A w \in found : \E k \in DOMAIN all : all[k] = w
  <2>1. PICK a \in Nat, b \in Nat : a = Len(ws) /\ b = Len(s)
    OBVIOUS
  <2>2. /\ DOMAIN all = 1..(a + b) /\ DOMAIN ws = 1..a /\ DOMAIN s = 1..b
        /\ \A k \in 1..a : k \in 1..(a + b) /\ all[k] = ws[k]
        /\ \A k \in 1..b : a + k \in 1..(a + b) /\ all[a + k] = s[k]
        /\ \A k \in 1..(a + b) : k \in 1..a \/ (k - a \in 1..b /\ all[k] = s[k - a])
    BY <1>8, <2>1
  <2>3. \A k \in 1..(a + b) : (\E j \in 1..a : all[k] = ws[j]) \/ all[k] \in found
    BY <1>4, <2>2
  <2>4. \A w \in found : \E k \in 1..(a + b) : all[k] = w
    BY <1>4, <2>2
  <2> QED
    BY <2>2, <2>3, <2>4
<1>16. \A k \in DOMAIN all : all[k].op = "save"
  BY <1>5, <1>15
<1>17. \A k, l \in DOMAIN all : all[k].id = all[l].id => all[k].new = all[l].new
  <2> SUFFICES ASSUME NEW k \in DOMAIN all, NEW l \in DOMAIN all, all[k].id = all[l].id
               PROVE  all[k].new = all[l].new
    OBVIOUS
  <2>1. \/ all[k] \in found \/ \E j \in DOMAIN ws : all[k] = ws[j]
    BY <1>15
  <2>2. \/ all[l] \in found \/ \E j \in DOMAIN ws : all[l] = ws[j]
    BY <1>15
  <2>3. PICK v1, v2 : v1 = all[k] /\ v2 = all[l]
    OBVIOUS
  <2>4. CASE v1 \in found /\ v2 \in found
    BY <1>5, <2>3, <2>4
  <2>5. ASSUME NEW w \in found, NEW j \in DOMAIN ws, w.id = ws[j].id PROVE w.new = ws[j].new
    BY <1>5, <2>5
  <2>6. ASSUME NEW i \in DOMAIN ws, NEW j \in DOMAIN ws, ws[i].id = ws[j].id PROVE ws[i].new = ws[j].new
    BY <1>5, <2>6
  <2>7. v1.id = v2.id => v1.new = v2.new
    BY <2>1, <2>2, <2>3, <2>4, <2>5, <2>6
  <2> QED
    BY <2>3, <2>7
<1>18. ASSUME NEW p \in pages
       PROVE  (\E k \in DOMAIN rest : rest[k].to = p.slug) \/ \E k \in DOMAIN all : all[k].new = p.slug
  <2>1. CASE \E k \in DOMAIN ws : ws[k].new = p.slug
    BY <1>15, <2>1
  <2>2. ASSUME NEW k \in DOMAIN tasks, tasks[k].to = p.slug
        PROVE  (\E l \in DOMAIN rest : rest[l].to = p.slug) \/ \E l \in DOMAIN all : all[l].new = p.slug
    <3>1. CASE k = 1
      <4>1. PICK w \in found : w.new = p.slug
        BY <1>5, <2>2, <3>1
      <4> QED
        BY <1>15, <4>1
    <3>2. CASE k # 1
      BY <1>12, <2>2, <3>2
    <3> QED
      BY <3>1, <3>2
  <2> QED
    BY <1>5, <2>1, <2>2
<1>19. \A k \in DOMAIN rest : rest[k].op = "save" /\ rest[k].from = None
  <2>1. \A k \in 1..n : tasks[k].op = "save" /\ tasks[k].from = None
    BY <1>5, <1>12
  <2>2. \A k \in 1..(n - 1) : rest[k] = tasks[k + 1] /\ k + 1 \in 1..n
    BY <1>12
  <2>3. DOMAIN rest = 1..(n - 1)
    BY <1>12
  <2> QED
    BY <2>1, <2>2, <2>3
<1>20. Saves(pages, v)
  BY <1>9, <1>13, <1>14, <1>16, <1>17, <1>18, <1>19 DEF Saves
<1> QED
  BY <1>10, <1>20

LEMMA OthersKept ==
    ASSUME TablesTyped, NEW e, NEW step, NEW c \in Clients, e # c
    PROVE  Kept(tx[c], Changed(e, step)[c])
<1>1. PICK p : p = Changed(e, step)[c]
  OBVIOUS
<1>2. PICK b \in BOOLEAN :
         p = [todo |-> tx[c].todo, found |-> tx[c].found, writes |-> tx[c].writes,
              rest |-> tx[c].rest, alone |-> b, step |-> tx[c].step]
  BY <1>1, OthersChange
<1>3. p.todo = tx[c].todo /\ p.found = tx[c].found /\ p.writes = tx[c].writes /\ p.step = tx[c].step
  BY <1>2
<1> QED
  BY <1>1, <1>3 DEF Kept

\* What becomes of a transaction that is under way: its own step is taken, or
\* it goes on as it is, or it is given up.
LEMMA PagesMove ==
    ASSUME TablesTyped, PageStep, NEW c \in Clients, tx[c].step \in {"read", "write", "commit"}
    PROVE  \/ Kept(tx[c], tx'[c])
           \/ tx'[c].step = "idle"
           \/ Commit(c) \/ ReadMoved(c) \/ savePageRecord(c) \/ WriteTask(c)
<1>1. ASSUME NEW e \in Clients, NEW t, tx' = [tx EXCEPT ![e] = t], e # c PROVE Kept(tx[c], tx'[c])
  <2>1. tx'[c] = tx[c]
    BY <1>1 DEF TablesTyped
  <2> QED
    BY <2>1 DEF Kept
<1>2. ASSUME NEW e, NEW step, tx' = Changed(e, step), e # c PROVE Kept(tx[c], tx'[c])
  BY <1>2, OthersKept
<1>3. ASSUME NEW e \in Clients, NEW tasks, Begin(e, tasks) PROVE Kept(tx[c], tx'[c])
  <2>1. e # c
    BY <1>3 DEF Begin
  <2> QED
    BY <1>1, <1>3, <2>1 DEF Begin
<1>4. ASSUME NEW e \in Clients, NEW i, PermanentlyDeletePage(e, i) PROVE Kept(tx[c], tx'[c])
  <2>1. e # c /\ tx' = Changed(e, "invalidate")
    BY <1>4 DEF PermanentlyDeletePage
  <2> QED
    BY <1>2, <2>1
<1>5. ASSUME NEW e \in Clients, NEW from, NEW to, MovePage(e, "user", from, to, FALSE) PROVE Kept(tx[c], tx'[c])
  BY <1>3, <1>5 DEF MovePage
<1>6. ASSUME NEW e \in Clients, NEW from, Save(e, "user", from, from, FALSE, {}) PROVE Kept(tx[c], tx'[c])
  BY <1>3, <1>6 DEF Save
<1>7. CASE PageRequest
  BY <1>4, <1>5, <1>6, <1>7 DEF PageRequest
<1>8. ASSUME NEW new, Statement(new) PROVE Kept(tx[c], tx'[c])
  BY <1>2, <1>8, FinitePaths DEF Statement
<1>9. ASSUME NEW i, BulkDeletePages({i}) \/ RestorePage(i) PROVE Kept(tx[c], tx'[c])
  BY <1>8, <1>9 DEF BulkDeletePages, RestorePage
<1>10. ASSUME NEW e \in Clients, NEW writes, Found(e, writes), e # c PROVE Kept(tx[c], tx'[c])
  <2>1. tx'[c] = tx[c]
    BY <1>10 DEF Found, TablesTyped
  <2> QED
    BY <2>1 DEF Kept
<1>11. ASSUME NEW e \in Clients, e # c, ReadMoved(e) PROVE Kept(tx[c], tx'[c])
  <2>1. \E writes : Found(e, writes)
    BY <1>11 DEF ReadMoved
  <2> QED
    BY <1>10, <1>11, <2>1
<1>12. ASSUME NEW e \in Clients, e # c, savePageRecord(e) PROVE Kept(tx[c], tx'[c])
  <2>1. \E writes : Found(e, writes)
    BY <1>12 DEF savePageRecord
  <2> QED
    BY <1>10, <1>12, <2>1
<1>13. ASSUME NEW e \in Clients, e # c, WriteTask(e) PROVE Kept(tx[c], tx'[c])
  <2>1. tx'[c] = tx[c]
    BY <1>13 DEF WriteTask, TablesTyped
  <2> QED
    BY <2>1 DEF Kept
<1>14. ASSUME NEW e \in Clients, e # c, Commit(e) PROVE Kept(tx[c], tx'[c])
  BY <1>2, <1>14 DEF Commit
<1>15. ASSUME NEW e \in Clients, Rollback(e) PROVE Kept(tx[c], tx'[c]) \/ tx'[c].step = "idle"
  <2>1. CASE e = c
    <3>1. tx'[c] = Idle
      BY <1>15, <2>1 DEF Rollback, TablesTyped
    <3> QED
      BY <3>1 DEF Idle
  <2>2. CASE e # c
    BY <1>1, <1>15, <2>2 DEF Rollback
  <2> QED
    BY <2>1, <2>2
<1>16. ASSUME NEW e \in Clients, InvalidateIcons(e) PROVE Kept(tx[c], tx'[c])
  <2>1. e # c /\ \E t : tx' = [tx EXCEPT ![e] = t]
    BY <1>16 DEF InvalidateIcons, Invalidated
  <2> QED
    BY <1>1, <2>1
<1>17. \/ PageRequest
       \/ \E e \in Clients :
             ReadMoved(e) \/ savePageRecord(e) \/ WriteTask(e) \/ Commit(e) \/ Rollback(e) \/ InvalidateIcons(e)
       \/ \E i \in Ids : BulkDeletePages({i}) \/ RestorePage(i)
  BY DEF PageStep
<1> QED
  BY <1>7, <1>9, <1>11, <1>12, <1>13, <1>14, <1>15, <1>16, <1>17

\* One transaction commits at a time.
LEMMA OneCommits ==
    ASSUME TablesTyped, PageStep, NEW c \in Clients, Commits(c)
    PROVE  Commit(c) /\ \A e \in Clients : Commits(e) => e = c
<1>1. tx[c].step = "commit" /\ tx'[c].step = "invalidate"
  BY DEF Commits
<1>2. Commit(c)
  <2>1. ~Kept(tx[c], tx'[c]) /\ ~(tx'[c].step = "idle")
    BY <1>1 DEF Kept
  <2>2. ~ReadMoved(c) /\ ~savePageRecord(c) /\ ~WriteTask(c)
    BY <1>1 DEF ReadMoved, savePageRecord, WriteTask
  <2> QED
    BY <1>1, <2>1, <2>2, PagesMove
<1>3. ASSUME NEW e \in Clients, e # c PROVE ~Commits(e)
  <2>1. Kept(tx[e], tx'[e])
    BY <1>2, <1>3, OthersKept DEF Commit
  <2> QED
    BY <2>1 DEF Kept, Commits
<1> QED
  BY <1>2, <1>3

\* A restore that is neither committed nor given up goes on to save its pages.
LEMMA SavesGoOn ==
    ASSUME TablesTyped, PageStep, NEW c \in Clients, NEW pages, Saves(pages, tx[c])
    PROVE  Saves(pages, tx'[c]) \/ tx'[c].step = "idle" \/ Commits(c)
<1>1. tx[c].step \in {"read", "write", "commit"}
  BY DEF Saves
<1>2. ~ReadMoved(c)
  <2>1. SUFFICES ASSUME ReadMoved(c) PROVE FALSE
    OBVIOUS
  <2>2. PICK tasks \in Seq(Moving \cup Saving) : tasks = tx[c].todo /\ tasks # <<>>
    <3>1. tx[c].todo \in Seq(Moving \cup Saving) /\ tx[c].todo # <<>>
      BY <2>1 DEF TablesTyped, Transaction, Underway, ReadMoved
    <3> QED
      BY <3>1
  <2>3. Len(tasks) \in Nat /\ Len(tasks) # 0 /\ DOMAIN tasks = 1..Len(tasks)
    BY <2>2, EmptySeq, LenProperties
  <2>4. 1 \in DOMAIN tasks /\ Head(tasks) = tasks[1]
    BY <2>2, <2>3
  <2>5. tasks[1].op = "save"
    BY <2>2, <2>4 DEF Saves
  <2> QED
    BY <2>1, <2>2, <2>4, <2>5 DEF ReadMoved
<1>3. Commit(c) => Commits(c)
  <2>1. Changed(c, "invalidate")[c].step = "invalidate"
    BY OwnStep
  <2> QED
    BY <2>1 DEF Commit, Commits
<1> QED
  BY <1>1, <1>2, <1>3, PagesMove, KeptSaves, SavesRead, SavesWritten

\* A commit publishes the files of the archive under their new numbers.
LEMMA PublishedFiles ==
    ASSUME FilesTyped, ArchivesSound, work.step = "restore", NEW c, PublishRestore(c)
    PROVE  /\ StoredGiven(files', last)
           /\ \A k \in DOMAIN shelf.resources :
                 LET g == work.new[shelf.resources[k].file] IN
                 /\ g \in File /\ files'[g] # None /\ files'[g].data = shelf.resources[k].data
<1>1. PICK new \in Numbers : new = work.new
  BY DEF FilesTyped, ShelfWork
<1>2. DOMAIN new \subseteq File /\ \A g \in DOMAIN new : new[g] \in File
  BY DEF Numbers
<1>3. PICK resources \in Seq(Resource) : resources = shelf.resources
  BY DEF FilesTyped, Archive
<1>4. /\ \A k, l \in DOMAIN resources : resources[k].file = resources[l].file => k = l
      /\ \A k \in DOMAIN resources : resources[k].file \in DOMAIN new
      /\ \A f \in DOMAIN new : Given(last, new[f])
      /\ \A f, g \in DOMAIN new : new[f] = new[g] => f = g
  BY <1>1, <1>3 DEF ArchivesSound, Numbered, readArchiveResources
<1>5. \A f \in File : files'[f] = RestoreFiles[f]
  BY DEF PublishRestore
<1>6. ASSUME NEW f \in File, ~ \E g \in DOMAIN new : new[g] = f
      PROVE  RestoreFiles[f] = files[f]
  BY <1>1, <1>6 DEF RestoreFiles
<1>7. StoredGiven(files', last)
  <2> SUFFICES ASSUME NEW f \in File, files'[f] # None PROVE Given(last, f)
    BY DEF StoredGiven
  <2>1. CASE \E g \in DOMAIN new : new[g] = f
    BY <1>4, <2>1
  <2>2. CASE ~ \E g \in DOMAIN new : new[g] = f
    <3>1. files[f] # None
      BY <1>5, <1>6, <2>2
    <3> QED
      BY <3>1 DEF ArchivesSound, StoredGiven
  <2> QED
    BY <2>1, <2>2
<1>8. ASSUME NEW k \in DOMAIN resources
      PROVE  LET g == new[resources[k].file] IN
             g \in File /\ files'[g] # None /\ files'[g].data = resources[k].data
  <2>1. PICK h \in DOMAIN new : h = resources[k].file
    BY <1>4
  <2>2. PICK f \in File : f = new[h]
    BY <1>2
  <2>3. h = CHOOSE g \in DOMAIN new : new[g] = f
    <3>1. PICK g : g = CHOOSE x \in DOMAIN new : new[x] = f
      OBVIOUS
    <3>2. g \in DOMAIN new /\ new[g] = f
      BY <2>2, <3>1
    <3>3. g = h
      BY <1>4, <2>2, <3>2
    <3> QED
      BY <3>1, <3>3
  <2>4. k = CHOOSE l \in DOMAIN resources : resources[l].file = h
    <3>1. PICK l : l = CHOOSE x \in DOMAIN resources : resources[x].file = h
      OBVIOUS
    <3>2. l \in DOMAIN resources /\ resources[l].file = h
      BY <2>1, <3>1
    <3>3. l = k
      BY <1>4, <2>1, <3>2
    <3> QED
      BY <3>1, <3>3
  <2>5. RestoreFiles[f] = [by |-> "administrator", data |-> resources[k].data]
    BY <1>1, <1>3, <2>2, <2>3, <2>4 DEF RestoreFiles
  <2>6. resources[k] \in Resource
    BY <1>3
  <2>7. RestoreFiles[f] \in Upload /\ RestoreFiles[f].data = resources[k].data
    BY <2>5, <2>6 DEF Upload, Resource
  <2> QED
    BY <1>5, <2>1, <2>2, <2>7, ArchiveConstants
<1> QED
  BY <1>1, <1>3, <1>7, <1>8

LEMMA PageStepSound ==
    ASSUME TablesTyped, FilesTyped, ArchivesSound, PageStep
    PROVE  ArchivesSound'
<1>1. UNCHANGED <<last, shelf, fileOps>>
  BY DEF PageStep
<1>2. PICK w \in ShelfWork : w = work
  BY DEF FilesTyped
<1>3. NoJob.client = None /\ NoJob.step = "idle"
  BY DEF NoJob
<1>4. /\ fileOps > MaxFileOps => w = NoJob
      /\ StoredGiven(files, last) /\ Complete(shelf) /\ Exported(w, last, files)
      /\ w.client # None <=> w.step = "restore"
      /\ w.step = "restore" => Numbered(shelf, w.new, last) /\ Saves(shelf.pages, tx[w.client])
  BY <1>2 DEF ArchivesSound
<1>5. ASSUME NEW c \in Clients, Commits(c), work.client = c, PublishRestore(c) PROVE ArchivesSound'
  <2>1. w.step = "restore"
    BY <1>2, <1>4, <1>5, FinitePaths
  <2>2. StoredGiven(files', last)
    BY <1>2, <1>5, <2>1, PublishedFiles
  <2>3. work' = NoJob
    BY <1>5 DEF PublishRestore
  <2>4. Exported(NoJob, last, files')
    BY <1>3 DEF Exported
  <2> QED
    BY <1>1, <1>3, <1>4, <2>2, <2>3, <2>4 DEF ArchivesSound
<1>6. ASSUME NEW c \in Clients, Commits(c), work.client # c, PublishSave(c) PROVE ArchivesSound'
  <2>1. UNCHANGED <<files, work>>
    BY <1>6 DEF PublishSave
  <2>2. ASSUME w.step = "restore" PROVE Saves(shelf.pages, tx'[w.client])
    <3>1. PICK e \in Clients : e = w.client
      BY <1>4, <2>2 DEF ShelfWork
    <3>2. Kept(tx[e], tx'[e])
      BY <1>2, <1>6, <3>1, OneCommits, OthersKept DEF Commit
    <3> QED
      BY <1>4, <2>2, <3>1, <3>2, KeptSaves
  <2> QED
    BY <1>1, <1>2, <1>4, <2>1, <2>2 DEF ArchivesSound
<1>7. ASSUME \A c \in Clients : ~Commits(c), UNCHANGED files,
             work' = IF work.client # None /\ tx'[work.client].step = "idle" THEN NoJob ELSE work
      PROVE  ArchivesSound'
  <2>1. CASE work' = NoJob
    <3>1. Exported(NoJob, last, files)
      BY <1>3 DEF Exported
    <3> QED
      BY <1>1, <1>3, <1>4, <1>7, <2>1, <3>1 DEF ArchivesSound
  <2>2. CASE work' # NoJob
    <3>1. work' = w /\ (w.client # None => tx'[w.client].step # "idle")
      BY <1>2, <1>7, <2>2
    <3>2. ASSUME w.step = "restore" PROVE Saves(shelf.pages, tx'[w.client])
      <4>1. PICK e \in Clients : e = w.client
        BY <1>4, <3>2 DEF ShelfWork
      <4>2. Saves(shelf.pages, tx[e]) /\ tx'[e].step # "idle" /\ ~Commits(e)
        BY <1>4, <1>7, <3>1, <3>2, <4>1
      <4> QED
        BY <4>1, <4>2, SavesGoOn
    <3> QED
      BY <1>1, <1>4, <1>7, <3>1, <3>2 DEF ArchivesSound
  <2> QED
    BY <2>1, <2>2
<1>8. \/ \E c \in Clients : Commits(c) /\ work.client = c /\ PublishRestore(c)
      \/ \E c \in Clients : Commits(c) /\ work.client # c /\ PublishSave(c)
      \/ /\ \A c \in Clients : ~Commits(c)
         /\ work' = IF work.client # None /\ tx'[work.client].step = "idle" THEN NoJob ELSE work
         /\ UNCHANGED <<files, texts>>
  BY DEF PageStep
<1> QED
  BY <1>5, <1>6, <1>7, <1>8

LEMMA ArchiveStepSound ==
    ASSUME TablesTyped, FilesTyped, DeletesUnused, ArchivesSound, [ArchiveNext]_archiveVars
    PROVE  ArchivesSound'
<1>1. CASE fileOps > MaxFileOps /\ ReadNext /\ UNCHANGED fileVars
  <2>1. UNCHANGED <<files, last, work, shelf, fileOps>>
    BY <1>1 DEF fileVars
  <2>2. work = NoJob
    BY <1>1 DEF ArchivesSound
  <2>3. work.client = None /\ work.step = "idle"
    BY <2>2 DEF NoJob
  <2> QED
    BY <2>1, <2>3 DEF ArchivesSound
<1>2. CASE UNCHANGED archiveVars
  BY <1>2 DEF archiveVars, readVars, spaceVars, fileVars, ArchivesSound
<1>3. FilesTyped'
  BY ArchiveStep
<1>4. CASE fileOps <= MaxFileOps /\ FileStep
  BY <1>3, <1>4, FileStepSound
<1>5. CASE fileOps <= MaxFileOps /\ PageStep
  BY <1>5, PageStepSound
<1> QED
  BY <1>1, <1>2, <1>4, <1>5 DEF ArchiveNext

\* A page of the archive is where it was, with references to all that it
\* showed.
LEMMA RestoreKeeps ==
    ASSUME TablesTyped, FilesTyped, ArchivesSound, PageStep, work.step = "restore", Commits(work.client),
           NEW p \in shelf.pages
    PROVE  \E i \in Ids : db'.slug[i] = p.slug /\ p.showed \subseteq Showing(files', texts'[i])
<1>1. PICK c \in Clients : c = work.client
  BY DEF ArchivesSound, FilesTyped, ShelfWork
<1>2. Commits(c) /\ Commit(c) /\ \A e \in Clients : Commits(e) => e = c
  BY <1>1, OneCommits
<1>3. PublishRestore(c)
  BY <1>1, <1>2 DEF PageStep
<1>4. Numbered(shelf, work.new, last) /\ Saves(shelf.pages, tx[c]) /\ Complete(shelf)
  BY <1>1 DEF ArchivesSound
<1>5. PICK ws \in Seq(Moved \cup Written) : ws = tx[c].writes
  BY DEF TablesTyped, Transaction
<1>6. tx[c].step = "commit"
  BY <1>2 DEF Commit
<1>7. DOMAIN tx[c].todo = {}
  BY <1>4, <1>6 DEF Saves
<1>8. PICK k \in DOMAIN ws : ws[k].new = p.slug
  BY <1>4, <1>5, <1>7 DEF Saves
<1>9. PICK i \in Ids : i = ws[k].id
  <2>1. ws[k] \in Moved \cup Written
    OBVIOUS
  <2>2. ws[k].id \in Ids
    BY <2>1, PathsAfter DEF Moved, Written
  <2> QED
    BY <2>2
<1>10. db'.slug[i] = p.slug
  <2>1. db' = Replay(db, ws) /\ db \in Tables
    BY <1>2, <1>5 DEF Commit, View, TablesTyped
  <2>2. PICK j \in DOMAIN ws : ws[j].id = i /\ db'.slug[i] = ws[j].new
    BY <1>9, <2>1, SlugsReplayed
  <2>3. ws[j].new = ws[k].new
    BY <1>4, <1>5, <1>9, <2>2 DEF Saves
  <2> QED
    BY <1>8, <2>2, <2>3
<1>11. i \in SavedBy(c)
  <2>1. ws[k].op = "save"
    BY <1>4, <1>5 DEF Saves
  <2>2. ws[k] \in Wrote(c)
    BY <1>5 DEF Wrote
  <2> QED
    BY <1>9, <2>1, <2>2 DEF SavedBy
<1>12. texts'[i] = RestoreResourceReferences(p.text, work.new)
  <2>1. PICK d : d = db'
    OBVIOUS
  <2>2. texts'[i] = RestoredText(d, i)
    BY <1>3, <1>11, <2>1 DEF PublishRestore
  <2>3. p = CHOOSE q \in shelf.pages : q.slug = d.slug[i]
    <3>1. PICK q : q = CHOOSE x \in shelf.pages : x.slug = d.slug[i]
      OBVIOUS
    <3>2. q \in shelf.pages /\ q.slug = p.slug
      BY <1>10, <2>1, <3>1
    <3>3. q = p
      BY <1>4, <3>2 DEF Numbered, readArchivePages
    <3> QED
      BY <3>1, <3>3
  <2> QED
    BY <1>10, <2>1, <2>2, <2>3 DEF RestoredText
<1>13. ASSUME NEW data \in p.showed PROVE data \in Showing(files', texts'[i])
  <2>1. PICK f \in File : <<"relative", f>> \in p.text /\ HasData(shelf, f, data)
    BY <1>4 DEF Complete
  <2>2. PICK l \in DOMAIN shelf.resources : shelf.resources[l].file = f /\ shelf.resources[l].data = data
    BY <2>1 DEF HasData
  <2>3. f \in DOMAIN work.new
    BY <1>4, <2>2 DEF Numbered
  <2>4. PICK g : g = work.new[f]
    OBVIOUS
  <2>5. g \in File /\ files'[g] # None /\ files'[g].data = data
    BY <1>3, <2>2, <2>4, PublishedFiles
  <2>6. <<"url", g>> \in texts'[i]
    <3>1. PICK r \in p.text : r = <<"relative", f>>
      BY <2>1
    <3>2. r[1] = "relative" /\ r[2] = f
      BY <3>1
    <3> QED
      BY <1>12, <2>3, <2>4, <3>2 DEF RestoreResourceReferences
  <2>7. g \in ReferencedFiles(texts'[i])
    <3>1. PICK r : r = <<"url", g>>
      OBVIOUS
    <3>2. r \in texts'[i] /\ r[1] = "url" /\ r[2] = g
      BY <2>6, <3>1
    <3> QED
      BY <3>2 DEF ReferencedFiles, Ranges
  <2> QED
    BY <2>5, <2>7 DEF Showing
<1> QED
  BY <1>10, <1>13

\* No file is handled in the step of a commit.
LEMMA CommitsAlone ==
    ASSUME TablesTyped, FilesTyped, ArchivesSound, [ArchiveNext]_archiveVars,
           work.step = "restore", Commits(work.client)
    PROVE  PageStep
<1>1. work # NoJob
  BY DEF NoJob
<1>2. tx' # tx
  BY DEF Commits
<1>3. CASE UNCHANGED archiveVars
  BY <1>2, <1>3 DEF archiveVars, readVars, spaceVars
<1>4. ~(fileOps > MaxFileOps)
  BY <1>1 DEF ArchivesSound
<1>5. CASE FileStep
  BY <1>1, <1>2, <1>5 DEF FileStep, ImageRequest, AttachmentRequest, UploadImage, UploadAttachment, saveFile,
              DeleteFile, FinishDeletion, DeleteAdminAttachment, ExportPortablePages, ExportPageMarkdown,
              PreviewPageExport, StartExport, WritePage, WriteResource, FinishExport, Work, Restore, readVars, spaceVars
<1> QED
  BY <1>3, <1>4, <1>5 DEF ArchiveNext

\* Only an export that ends changes the shelf.
LEMMA ShelfChanges ==
    ASSUME [ArchiveNext]_archiveVars, shelf' # shelf
    PROVE  FinishExport /\ work.portable /\ shelf' = work.out
<1>1. FinishExport
  BY DEF ArchiveNext, PageStep, archiveVars, fileVars, FileStep, ImageRequest, AttachmentRequest, UploadImage,
         UploadAttachment, saveFile, DeleteFile, FinishDeletion, DeleteAdminAttachment, ExportPortablePages,
         ExportPageMarkdown, PreviewPageExport, StartExport, WritePage, WriteResource, Restore
<1> QED
  BY <1>1 DEF FinishExport

LEMMA ArchivesStart ==
    ASSUME ArchiveInit
    PROVE  ArchivesSound
<1>1. work = NoJob /\ work.client = None /\ work.step = "idle"
  BY DEF ArchiveInit, NoJob
<1>2. shelf.pages = {}
  BY DEF ArchiveInit, NoArchive
<1>3. StoredGiven(files, last)
  <2> SUFFICES ASSUME NEW f \in File, files[f] # None PROVE Given(last, f)
    BY DEF StoredGiven
  <2>1. f[2] = 1 /\ f[1] \in Kinds
    BY FileParts DEF ArchiveInit
  <2>2. last[f[1]] = 1
    BY <2>1 DEF ArchiveInit
  <2> QED
    BY <2>1, <2>2 DEF Given
<1>4. Complete(shelf)
  BY <1>2 DEF Complete
<1> QED
  BY <1>1, <1>3, <1>4 DEF ArchivesSound, Exported

\* An export that succeeds is an archive the import accepts (up to the size
\* limit, which exports do not have), and a restore that commits leaves every
\* page of it with references to all the files the page showed when it was
\* exported, whatever was moved or deleted in between.
THEOREM ArchivesKeep == ArchiveSpec => ArchivesKeepContent
<1> DEFINE Content == /\ shelf' # shelf /\ Size(shelf') <= MaxBytes => Parse(shelf')
                      /\ work.step = "restore" /\ Commits(work.client) =>
                            \A p \in shelf.pages : \E i \in Ids :
                                db'.slug[i] = p.slug /\ p.showed \subseteq Showing(files', texts'[i])
<1>1. ArchiveInit => ArchivesSound
  BY ArchivesStart
<1>2. TablesTyped /\ FilesTyped /\ DeletesUnused /\ ArchivesSound /\ [ArchiveNext]_archiveVars => ArchivesSound'
  BY ArchiveStepSound
<1>3. TablesTyped /\ FilesTyped /\ DeletesUnused /\ ArchivesSound /\ [ArchiveNext]_archiveVars => Content
  <2> SUFFICES ASSUME TablesTyped, FilesTyped, DeletesUnused, ArchivesSound, [ArchiveNext]_archiveVars
               PROVE  Content
    OBVIOUS
  <2>1. ASSUME shelf' # shelf, Size(shelf') <= MaxBytes PROVE Parse(shelf')
    BY <2>1, ShelfChanges, ExportIsSound DEF Parse
  <2>2. ASSUME work.step = "restore", Commits(work.client), NEW p \in shelf.pages
        PROVE  \E i \in Ids : db'.slug[i] = p.slug /\ p.showed \subseteq Showing(files', texts'[i])
    BY <2>2, CommitsAlone, RestoreKeeps
  <2> QED
    BY <2>1, <2>2
<1> HIDE DEF Content
<1>4. ArchiveSpec => []ArchivesSound /\ [][Content]_archiveVars
  BY <1>1, <1>2, <1>3, ArchiveInvariance, PTL DEF ArchiveSpec
<1> QED
  BY <1>4, PTL DEF ArchivesKeepContent, Content
=============================================================================
