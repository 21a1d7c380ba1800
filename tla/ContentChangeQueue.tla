------------------------- MODULE ContentChangeQueue -------------------------
(***************************************************************************)
(* Delivery of committed page changes to plugin hooks: the enqueue after a *)
(* save (ContentChangeWorker.ContentChanged), the queue table and the      *)
(* worker of each server that claims, delivers and acknowledges its rows   *)
(* (internal/pluginruntime/content_change_worker.go).                      *)
(*                                                                         *)
(* Time is reduced to what the statements compare with now(): a row is     *)
(* ready, leased until a lapse, or waiting for its next attempt.  A lease  *)
(* may lapse while its batch is still worked on: nothing renews it, and a  *)
(* batch holds up to 16 rows with several hooks each.  Attempt counts and  *)
(* backoff are left out with the delays, and so are the wake-ups: the      *)
(* worker also looks at the queue every five seconds.                      *)
(***************************************************************************)
EXTENDS Naturals, FiniteSets, Sequences, SequencesExt

CONSTANTS
    Servers,       \* servers on one database, each with a worker
    Plugins,       \* plugins that own content-change hooks
    Changes,       \* committed changes of page sources
    Home,          \* the server each change is made on
    BatchSize,     \* contentChangeBatchSize
    MaxFailures,   \* bound: hook calls and statements that fail
    MaxCrashes,    \* bound: servers that end between two steps
    MaxToggles     \* bound: plugins that are disabled or enabled

VARIABLES
    active,     \* plugins with an active entry, per server
    saver,      \* where the request that made each change stands
    queue,      \* plugin_content_changes
    work,       \* what each worker is doing
    handled,    \* history: rows whose delivery returned without an error
    lapsed,     \* history: rows whose lease ran out
    failures, crashes, toggles

vars == <<active, saver, queue, work, handled, lapsed, failures, crashes, toggles>>

ASSUME QueueAssumption ==
    /\ IsFiniteSet(Changes) /\ IsFiniteSet(Plugins)
    /\ Home \in [Changes -> Servers]
    /\ BatchSize \in Nat \ {0}
    /\ {MaxFailures, MaxCrashes, MaxToggles} \subseteq Nat

\* A row is known by its id; ids are drawn as rows are inserted.
Ids == 1..(Cardinality(Changes) * Cardinality(Plugins))
Row == [change : Changes, plugin : Plugins, state : {"ready", "leased", "waiting", "deleted"}]
Inserted == DOMAIN queue
InState(state) == {id \in Inserted : queue[id].state = state}
Live == {id \in Inserted : queue[id].state # "deleted"}

Saver == [step : {"none", "committed", "targeted", "direct", "over"},
          targets : SUBSET Plugins]

\* A worker goes through the rows it claimed; "hook" is a running delivery,
\* "done" and "failed" its outcome before the statement that records it.
Work == [rows : SUBSET Ids, current : Ids \cup {0},
         step : {"idle", "batch", "hook", "done", "failed"}]
Rest == [rows |-> {}, current |-> 0, step |-> "idle"]

-----------------------------------------------------------------------------
(* The request that changed a page.                                         *)

\* The save transaction has committed; the hooks come after it.
Commit(c) ==
    /\ saver[c].step = "none"
    /\ saver' = [saver EXCEPT ![c] = [step |-> "committed", targets |-> {}]]
    /\ UNCHANGED <<active, queue, work, handled, lapsed, failures, crashes, toggles>>

\* ContentChangeTargets: the plugins active now.
QueuedChanges(c) ==
    LET targets == active[Home[c]] IN
    /\ saver[c].step = "committed"
    /\ saver' = [saver EXCEPT ![c].targets = targets,
                              ![c].step = IF targets = {} THEN "over" ELSE "targeted"]
    /\ UNCHANGED <<active, queue, work, handled, lapsed, failures, crashes, toggles>>

\* One transaction inserts a row for every target.
RowsFor(c) ==
    SetToSeq({[change |-> c, plugin |-> p, state |-> "ready"] : p \in saver[c].targets})

Insert(c) == queue' = queue \o RowsFor(c)

EnqueuePluginContentChanges(c) ==
    /\ saver[c].step = "targeted"
    /\ Insert(c)
    /\ saver' = [saver EXCEPT ![c].step = "over"]
    /\ UNCHANGED <<active, work, handled, lapsed, failures, crashes, toggles>>

\* The transaction fails, or its reply is lost: the request delivers itself.
EnqueueFails(c) ==
    /\ saver[c].step = "targeted"
    /\ failures < MaxFailures
    /\ failures' = failures + 1
    /\ UNCHANGED queue \/ Insert(c)
    /\ saver' = [saver EXCEPT ![c].step = "direct"]
    /\ UNCHANGED <<active, work, handled, lapsed, crashes, toggles>>

\* deliverAll: each target once; an error is logged and that is all.
DeliverDirectly(c, p) ==
    /\ saver[c].step = "direct" /\ p \in saver[c].targets
    /\ saver' = [saver EXCEPT ![c].targets = @ \ {p},
                              ![c].step = IF saver[c].targets = {p} THEN "over" ELSE @]
    /\ failures' \in {failures} \cup (IF failures < MaxFailures THEN {failures + 1} ELSE {})
    /\ UNCHANGED <<active, queue, work, handled, lapsed, crashes, toggles>>

-----------------------------------------------------------------------------
(* The worker of a server.                                                  *)

\* The first n rows by id of a set.
First(n, rows) == {id \in rows : Cardinality({other \in rows : other < id}) < n}

\* Fault: the claim does not look at claimed_until.
ClaimLeased(s) ==
    LET rows == First(BatchSize, InState("ready") \cup InState("leased")) IN
    /\ work[s].step = "idle"
    /\ rows # {}
    /\ queue' = [id \in Inserted |->
                    IF id \in rows THEN [queue[id] EXCEPT !.state = "leased"] ELSE queue[id]]
    /\ work' = [work EXCEPT ![s] = [rows |-> rows, current |-> 0, step |-> "batch"]]
    /\ UNCHANGED <<active, saver, handled, lapsed, failures, crashes, toggles>>

\* ClaimPluginContentChanges leases the oldest rows that are ready; rows that
\* another claim has locked are its own.  An empty claim ends processPending.
ClaimPluginContentChanges(s) ==
    LET rows == First(BatchSize, InState("ready")) IN
    /\ work[s].step = "idle"
    /\ rows # {}
    /\ queue' = [id \in Inserted |->
                    IF id \in rows THEN [queue[id] EXCEPT !.state = "leased"] ELSE queue[id]]
    /\ work' = [work EXCEPT ![s] = [rows |-> rows, current |-> 0, step |-> "batch"]]
    /\ UNCHANGED <<active, saver, handled, lapsed, failures, crashes, toggles>>

\* processOne calls the hook of an active plugin; for one that is no longer
\* active ContentChangedFor returns at once, without an error.
Deliver(s, id) ==
    /\ work[s].step = "batch" /\ id \in work[s].rows
    /\ work' = [work EXCEPT ![s].rows = @ \ {id}, ![s].current = id,
                            ![s].step = IF queue[id].plugin \in active[s] THEN "hook" ELSE "done"]
    /\ handled' = IF queue[id].plugin \in active[s] THEN handled ELSE handled \cup {id}
    /\ UNCHANGED <<active, saver, queue, lapsed, failures, crashes, toggles>>

HookReturns(s) ==
    /\ work[s].step = "hook"
    /\ work' = [work EXCEPT ![s].step = "done"]
    /\ handled' = handled \cup {work[s].current}
    /\ UNCHANGED <<active, saver, queue, lapsed, failures, crashes, toggles>>

HookFails(s) ==
    /\ work[s].step = "hook"
    /\ failures < MaxFailures
    /\ failures' = failures + 1
    /\ work' = [work EXCEPT ![s].step = "failed"]
    /\ UNCHANGED <<active, saver, queue, handled, lapsed, crashes, toggles>>

\* The loop goes on with the batch, with another claim, or rests.
Onward(w) ==
    IF w.rows # {} THEN [w EXCEPT !.step = "batch", !.current = 0] ELSE Rest

\* The statements name the row by its id alone, whoever leases it by now.
Recorded(s, state) ==
    /\ queue' = [queue EXCEPT ![work[s].current].state = IF @ = "deleted" THEN @ ELSE state]
    /\ work' = [work EXCEPT ![s] = Onward(@)]
    /\ UNCHANGED <<active, saver, handled, lapsed, failures, crashes, toggles>>

\* Fault: an event is acknowledged before its hook has returned.
CompleteEarly(s) == work[s].step \in {"hook", "done"} /\ Recorded(s, "deleted")

CompletePluginContentChange(s) == work[s].step = "done" /\ Recorded(s, "deleted")

RetryPluginContentChange(s) == work[s].step = "failed" /\ Recorded(s, "waiting")

\* The statement fails: the row keeps its lease until it lapses.
RecordFails(s) ==
    /\ work[s].step \in {"done", "failed"}
    /\ failures < MaxFailures
    /\ failures' = failures + 1
    /\ work' = [work EXCEPT ![s] = Onward(@)]
    /\ UNCHANGED <<active, saver, queue, handled, lapsed, crashes, toggles>>

-----------------------------------------------------------------------------
(* Time, administration and crashes.                                        *)

LeaseLapses(id) ==
    /\ queue[id].state = "leased"
    /\ queue' = [queue EXCEPT ![id].state = "ready"]
    /\ lapsed' = lapsed \cup {id}
    /\ UNCHANGED <<active, saver, work, handled, failures, crashes, toggles>>

RetryTimeComes(id) ==
    /\ queue[id].state = "waiting"
    /\ queue' = [queue EXCEPT ![id].state = "ready"]
    /\ UNCHANGED <<active, saver, work, handled, lapsed, failures, crashes, toggles>>

Toggle(s, p) ==
    /\ toggles < MaxToggles
    /\ toggles' = toggles + 1
    /\ active' = [active EXCEPT ![s] = IF p \in @ THEN @ \ {p} ELSE @ \cup {p}]
    /\ UNCHANGED <<saver, queue, work, handled, lapsed, failures, crashes>>

\* The server ends with its requests and its worker, and starts again.
Crash(s) ==
    /\ crashes < MaxCrashes
    /\ crashes' = crashes + 1
    /\ work' = [work EXCEPT ![s] = Rest]
    /\ saver' = [c \in Changes |->
                    IF saver[c].step # "none" /\ Home[c] = s
                    THEN [saver[c] EXCEPT !.step = "over"] ELSE saver[c]]
    /\ UNCHANGED <<active, queue, handled, lapsed, failures, toggles>>

-----------------------------------------------------------------------------
Init ==
    /\ active = [s \in Servers |-> Plugins]
    /\ saver = [c \in Changes |-> [step |-> "none", targets |-> {}]]
    /\ queue = <<>>
    /\ work = [s \in Servers |-> Rest]
    /\ handled = {} /\ lapsed = {}
    /\ failures = 0 /\ crashes = 0 /\ toggles = 0

Save(c) ==
    \/ QueuedChanges(c) \/ EnqueuePluginContentChanges(c) \/ EnqueueFails(c)
    \/ \E p \in Plugins : DeliverDirectly(c, p)

Run(s) ==
    \/ ClaimPluginContentChanges(s)
    \/ \E id \in Inserted : Deliver(s, id)
    \/ HookReturns(s) \/ HookFails(s)
    \/ CompletePluginContentChange(s) \/ RetryPluginContentChange(s) \/ RecordFails(s)

Time(id) == LeaseLapses(id) \/ RetryTimeComes(id)

Next ==
    \/ \E c \in Changes : Commit(c) \/ Save(c)
    \/ \E s \in Servers : Run(s) \/ Crash(s) \/ \E p \in Plugins : Toggle(s, p)
    \/ \E id \in Inserted : Time(id)

\* Workers run, requests end, hooks have deadlines and time passes.
Fairness ==
    /\ \A c \in Changes : WF_vars(Save(c))
    /\ \A s \in Servers : WF_vars(Run(s))
    /\ \A id \in Ids : WF_vars(id \in Inserted /\ Time(id))

Spec == Init /\ [][Next]_vars /\ Fairness

-----------------------------------------------------------------------------
TypeOK ==
    /\ active \in [Servers -> SUBSET Plugins]
    /\ saver \in [Changes -> Saver]
    /\ queue \in Seq(Row) /\ Len(queue) <= Cardinality(Ids)
    /\ work \in [Servers -> Work]
    /\ handled \subseteq Inserted /\ lapsed \subseteq Inserted
    /\ failures \in 0..MaxFailures /\ crashes \in 0..MaxCrashes /\ toggles \in 0..MaxToggles

Holds(s) == work[s].rows \cup ({work[s].current} \ {0})

\* Two workers only ever hold one row after its lease ran out under the first.
LeaseExcludes ==
    \A s, t \in Servers : s # t => Holds(s) \cap Holds(t) \subseteq lapsed

\* The rows are a queue that delivers at least once: a row only leaves it after
\* its hook has returned without an error or has found its plugin no longer
\* active, and each leaves it in the end.  No crash, lapsed lease, failed hook or
\* statement, or late answer of another worker loses an event.
Queue == INSTANCE AtLeastOnce WITH Events <- Ids, pending <- Live, delivered <- handled
DeliversAtLeastOnce == Queue!QueueSpec

\* "leases ready events so multiple Kumbuka instances do not deliver the same
\* row concurrently" (plugin_content_changes.go).  Does not hold: see lapsed.
NoConcurrentDelivery ==
    \A s, t \in Servers :
        s # t /\ work[s].step = "hook" /\ work[t].step = "hook" => work[s].current # work[t].current

\* "durably delivers committed page-source changes to active plugin hooks": a
\* change whose request is over has a row for every plugin (plugins do not
\* change here).  Does not hold: the rows come after the commit.
CommittedIsQueued ==
    \A c \in Changes : saver[c].step = "over" =>
        \A p \in Plugins : \E id \in Inserted : queue[id].change = c /\ queue[id].plugin = p
=============================================================================
