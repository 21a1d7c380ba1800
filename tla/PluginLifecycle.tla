--------------------------- MODULE PluginLifecycle ---------------------------
(***************************************************************************)
(* The lifecycle of plugins (pkg/plugin): every server has a Manager that  *)
(* installs, enables, disables, upgrades and uninstalls plugins, a         *)
(* Registry of published contributions, and renders that lease what is     *)
(* published.  Installations live in PostgreSQL, which servers share.      *)
(*                                                                         *)
(* Manager.mu makes the lifecycle operations of one server take turns:     *)
(* op[s] is the operation that holds it.  Registry.mu makes a transition   *)
(* (validation, durable commit, publication) one step against the          *)
(* acquisition of leases, and a lifetime's own mutex makes each acquire,   *)
(* release and retire a step.  Renders, other servers and crashes run      *)
(* between any two of these steps.                                         *)
(*                                                                         *)
(* Versions stand for packages, their digests and manifests; of a manifest *)
(* only Requires is kept.  Contributions, settings, READMEs and the order  *)
(* of contributions are left out.  Validation of a package, loading its    *)
(* WASM and registering its contributions may fail at any time.            *)
(***************************************************************************)
EXTENDS Naturals, FiniteSets

CONSTANTS
    Servers,          \* processes that share the database
    Plugins,          \* plugin IDs
    Versions,         \* package versions
    Requires,         \* Requires[p, v]: plugins that package v of p requires
    Builtins,         \* Builtins[p]: the embedded package of p, a Record
    Required,         \* plugins the operator requires (WithRequiredPlugins)
    Renders,          \* renders and hook calls that may hold a lease
    MaxLoads,         \* bound: instances the runtimes load
    MaxLostReplies    \* bound: commits whose reply does not arrive

\* An installation row, and an entry of Manager.loaded; version 0 is "no row".
Record == [version : Versions \cup {0}, enabled : BOOLEAN]
Instances == 1..MaxLoads
Managed == [version : Versions \cup {0}, enabled : BOOLEAN, instance : 0..MaxLoads]

ASSUME PluginAssumption ==
    /\ Servers # {} /\ Plugins # {} /\ Versions # {}
    /\ Versions \subseteq Nat \ {0}
    /\ Requires \in [Plugins \X Versions -> SUBSET Plugins]
    /\ DOMAIN Builtins \subseteq Plugins
    /\ \A p \in DOMAIN Builtins : Builtins[p] \in Record /\ Builtins[p].version # 0
    /\ Required \subseteq Plugins
    /\ IsFiniteSet(Renders)
    /\ MaxLoads \in Nat /\ MaxLostReplies \in Nat

VARIABLES
    store,     \* plugin_installations
    phase,     \* what each server is doing: starting, up, shut down
    missing,   \* builtins a starting server still has to seed
    loaded,    \* Manager.loaded
    entries,   \* Registry.entries: the published instances
    op,        \* the lifecycle operation that holds Manager.mu
    loads,     \* instances loaded so far
    lives,     \* every loaded instance with its lifetime
    held,      \* instances each render has leased and not yet released
    lost       \* replies lost so far

vars == <<store, phase, missing, loaded, entries, op, loads, lives, held, lost>>

NotInstalled == [version |-> 0, enabled |-> FALSE]
NotLoaded == [version |-> 0, enabled |-> FALSE, instance |-> 0]
Durable(item) == [version |-> item.version, enabled |-> item.enabled]
Idle == [step |-> "idle", id |-> CHOOSE p \in Plugins : TRUE, item |-> NotLoaded,
         archive |-> FALSE, old |-> {}]

Life == [server : Servers, plugin : Plugins, version : Versions,
         refs : Nat, retired : BOOLEAN, done : Nat, closed : Nat]
NewLife(s, p, v) == [server |-> s, plugin |-> p, version |-> v, refs |-> 0,
                     retired |-> FALSE, done |-> 0, closed |-> 0]

InstalledIn(catalog) == {p \in Plugins : catalog[p].version # 0}
EnabledIn(catalog) == {p \in Plugins : catalog[p].version # 0 /\ catalog[p].enabled}

\* dependencyOrder succeeds: what enabled plugins require is enabled, and no
\* set of enabled plugins requires itself in a circle.
Orderable(requires) ==
    LET active == DOMAIN requires IN
    /\ \A p \in active : requires[p] \subseteq active
    /\ \A ring \in (SUBSET active) \ {{}} : \E p \in ring : requires[p] \cap ring = {}

DependencyOrder(catalog) ==
    Orderable([p \in EnabledIn(catalog) |-> Requires[p, catalog[p].version]])

Registered(published) == {lives[i].plugin : i \in published}
Of(p, published) == {i \in published : lives[i].plugin = p}
RequiredBy(i) == Requires[lives[i].plugin, lives[i].version]

\* validateTransitionDependencies on the entries of a candidate registry.
TransitionOrder(published) ==
    Orderable([p \in Registered(published) |-> UNION {RequiredBy(i) : i \in Of(p, published)}])

-----------------------------------------------------------------------------
(* Steps of lifetimes and instances.                                        *)

Acquired(i) == [lives EXCEPT ![i].refs = @ + 1]

\* Fault: release leaves the signal to retire.
SilentRelease(i) == [lives EXCEPT ![i].refs = @ - 1]

\* lifetime.release: the last release of a retired version signals done.
Released(i) ==
    [lives EXCEPT ![i].refs = @ - 1,
                  ![i].done = IF lives[i].retired /\ lives[i].refs = 1 THEN @ + 1 ELSE @]

\* Fault: the instance closes without waiting for its leases.
RetireUndrained(i) == [lives EXCEPT ![i].retired = TRUE, ![i].done = @ + 1, ![i].closed = @ + 1]

\* Manager.retire: a drained version signals and its instance closes at once;
\* otherwise a goroutine waits for the signal (CloseDrained).
RetiredLife(i) ==
    [lives EXCEPT ![i].retired = TRUE,
                  ![i].done = IF lives[i].refs = 0 THEN @ + 1 ELSE @,
                  ![i].closed = IF lives[i].refs = 0 THEN @ + 1 ELSE @]

ClosedAll(closing) ==
    [i \in Instances |->
        IF i \in closing THEN [lives[i] EXCEPT !.closed = @ + 1] ELSE lives[i]]

\* runtime.Load of package v of p on server s, as instance loads + 1.
Load(s, p, v) ==
    /\ loads < MaxLoads
    /\ loads' = loads + 1
    /\ lives' = [lives EXCEPT ![loads + 1] = NewLife(s, p, v)]

NoLoad == UNCHANGED <<loads, lives>>

-----------------------------------------------------------------------------
(* Lifecycle operations take Manager.mu and prepare their item ...          *)

Free(s) == phase[s] = "up" /\ op[s].step = "idle"

Begin(s, p, item, archive) ==
    /\ op' = [op EXCEPT ![s] = [step |-> "publish", id |-> p, item |-> item,
                                archive |-> archive, old |-> {}]]
    /\ UNCHANGED <<store, phase, missing, loaded, entries, held, lost>>

\* prepare: a required plugin is always enabled, an enabled one is loaded.
Prepare(s, p, v, enabled, archive) ==
    IF enabled \/ p \in Required
    THEN /\ Load(s, p, v)
         /\ Begin(s, p, [version |-> v, enabled |-> TRUE, instance |-> loads + 1], archive)
    ELSE /\ NoLoad
         /\ Begin(s, p, [version |-> v, enabled |-> FALSE, instance |-> 0], archive)

Install(s, p, v) ==
    /\ Free(s)
    /\ p \notin InstalledIn(loaded[s])
    /\ Prepare(s, p, v, TRUE, TRUE)

Enable(s, p) ==
    /\ Free(s)
    /\ p \in InstalledIn(loaded[s]) /\ ~loaded[s][p].enabled
    /\ Prepare(s, p, loaded[s][p].version, TRUE, FALSE)

Disable(s, p) ==
    /\ Free(s)
    /\ p \notin Required
    /\ p \in InstalledIn(loaded[s]) /\ loaded[s][p].enabled
    /\ NoLoad
    /\ Begin(s, p, [version |-> loaded[s][p].version, enabled |-> FALSE, instance |-> 0], FALSE)

Upgrade(s, p, v) ==
    /\ Free(s)
    /\ p \in InstalledIn(loaded[s])
    /\ Prepare(s, p, v, loaded[s][p].enabled, TRUE)

Uninstall(s, p) ==
    /\ Free(s)
    /\ p \notin Required
    /\ p \in InstalledIn(loaded[s])
    /\ NoLoad
    /\ Begin(s, p, NotLoaded, FALSE)

(* ... and publish it.                                                      *)

Publishing(s) == op[s].step = "publish"
Candidate(s) == [loaded[s] EXCEPT ![op[s].id] = op[s].item]
Previous(s) == loaded[s][op[s].id].instance

\* Fault: a replacement is removed and left for a second transition to add.
RemovedFirst(s) == IF Previous(s) = 0 THEN (entries[s] \cup {op[s].item.instance}) \ {0}
                   ELSE entries[s] \ {Previous(s)}

\* The entries of transitionCandidate.
CandidateEntries(s) == (entries[s] \cup {op[s].item.instance}) \ {0, Previous(s)}

\* Registry.Register on the entries without p: what p requires is active.
Registers(p, v, published) ==
    Requires[p, v] \subseteq Registered({i \in published : lives[i].plugin # p})

\* Registry.Unregister: p is registered and nothing registered requires it.
Unregisters(p, published) ==
    /\ Of(p, published) # {}
    /\ \A i \in published : p \notin RequiredBy(i)

\* Fault: neither the catalog nor the candidate registry is ordered.
ValidUnordered(s) ==
    LET p == op[s].id  item == op[s].item IN
    /\ item.instance # 0 => Registers(p, item.version, entries[s])
    /\ item.instance = 0 /\ Previous(s) # 0 => Unregisters(p, entries[s])

\* The checks before the commit: dependencyOrder of the catalog, then those of
\* Registry.transition (presence, Register or Unregister, the graph).
Valid(s) ==
    LET p == op[s].id  item == op[s].item IN
    /\ DependencyOrder(Candidate(s))
    /\ item.instance # 0 => /\ (Of(p, entries[s]) # {}) = (Previous(s) # 0)
                            /\ Registers(p, item.version, entries[s])
    /\ item.instance = 0 /\ Previous(s) # 0 => Unregisters(p, entries[s])
    /\ item.instance # 0 \/ Previous(s) # 0 => TransitionOrder(CandidateEntries(s))

\* SetPluginEnabled (needs the row), SavePlugin (upserts) or DeletePlugin.
CanCommit(s) ==
    op[s].archive \/ op[s].item = NotLoaded \/ store[op[s].id] # NotInstalled

Committed(s) ==
    LET p == op[s].id  item == op[s].item IN
    IF item = NotLoaded THEN [store EXCEPT ![p] = NotInstalled]
    ELSE IF op[s].archive THEN [store EXCEPT ![p] = Durable(item)]
    ELSE [store EXCEPT ![p].enabled = item.enabled]

Publish(s) ==
    /\ Publishing(s) /\ Valid(s) /\ CanCommit(s)
    /\ store' = Committed(s)
    /\ entries' = [entries EXCEPT ![s] = CandidateEntries(s)]
    /\ loaded' = [loaded EXCEPT ![s] = Candidate(s)]
    /\ op' = [op EXCEPT ![s] = IF Previous(s) = 0 THEN Idle
                               ELSE [Idle EXCEPT !.step = "retire", !.old = {Previous(s)}]]
    /\ UNCHANGED <<phase, missing, loads, lives, held, lost>>

\* The operation ends with an error and the instance it loaded is closed.
Abandon(s) ==
    /\ op' = [op EXCEPT ![s] = Idle]
    /\ lives' = ClosedAll({op[s].item.instance} \ {0})
    /\ UNCHANGED <<phase, missing, loaded, entries, loads, held>>

\* Fault: the commit comes before the validation that fails.
FailsAfterCommit(s) ==
    /\ Publishing(s) /\ CanCommit(s)
    /\ store' = Committed(s)
    /\ Abandon(s)
    /\ UNCHANGED lost

PublishFails(s) ==
    /\ Publishing(s)
    /\ Abandon(s)
    /\ UNCHANGED <<store, lost>>

\* The database applied the commit, but its reply did not arrive.
PublishUnanswered(s) ==
    /\ Publishing(s) /\ Valid(s) /\ CanCommit(s)
    /\ lost < MaxLostReplies
    /\ lost' = lost + 1
    /\ store' = Committed(s)
    /\ Abandon(s)

\* Retirement of one replaced, removed or detached instance under Manager.mu.
Retire(s, i) ==
    /\ op[s].step = "retire" /\ i \in op[s].old
    /\ lives' = RetiredLife(i)
    /\ op' = [op EXCEPT ![s] = IF op[s].old = {i} THEN Idle
                               ELSE [op[s] EXCEPT !.old = op[s].old \ {i}]]
    /\ UNCHANGED <<store, phase, missing, loaded, entries, loads, held, lost>>

\* The goroutine of Manager.retire.
CloseDrained(i) ==
    /\ i <= loads
    /\ lives[i].retired /\ lives[i].done > 0 /\ lives[i].closed = 0
    /\ lives' = ClosedAll({i})
    /\ UNCHANGED <<store, phase, missing, loaded, entries, op, loads, held, lost>>

-----------------------------------------------------------------------------
(* Leases.                                                                  *)

\* AcquireRenderPlan and AcquireEntries lease every published version.
AcquireRenderPlan(r, s) ==
    /\ held[r] = {} /\ entries[s] # {}
    /\ held' = [held EXCEPT ![r] = entries[s]]
    /\ lives' = [i \in Instances |->
                    IF i \in entries[s] THEN [lives[i] EXCEPT !.refs = @ + 1] ELSE lives[i]]
    /\ UNCHANGED <<store, phase, missing, loaded, entries, op, loads, lost>>

AcquireEntry(r, s, i) ==
    /\ held[r] = {} /\ i \in entries[s]
    /\ held' = [held EXCEPT ![r] = {i}]
    /\ lives' = Acquired(i)
    /\ UNCHANGED <<store, phase, missing, loaded, entries, op, loads, lost>>

\* The release function of a lease drops its lifetimes one after the other.
Release(r, i) ==
    /\ i \in held[r]
    /\ held' = [held EXCEPT ![r] = @ \ {i}]
    /\ lives' = Released(i)
    /\ UNCHANGED <<store, phase, missing, loaded, entries, op, loads, lost>>

-----------------------------------------------------------------------------
(* Shutdown.                                                                *)

InstancesOf(s) == {i \in 1..loads : lives[i].server = s}
RunningIn(catalog) == {catalog[p].instance : p \in Plugins} \ {0}
Empty == [p \in Plugins |-> NotLoaded]

\* Manager.Close detaches everything and retires it, in any order.
Close(s) ==
    /\ Free(s)
    /\ phase' = [phase EXCEPT ![s] = "closing"]
    /\ entries' = [entries EXCEPT ![s] = {i \in @ : lives[i].plugin \notin InstalledIn(loaded[s])}]
    /\ loaded' = [loaded EXCEPT ![s] = Empty]
    /\ op' = [op EXCEPT ![s] = IF RunningIn(loaded[s]) = {} THEN Idle
                               ELSE [Idle EXCEPT !.step = "retire", !.old = RunningIn(loaded[s])]]
    /\ UNCHANGED <<store, missing, loads, lives, held, lost>>

\* Close has seen every retirement finish and closes the runtime.  A Close
\* whose context expires first returns without this step; it can be retried.
CloseRuntime(s) ==
    /\ phase[s] = "closing" /\ op[s].step = "idle"
    /\ \A i \in InstancesOf(s) : lives[i].retired => lives[i].closed > 0
    /\ phase' = [phase EXCEPT ![s] = "closed"]
    /\ UNCHANGED <<store, missing, loaded, entries, op, loads, lives, held, lost>>

\* The process ends, at any point, and its memory is gone.
Crash(s) ==
    /\ phase[s] # "down"
    /\ phase' = [phase EXCEPT ![s] = "down"]
    /\ missing' = [missing EXCEPT ![s] = {}]
    /\ loaded' = [loaded EXCEPT ![s] = Empty]
    /\ entries' = [entries EXCEPT ![s] = {}]
    /\ op' = [op EXCEPT ![s] = Idle]
    /\ lives' = [i \in Instances |->
                    IF i \in InstancesOf(s)
                    THEN [lives[i] EXCEPT !.refs = 0, !.closed = IF @ = 0 THEN 1 ELSE @]
                    ELSE lives[i]]
    /\ held' = [r \in Renders |-> held[r] \ InstancesOf(s)]
    /\ UNCHANGED <<store, loads, lost>>

-----------------------------------------------------------------------------
(* Startup (Manager.Bootstrap).                                             *)

FromRecords == [p \in Plugins |-> [version |-> store[p].version,
                                   enabled |-> store[p].enabled, instance |-> 0]]

Bootstrap(s) ==
    LET absent == {p \in DOMAIN Builtins : store[p] = NotInstalled} IN
    /\ phase[s] = "down"
    /\ loaded' = [loaded EXCEPT ![s] = FromRecords]
    /\ missing' = [missing EXCEPT ![s] = absent]
    /\ phase' = [phase EXCEPT ![s] = IF absent = {} THEN "require" ELSE "seed"]
    /\ UNCHANGED <<store, entries, op, loads, lives, held, lost>>

\* SeedPlugin inserts unless another server has.
SeedPlugin(s, p) ==
    /\ phase[s] = "seed" /\ p \in missing[s]
    /\ missing' = [missing EXCEPT ![s] = @ \ {p}]
    /\ store' = IF store[p] # NotInstalled THEN store
                ELSE [store EXCEPT ![p] = [version |-> Builtins[p].version,
                                           enabled |-> Builtins[p].enabled \/ p \in Required]]
    /\ UNCHANGED <<phase, loaded, entries, op, loads, lives, held, lost>>

\* After seeding, the database winners are read back.
ReadWinners(s) ==
    /\ phase[s] = "seed" /\ missing[s] = {}
    /\ loaded' = [loaded EXCEPT ![s] = FromRecords]
    /\ phase' = [phase EXCEPT ![s] = "require"]
    /\ UNCHANGED <<store, missing, entries, op, loads, lives, held, lost>>

EnableRequired(s, p) ==
    /\ phase[s] = "require"
    /\ Required \subseteq InstalledIn(loaded[s])
    /\ p \in Required /\ ~loaded[s][p].enabled
    /\ store[p] # NotInstalled
    /\ store' = [store EXCEPT ![p].enabled = TRUE]
    /\ loaded' = [loaded EXCEPT ![s][p].enabled = TRUE]
    /\ UNCHANGED <<phase, missing, entries, op, loads, lives, held, lost>>

ResolveOrder(s) ==
    /\ phase[s] = "require"
    /\ Required \subseteq EnabledIn(loaded[s])
    /\ DependencyOrder(loaded[s])
    /\ phase' = [phase EXCEPT ![s] = "load"]
    /\ UNCHANGED <<store, missing, loaded, entries, op, loads, lives, held, lost>>

\* One round of prepareBootstrapInstances: p comes after what it requires.
PrepareInstance(s, p) ==
    /\ phase[s] = "load"
    /\ p \in EnabledIn(loaded[s]) /\ loaded[s][p].instance = 0
    /\ \A q \in Requires[p, loaded[s][p].version] : loaded[s][q].instance # 0
    /\ Load(s, p, loaded[s][p].version)
    /\ loaded' = [loaded EXCEPT ![s][p].instance = loads + 1]
    /\ UNCHANGED <<store, phase, missing, entries, op, held, lost>>

Initialize(s) ==
    /\ phase[s] = "load"
    /\ \A p \in EnabledIn(loaded[s]) : loaded[s][p].instance # 0
    /\ entries' = [entries EXCEPT ![s] = RunningIn(loaded[s])]
    /\ phase' = [phase EXCEPT ![s] = "up"]
    /\ UNCHANGED <<store, missing, loaded, op, loads, lives, held, lost>>

\* Any step of Bootstrap may fail; what was prepared is closed.
BootstrapFails(s) ==
    /\ phase[s] \in {"seed", "require", "load"}
    /\ phase' = [phase EXCEPT ![s] = "down"]
    /\ missing' = [missing EXCEPT ![s] = {}]
    /\ lives' = ClosedAll(RunningIn(loaded[s]))
    /\ loaded' = [loaded EXCEPT ![s] = Empty]
    /\ UNCHANGED <<store, entries, op, loads, held, lost>>

-----------------------------------------------------------------------------
\* The store may hold whatever earlier servers left, as long as it starts.
\* What EnableRequired makes of the stored plugins.  A database where a plugin
\* became required whose stored version needs another one is left out: its
\* start enables the plugin, fails, and so does every later one.
WithRequired(st) ==
    [p \in Plugins |-> IF p \in Required /\ st[p].version # 0
                       THEN [st[p] EXCEPT !.enabled = TRUE] ELSE st[p]]

Init ==
    /\ store \in {st \in [Plugins -> Record] :
                    /\ \A p \in Plugins : st[p].version = 0 => ~st[p].enabled
                    /\ DependencyOrder(st)
                    /\ DependencyOrder(WithRequired(st))}
    /\ phase = [s \in Servers |-> "down"]
    /\ missing = [s \in Servers |-> {}]
    /\ loaded = [s \in Servers |-> Empty]
    /\ entries = [s \in Servers |-> {}]
    /\ op = [s \in Servers |-> Idle]
    /\ loads = 0
    /\ lives = [i \in Instances |-> NewLife(CHOOSE s \in Servers : TRUE,
                                            CHOOSE p \in Plugins : TRUE,
                                            CHOOSE v \in Versions : TRUE)]
    /\ held = [r \in Renders |-> {}]
    /\ lost = 0

Lifecycle(s) ==
    \/ \E p \in Plugins :
        \/ Enable(s, p) \/ Disable(s, p) \/ Uninstall(s, p)
        \/ \E v \in Versions : Install(s, p, v) \/ Upgrade(s, p, v)
    \/ Close(s)
    \/ CloseRuntime(s)
    \/ PublishUnanswered(s)

Operation(s) == Publish(s) \/ PublishFails(s) \/ \E i \in Instances : Retire(s, i)

Startup(s) ==
    \/ ReadWinners(s) \/ ResolveOrder(s) \/ Initialize(s) \/ BootstrapFails(s)
    \/ \E p \in Plugins : SeedPlugin(s, p) \/ EnableRequired(s, p) \/ PrepareInstance(s, p)

Next ==
    \/ \E s \in Servers :
        \/ Lifecycle(s) \/ Operation(s) \/ Startup(s) \/ Bootstrap(s) \/ Crash(s)
        \/ \E r \in Renders : AcquireRenderPlan(r, s) \/ \E i \in entries[s] : AcquireEntry(r, s, i)
    \/ \E r \in Renders : \E i \in held[r] : Release(r, i)
    \/ \E i \in Instances : CloseDrained(i)

\* Operations and startups run to their end, renders have a deadline and
\* release on every path, and drain goroutines are scheduled.
Fairness ==
    /\ \A s \in Servers : WF_vars(Operation(s)) /\ WF_vars(Startup(s))
    /\ \A r \in Renders : WF_vars(\E i \in held[r] : Release(r, i))
    /\ \A i \in Instances : WF_vars(CloseDrained(i))

Spec == Init /\ [][Next]_vars /\ Fairness

-----------------------------------------------------------------------------
TypeOK ==
    /\ store \in [Plugins -> Record]
    /\ phase \in [Servers -> {"down", "seed", "require", "load", "up", "closing", "closed"}]
    /\ missing \in [Servers -> SUBSET DOMAIN Builtins]
    /\ loaded \in [Servers -> [Plugins -> Managed]]
    /\ entries \in [Servers -> SUBSET (1..loads)]
    /\ op \in [Servers -> [step : {"idle", "publish", "retire"}, id : Plugins, item : Managed,
                           archive : BOOLEAN, old : SUBSET (1..loads)]]
    /\ loads \in 0..MaxLoads
    /\ lives \in [Instances -> Life]
    /\ held \in [Renders -> SUBSET (1..loads)]
    /\ lost \in 0..MaxLostReplies

\* An instance is never closed while a render or a hook call still uses it
\* (lifetime.go: "retirement cannot close a reactor while a render still uses
\* it"), not even while its upgrade, removal or shutdown runs.
NoUseAfterClose == \A r \in Renders : \A i \in held[r] : lives[i].closed = 0

\* A drain signal is closed at most once (closing a closed channel panics in
\* release or retire) and an instance is closed at most once, whichever of
\* retire, its goroutine and the error paths of publish and Bootstrap does it.
ClosedOnce == \A i \in Instances : lives[i].done <= 1 /\ lives[i].closed <= 1

\* After Close the runtime is only closed once nothing runs in it.
RuntimeClosedLast ==
    \A s \in Servers : phase[s] = "closed" =>
        \A i \in InstancesOf(s) : lives[i].closed > 0 /\ lives[i].refs = 0

\* Instances are closed when their last lease is over, once, and before the
\* runtime they run in.
ClosedWhenDrained == NoUseAfterClose /\ ClosedOnce /\ RuntimeClosedLast

\* Every loaded instance is published, on its way to publication or
\* retirement, retired, or closed: no error path forgets one.
NoLeak ==
    \A s \in Servers : \A i \in InstancesOf(s) :
        \/ lives[i].closed > 0 \/ lives[i].retired
        \/ i \in entries[s] \cup op[s].old \cup {op[s].item.instance}
        \/ phase[s] = "load" /\ i \in RunningIn(loaded[s])

\* Whatever upgrades do, the plugins a server publishes have what they require
\* published beside them, without a cycle, one version each; and a server that
\* is up publishes exactly the plugins it lists as enabled.
PublishedGraph ==
    \A s \in Servers :
        /\ TransitionOrder(entries[s])
        /\ \A p \in Plugins : Cardinality(Of(p, entries[s])) <= 1
        /\ phase[s] = "up" => /\ entries[s] = RunningIn(loaded[s])
                              /\ \A p \in Plugins :
                                    loaded[s][p].enabled = (loaded[s][p].instance # 0)

\* The stored plugins can be started: once a start has enabled the required ones,
\* dependencyOrder accepts them, so that no restart fails because a plugin was
\* disabled or removed while an enabled one still needs it (pkg/plugin/README.md,
\* "Registration and lifetime").
StoreStartable == DependencyOrder(WithRequired(store))

\* Between operations, what a single server runs is what a restart would load,
\* and a restart succeeds.  The reply of a commit that is lost breaks both: the
\* server goes on with the plugins from before it.
RestartsAsIs ==
    lost = 0 =>
        /\ StoreStartable
        /\ \A s \in Servers :
              phase[s] = "up" /\ op[s].step # "publish" =>
                  \A p \in Plugins : Durable(loaded[s][p]) = store[p]

\* A plugin that stays enabled is never seen unpublished: an upgrade is "never
\* observable as remove/add" (lifetime.go).
ReplacedAtOnce ==
    [][\A s \in Servers : \A p \in Plugins :
        /\ p \in Registered(entries[s])
        /\ phase[s] = "up" /\ phase'[s] = "up"
        /\ p \notin {lives'[i].plugin : i \in entries'[s]}
        => ~store'[p].enabled]_vars

\* "Dependencies activate first and retire after dependents"
\* (pkg/plugin/README.md), stated for the detached plugins of a shutdown.
RetiresDependentsFirst ==
    [][\A s \in Servers :
        phase[s] = "closing" /\ phase'[s] = "closing" =>
            \A i \in op[s].old \ op'[s].old : \A j \in op'[s].old :
                lives[i].plugin \notin RequiredBy(j)]_vars

\* An instance that is not published is eventually published or closed: a
\* replaced version does not outlive its last lease for ever, nor does a
\* candidate whose operation failed.
UnpublishedCloses ==
    \A i \in Instances :
        (i <= loads /\ i \notin UNION {entries[s] : s \in Servers})
            ~> (lives[i].closed > 0 \/ i \in UNION {entries[s] : s \in Servers})
=============================================================================
