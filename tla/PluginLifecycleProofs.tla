------------------------- MODULE PluginLifecycleProofs -------------------------
(***************************************************************************)
(* That an instance is closed when its last lease is over, once and before *)
(* its runtime, that a server publishes a complete graph of plugins, that  *)
(* a replacement is never seen as a removal, and that a restart finds what *)
(* ran before it, for any plugins, versions, renders and bounds; all but   *)
(* the last for any servers.                                               *)
(***************************************************************************)
EXTENDS PluginLifecycle, FiniteSetTheorems, TLAPS

\* The instances that a server still has to publish, retire or close.
Running(s) == {loaded[s][p].instance : p \in Plugins} \ {0}
Candidates(s) == {op[s].item.instance} \ {0}
Own(s) == entries[s] \cup op[s].old \cup Candidates(s) \cup Running(s)

Holders(i) == {r \in Renders : i \in held[r]}

Stored == \A p \in Plugins : store[p].enabled => store[p].version # 0

\* What a server publishes and lists, by what it is doing.
Serving(s) ==
    /\ phase[s] = "up" => entries[s] = Running(s)
    /\ phase[s] # "up" => entries[s] = {}
    /\ phase[s] \notin {"load", "up"} => \A p \in Plugins : loaded[s][p].instance = 0
    /\ phase[s] = "load" => DependencyOrder(loaded[s])
    /\ \A p \in Plugins :
          /\ loaded[s][p].enabled => loaded[s][p].version # 0
          /\ loaded[s][p].instance # 0 =>
                /\ loaded[s][p].enabled
                /\ lives[loaded[s][p].instance].plugin = p
                /\ lives[loaded[s][p].instance].version = loaded[s][p].version
          /\ phase[s] = "up" /\ loaded[s][p].enabled => loaded[s][p].instance # 0

\* The operation that has the lock, and the instance it has loaded.
Operating(s) ==
    /\ op[s].step = "publish" => phase[s] = "up"
    /\ op[s].step = "retire" => phase[s] \in {"up", "closing"}
    /\ op[s].step # "publish" => op[s].item.instance = 0
    /\ op[s].step # "retire" => op[s].old = {}
    /\ op[s].item.enabled => op[s].item.instance # 0 /\ op[s].item.version # 0
    /\ op[s].item.instance # 0 =>
          /\ op[s].item.enabled
          /\ lives[op[s].item.instance].plugin = op[s].id
          /\ lives[op[s].item.instance].version = op[s].item.version

\* What a server has is not closed, not retired, and in one place; only what is or was
\* published is leased.
Owning(s) ==
    /\ \A i \in Own(s) :
          /\ i \in 1..loads /\ lives[i].server = s
          /\ ~lives[i].retired /\ lives[i].closed = 0 /\ lives[i].done = 0
          /\ i \notin entries[s] \cup op[s].old => Holders(i) = {}
    /\ op[s].old \cap (entries[s] \cup Running(s) \cup Candidates(s)) = {}
    /\ Candidates(s) \cap Running(s) = {}

\* Leases are counted; whoever signals or closes does so when they are over; and what
\* is neither retired nor closed has a server that will do it.
Lifetime(i) ==
    /\ lives[i].refs = Cardinality(Holders(i))
    /\ lives[i].done \in {0, 1} /\ lives[i].closed \in {0, 1}
    /\ lives[i].done = 1 => lives[i].retired /\ Holders(i) = {}
    /\ lives[i].closed = 1 => Holders(i) = {}
    /\ i > loads => lives[i].done = 0 /\ lives[i].closed = 0
    /\ i <= loads => i \in Own(lives[i].server) \/ lives[i].closed = 1 \/ lives[i].retired

Ended(s) == phase[s] = "closed" => \A i \in InstancesOf(s) : lives[i].closed = 1

Place(s) == Serving(s) /\ Operating(s) /\ Owning(s) /\ Ended(s)

PInv ==
    /\ TypeOK /\ Stored
    /\ \A s \in Servers : Place(s) /\ TransitionOrder(entries[s])
    /\ \A i \in Instances : Lifetime(i)
-----------------------------------------------------------------------------
(* Records *)

LEMMA Types ==
    ASSUME TypeOK
    PROVE  /\ loads \in Nat /\ loads <= MaxLoads /\ MaxLoads \in Nat /\ 1..loads \subseteq Instances
           /\ \A i \in Instances : i \in Nat /\ i >= 1 /\ lives[i] \in Life
           /\ \A s \in Servers, p \in Plugins : loaded[s][p] \in Managed
           /\ \A s \in Servers : op[s].id \in Plugins /\ op[s].item \in Managed /\ op[s].old \subseteq 1..loads
           /\ \A s \in Servers : entries[s] \subseteq 1..loads
           /\ \A r \in Renders : held[r] \subseteq 1..loads
           /\ \A p \in Plugins : store[p] \in Record
<1>1. loads \in 0..MaxLoads /\ MaxLoads \in Nat
  BY PluginAssumption DEF TypeOK
<1>2. /\ loads \in Nat /\ loads <= MaxLoads /\ 1..loads \subseteq Instances
      /\ \A i \in Instances : i \in Nat /\ i >= 1
  BY <1>1 DEF Instances
<1>3. \A i \in Instances : lives[i] \in Life
  BY DEF TypeOK
<1>4. \A s \in Servers, p \in Plugins : loaded[s][p] \in Managed
  BY DEF TypeOK
<1>5. \A s \in Servers : op[s].id \in Plugins /\ op[s].item \in Managed /\ op[s].old \subseteq 1..loads
  <2> SUFFICES ASSUME NEW s \in Servers
               PROVE  op[s].id \in Plugins /\ op[s].item \in Managed /\ op[s].old \subseteq 1..loads
    OBVIOUS
  <2>1. op[s] \in [step : {"idle", "publish", "retire"}, id : Plugins, item : Managed,
                   archive : BOOLEAN, old : SUBSET (1..loads)]
    BY DEF TypeOK
  <2> QED
    BY <2>1
<1>6. \A s \in Servers : entries[s] \subseteq 1..loads
  BY DEF TypeOK
<1>7. \A r \in Renders : held[r] \subseteq 1..loads
  BY DEF TypeOK
<1>8. \A p \in Plugins : store[p] \in Record
  BY DEF TypeOK
<1> QED
  BY <1>1, <1>2, <1>3, <1>4, <1>5, <1>6, <1>7, <1>8

LEMMA Nothing ==
    /\ NotLoaded \in Managed /\ NotLoaded.version = 0 /\ NotLoaded.instance = 0 /\ ~NotLoaded.enabled
    /\ NotInstalled \in Record /\ NotInstalled.version = 0 /\ ~NotInstalled.enabled
    /\ Idle.step = "idle" /\ Idle.item = NotLoaded /\ Idle.old = {} /\ Idle.id \in Plugins
    /\ Idle.archive = FALSE
    /\ \A r \in Record : r.version = 0 /\ ~r.enabled => r = NotInstalled
  BY PluginAssumption DEF Managed, NotLoaded, NotInstalled, Record, Idle

LEMMA Counting ==
    ASSUME NEW S \in SUBSET Renders, NEW r \in Renders
    PROVE  /\ IsFiniteSet(S) /\ Cardinality(S) \in Nat
           /\ Cardinality(S) = 0 <=> S = {}
           /\ Cardinality(S \cup {r}) = IF r \in S THEN Cardinality(S) ELSE Cardinality(S) + 1
           /\ Cardinality(S \ {r}) = IF r \in S THEN Cardinality(S) - 1 ELSE Cardinality(S)
<1>1. IsFiniteSet(S) /\ Cardinality(S) \in Nat
  BY PluginAssumption, FS_Subset, FS_CardinalityType
<1>2. Cardinality(S) = 0 <=> S = {}
  BY <1>1, FS_EmptySet
<1>3. Cardinality(S \cup {r}) = IF r \in S THEN Cardinality(S) ELSE Cardinality(S) + 1
  <2>1. /\ IsFiniteSet(S \cup {r})
        /\ Cardinality(S \cup {r}) = IF r \in S THEN Cardinality(S) ELSE Cardinality(S) + 1
    BY <1>1, FS_AddElement
  <2> QED
    BY <2>1
<1>4. Cardinality(S \ {r}) = IF r \in S THEN Cardinality(S) - 1 ELSE Cardinality(S)
  <2>1. /\ IsFiniteSet(S \ {r})
        /\ Cardinality(S \ {r}) = IF r \in S THEN Cardinality(S) - 1 ELSE Cardinality(S)
    BY <1>1, FS_RemoveElement
  <2> QED
    BY <2>1
<1> QED
  BY <1>1, <1>2, <1>3, <1>4

\* What the invariant says of an instance that somebody has.
LEMMA OwnFacts ==
    ASSUME PInv, NEW s \in Servers, NEW i \in Own(s)
    PROVE  /\ i \in 1..loads /\ i \in Instances /\ lives[i] \in Life /\ lives[i].server = s
           /\ ~lives[i].retired /\ lives[i].closed = 0 /\ lives[i].done = 0
           /\ i \notin entries[s] \cup op[s].old => Holders(i) = {} /\ lives[i].refs = 0
<1>1. /\ i \in 1..loads /\ lives[i].server = s
      /\ ~lives[i].retired /\ lives[i].closed = 0 /\ lives[i].done = 0
      /\ i \notin entries[s] \cup op[s].old => Holders(i) = {}
  BY DEF PInv, Place, Owning
<1>2. i \in Instances /\ lives[i] \in Life
  BY <1>1, Types DEF PInv
<1>3. lives[i].refs = Cardinality(Holders(i))
  BY <1>2 DEF PInv, Lifetime
<1> QED
  BY <1>1, <1>2, <1>3, FS_EmptySet

\* The instances of two plugins differ, as their plugins do.
LEMMA Apart ==
    ASSUME PInv, NEW s \in Servers, NEW p \in Plugins, NEW q \in Plugins, p # q,
           loaded[s][p].instance # 0
    PROVE  loaded[s][p].instance # loaded[s][q].instance
  BY DEF PInv, Place, Serving
-----------------------------------------------------------------------------
(* What a step leaves alone *)

LEMMA ServingStands ==
    ASSUME PInv, NEW t \in Servers,
           phase'[t] = phase[t], loaded'[t] = loaded[t], entries'[t] = entries[t],
           \A i \in Own(t) : lives'[i].plugin = lives[i].plugin /\ lives'[i].version = lives[i].version
    PROVE  Serving(t)'
<1>1. Running(t)' = Running(t)
  BY DEF Running
<1>2. \A p \in Plugins : loaded[t][p].instance # 0 => loaded[t][p].instance \in Own(t)
  BY DEF Own, Running
<1>3. DependencyOrder(loaded[t])' <=> DependencyOrder(loaded[t])
  <2>1. PICK L : L = loaded[t] /\ L = loaded'[t]
    OBVIOUS
  <2> QED
    BY <2>1 DEF DependencyOrder, Orderable, EnabledIn
<1>4. Serving(t)
  BY DEF PInv, Place
<1>5. \A p \in Plugins : loaded[t][p].instance # 0 =>
         /\ lives'[loaded[t][p].instance].plugin = p
         /\ lives'[loaded[t][p].instance].version = loaded[t][p].version
  BY <1>2, <1>4 DEF Serving
<1> QED
  BY <1>1, <1>3, <1>4, <1>5 DEF Serving

\* A server that a step does not touch, although its instances may be leased.
LEMMA PlaceStands ==
    ASSUME PInv, NEW t \in Servers, loads' \in Nat, loads' >= loads,
           phase'[t] = phase[t], loaded'[t] = loaded[t], entries'[t] = entries[t], op'[t] = op[t],
           \A i \in Own(t) :
              /\ lives'[i].server = lives[i].server /\ lives'[i].plugin = lives[i].plugin
              /\ lives'[i].version = lives[i].version /\ lives'[i].retired = lives[i].retired
              /\ lives'[i].closed = lives[i].closed /\ lives'[i].done = lives[i].done,
           \A i \in Own(t) \ (entries[t] \cup op[t].old) : Holders(i)' \subseteq Holders(i),
           \A i \in 1..loads' :
              lives'[i].server = t /\ phase[t] = "closed" =>
                 i \in 1..loads /\ lives[i].server = t /\ lives'[i].closed = lives[i].closed
    PROVE  Place(t)'
<1>1. Own(t)' = Own(t) /\ Running(t)' = Running(t) /\ Candidates(t)' = Candidates(t)
  BY DEF Own, Running, Candidates
<1>2. Place(t)
  BY DEF PInv
<1>3. Serving(t)'
  BY ServingStands
<1>4. Operating(t)'
  <2>1. op[t].item.instance # 0 => op[t].item.instance \in Own(t)
    BY DEF Own, Candidates
  <2> QED
    BY <1>2, <2>1 DEF Place, Operating
<1>5. Owning(t)'
  <2>1. ASSUME NEW i \in Own(t)
        PROVE  /\ i \in 1..loads' /\ lives'[i].server = t
               /\ ~lives'[i].retired /\ lives'[i].closed = 0 /\ lives'[i].done = 0
               /\ i \notin entries[t] \cup op[t].old => Holders(i)' = {}
    <3>1. i \in 1..loads /\ loads \in Nat
      BY OwnFacts, Types DEF PInv
    <3>2. i \in 1..loads'
      BY <3>1
    <3> QED
      BY <3>2, OwnFacts
  <2> QED
    BY <1>1, <1>2, <2>1 DEF Place, Owning
<1>6. Ended(t)'
  BY <1>2 DEF Place, Ended, InstancesOf
<1> QED
  BY <1>3, <1>4, <1>5, <1>6 DEF Place

\* The order of what is published: the plugins and versions of instances do not change.
LEMMA OrderStands ==
    ASSUME PInv, NEW t \in Servers, entries'[t] = entries[t],
           \A i \in entries[t] : lives'[i].plugin = lives[i].plugin /\ lives'[i].version = lives[i].version
    PROVE  TransitionOrder(entries[t])'
<1>1. PICK E : E = entries[t] /\ E = entries'[t]
  OBVIOUS
<1>2. \A i \in E : lives'[i].plugin = lives[i].plugin /\ lives'[i].version = lives[i].version
  BY <1>1
<1>3. Registered(E)' = Registered(E)
  BY <1>2 DEF Registered
<1>4. \A p : Of(p, E)' = Of(p, E)
  BY <1>2 DEF Of
<1> DEFINE f == [p \in Registered(E) |-> UNION {RequiredBy(i) : i \in Of(p, E)}]
<1>5. f' = f
  <2>1. \A p : UNION {Requires[lives'[i].plugin, lives'[i].version] : i \in Of(p, E)}
                 = UNION {Requires[lives[i].plugin, lives[i].version] : i \in Of(p, E)}
    <3>1. \A p : \A i \in Of(p, E) : Requires[lives'[i].plugin, lives'[i].version]
                                         = Requires[lives[i].plugin, lives[i].version]
      BY <1>2 DEF Of
    <3> QED
      BY <3>1
  <2> QED
    BY <1>3, <1>4, <2>1 DEF RequiredBy
<1>6. Orderable(f)
  BY <1>1 DEF PInv, TransitionOrder
<1>7. Orderable(f)'
  BY <1>5, <1>6 DEF Orderable
<1> QED
  BY <1>1, <1>7 DEF TransitionOrder

\* An instance that a step does not touch.
LEMMA LifetimeStands ==
    ASSUME PInv, NEW i \in Instances, lives'[i] = lives[i], Holders(i)' = Holders(i),
           loads' \in Nat, loads' >= loads, i <= loads' => i <= loads,
           i \in Own(lives[i].server) => i \in Own(lives[i].server)'
    PROVE  Lifetime(i)'
<1>1. i \in Nat /\ loads \in Nat /\ Lifetime(i)
  BY Types DEF PInv
<1>2. /\ lives'[i].refs = Cardinality(Holders(i)')
      /\ lives'[i].done \in {0, 1} /\ lives'[i].closed \in {0, 1}
      /\ lives'[i].done = 1 => lives'[i].retired /\ Holders(i)' = {}
      /\ lives'[i].closed = 1 => Holders(i)' = {}
      /\ i > loads' => lives'[i].done = 0 /\ lives'[i].closed = 0
  BY <1>1 DEF Lifetime
<1> DEFINE s == lives[i].server
<1>3. i <= loads' => i \in Own(s)' \/ lives'[i].closed = 1 \/ lives'[i].retired
  BY <1>1 DEF Lifetime
<1>4. Own(lives[i].server)' = Own(s)'
  OBVIOUS
<1> QED
  BY <1>2, <1>3 DEF Lifetime

\* A step of one server: the others and their instances stand.
LEMMA ServerStep ==
    ASSUME PInv, NEW s \in Servers, loads' \in Nat, loads' >= loads,
           \A t \in Servers \ {s} :
              phase'[t] = phase[t] /\ loaded'[t] = loaded[t] /\ entries'[t] = entries[t] /\ op'[t] = op[t],
           \A i \in 1..loads : lives'[i].server = lives[i].server,
           \A i \in 1..loads : lives[i].server # s => lives'[i] = lives[i] /\ Holders(i)' = Holders(i),
           \A i \in 1..loads' : i > loads => lives'[i].server = s,
           TypeOK', Stored', Place(s)', TransitionOrder(entries[s])',
           \A i \in Instances : i > loads \/ lives[i].server = s => Lifetime(i)'
    PROVE  PInv'
<1>0. loads \in Nat /\ 1..loads \subseteq Instances /\ \A i \in Instances : i \in Nat /\ i >= 1
  BY Types DEF PInv
<1>1. ASSUME NEW t \in Servers \ {s}
      PROVE  Place(t)' /\ TransitionOrder(entries[t])'
  <2>1. ASSUME NEW i \in Own(t)
        PROVE  i \in 1..loads /\ lives'[i] = lives[i] /\ Holders(i)' = Holders(i)
    BY OwnFacts
  <2>2. ASSUME NEW i \in 1..loads', lives'[i].server = t
        PROVE  i \in 1..loads /\ lives[i].server = t /\ lives'[i].closed = lives[i].closed
    <3>1. i \in 1..loads
      BY <1>0, <2>2
    <3> QED
      BY <2>2, <3>1
  <2>3. Place(t)'
    BY <2>1, <2>2, PlaceStands
  <2>4. \A i \in entries[t] : lives'[i].plugin = lives[i].plugin /\ lives'[i].version = lives[i].version
    BY <2>1 DEF Own
  <2>5. TransitionOrder(entries[t])'
    BY <2>4, OrderStands
  <2> QED
    BY <2>3, <2>5
<1>2. ASSUME NEW i \in Instances, ~(i > loads \/ lives[i].server = s)
      PROVE  Lifetime(i)'
  <2>1. i \in 1..loads /\ lives'[i] = lives[i] /\ Holders(i)' = Holders(i)
    BY <1>0, <1>2
  <2>2. lives[i].server \in Servers \ {s}
    BY <1>2, Types DEF PInv, Life
  <2>3. PICK t \in Servers \ {s} : t = lives[i].server
    BY <2>2
  <2>4. Own(t)' = Own(t)
    BY DEF Own, Running, Candidates
  <2>5. i \in Own(lives[i].server) => i \in Own(lives[i].server)'
    BY <2>1, <2>3, <2>4
  <2> QED
    BY <1>0, <2>1, <2>5, LifetimeStands
<1>3. \A i \in Instances : Lifetime(i)'
  BY <1>2
<1>4. \A t \in Servers : Place(t)' /\ TransitionOrder(entries[t])'
  BY <1>1
<1> QED
  BY <1>3, <1>4 DEF PInv

\* A step of one server that leaves the instances and their leases alone.
LEMMA QuietStep ==
    ASSUME PInv, NEW s \in Servers, UNCHANGED <<loads, lives, held>>,
           \A t \in Servers \ {s} :
              phase'[t] = phase[t] /\ loaded'[t] = loaded[t] /\ entries'[t] = entries[t] /\ op'[t] = op[t],
           Own(s) \subseteq Own(s)',
           TypeOK', Stored', Place(s)', TransitionOrder(entries[s])'
    PROVE  PInv'
<1>0. loads \in Nat /\ \A i \in Instances : i \in Nat
  BY Types DEF PInv
<1>1. \A i : Holders(i)' = Holders(i)
  BY DEF Holders
<1>2. ASSUME NEW i \in Instances
      PROVE  Lifetime(i)'
  <2>1. PICK t \in Servers : t = lives[i].server
    BY Types DEF PInv, Life
  <2>2. Own(t) \subseteq Own(t)'
    BY DEF Own, Running, Candidates
  <2>3. i \in Own(lives[i].server) => i \in Own(lives[i].server)'
    BY <2>1, <2>2
  <2> QED
    BY <1>0, <1>1, <2>3, LifetimeStands
<1> QED
  BY <1>0, <1>1, <1>2, ServerStep
-----------------------------------------------------------------------------
(* Lifecycle operations *)

\* What is known of a server that is up and idle.
LEMMA WhenFree ==
    ASSUME PInv, NEW s \in Servers, Free(s)
    PROVE  /\ phase[s] = "up" /\ op[s].old = {} /\ op[s].item.instance = 0 /\ Candidates(s) = {}
           /\ entries[s] = Running(s) /\ Own(s) = Running(s)
<1>1. phase[s] = "up" /\ op[s].step = "idle" /\ Serving(s) /\ Operating(s)
  BY DEF Free, PInv, Place
<1>2. entries[s] = Running(s) /\ op[s].old = {} /\ op[s].item.instance = 0
  BY <1>1 DEF Serving, Operating
<1> QED
  BY <1>1, <1>2 DEF Candidates, Own

\* An operation with an item that is not loaded.
LEMMA BeginKeeps ==
    ASSUME PInv, NEW s \in Servers, NEW p \in Plugins, NEW item \in Managed, NEW archive \in BOOLEAN,
           Free(s), NoLoad, Begin(s, p, item, archive), item.instance = 0, ~item.enabled
    PROVE  PInv'
<1> DEFINE o == [step |-> "publish", id |-> p, item |-> item, archive |-> archive, old |-> {}]
<1>1. /\ op' = [op EXCEPT ![s] = o]
      /\ UNCHANGED <<store, phase, missing, loaded, entries, held, lost, loads, lives>>
  BY DEF Begin, NoLoad
<1>2. /\ o \in [step : {"idle", "publish", "retire"}, id : Plugins, item : Managed,
                archive : BOOLEAN, old : SUBSET (1..loads)]
      /\ o.step = "publish" /\ o.item = item /\ o.old = {} /\ o.id = p
  OBVIOUS
<1> HIDE DEF o
<1>3. op'[s] = o /\ \A t \in Servers \ {s} : op'[t] = op[t]
  BY <1>1, <1>2 DEF PInv, TypeOK
<1>4. TypeOK'
  BY <1>1, <1>2 DEF PInv, TypeOK
<1>5. Stored'
  BY <1>1 DEF PInv, Stored
<1>6. /\ phase[s] = "up" /\ Candidates(s)' = {} /\ Running(s)' = Running(s)
      /\ Own(s)' = Running(s) /\ Own(s) = Running(s) /\ entries[s] = Running(s)
  BY <1>1, <1>2, <1>3, WhenFree DEF Candidates, Running, Own
<1>7. Place(s)'
  <2>1. Serving(s)'
    BY <1>1, ServingStands
  <2>2. Operating(s)'
    BY <1>1, <1>2, <1>3, <1>6 DEF Operating
  <2>3. Owning(s)'
    BY <1>1, <1>2, <1>3, <1>6 DEF PInv, Place, Owning, Holders
  <2>4. Ended(s)'
    BY <1>1, <1>6 DEF Ended
  <2> QED
    BY <2>1, <2>2, <2>3, <2>4 DEF Place
<1>8. TransitionOrder(entries[s])'
  BY <1>1, OrderStands
<1> QED
  BY <1>1, <1>3, <1>4, <1>5, <1>6, <1>7, <1>8, QuietStep

\* A load: a new instance of the server, without leases.
LEMMA Loaded ==
    ASSUME PInv, NEW s \in Servers, NEW p \in Plugins, NEW v \in Versions, Load(s, p, v),
           UNCHANGED held
    PROVE  /\ loads' = loads + 1 /\ loads' \in 0..MaxLoads /\ loads \in Nat /\ loads' \in Nat
           /\ loads + 1 \in Instances /\ loads + 1 # 0 /\ loads + 1 \notin 1..loads
           /\ \A i \in 1..loads : i \in 1..loads' /\ i # loads + 1 /\ i \in Instances
           /\ \A i \in 1..loads' : i > loads => i = loads + 1
           /\ lives' \in [Instances -> Life] /\ lives'[loads + 1] = NewLife(s, p, v)
           /\ \A i \in Instances : i # loads + 1 => lives'[i] = lives[i]
           /\ \A i : Holders(i)' = Holders(i)
           /\ Holders(loads + 1) = {}
<1>1. /\ loads \in Nat /\ MaxLoads \in Nat /\ loads < MaxLoads /\ loads' = loads + 1
      /\ lives' = [lives EXCEPT ![loads + 1] = NewLife(s, p, v)] /\ lives \in [Instances -> Life]
      /\ \A r \in Renders : held[r] \subseteq 1..loads
  BY Types DEF Load, PInv, TypeOK
<1>2. NewLife(s, p, v) \in Life
  BY DEF NewLife, Life
<1>3. /\ loads + 1 \in Instances /\ loads + 1 # 0 /\ loads + 1 \notin 1..loads
      /\ loads' \in Nat /\ loads' \in 0..MaxLoads
      /\ \A i \in 1..loads : i \in 1..loads' /\ i # loads + 1 /\ i \in Instances
      /\ \A i \in 1..loads' : i > loads => i = loads + 1
  BY <1>1 DEF Instances
<1>4. /\ lives' \in [Instances -> Life] /\ lives'[loads + 1] = NewLife(s, p, v)
      /\ \A i \in Instances : i # loads + 1 => lives'[i] = lives[i]
  BY <1>1, <1>2, <1>3
<1>5. /\ \A i : Holders(i)' = Holders(i)
      /\ Holders(loads + 1) = {}
  BY <1>1, <1>3 DEF Holders
<1> QED
  BY <1>1, <1>3, <1>4, <1>5

LEMMA LoadStep ==
    ASSUME PInv, NEW s \in Servers, NEW p \in Plugins, NEW v \in Versions, Load(s, p, v),
           UNCHANGED held,
           \A t \in Servers \ {s} :
              phase'[t] = phase[t] /\ loaded'[t] = loaded[t] /\ entries'[t] = entries[t] /\ op'[t] = op[t],
           Own(s) \cup {loads + 1} \subseteq Own(s)',
           TypeOK', Stored', Place(s)', TransitionOrder(entries[s])'
    PROVE  PInv'
<1>1. /\ loads' = loads + 1 /\ loads \in Nat /\ loads' \in Nat /\ loads + 1 \in Instances
      /\ \A i \in 1..loads : i # loads + 1 /\ i \in Instances
      /\ \A i \in 1..loads' : i > loads => i = loads + 1
      /\ lives'[loads + 1] = NewLife(s, p, v)
      /\ \A i \in Instances : i # loads + 1 => lives'[i] = lives[i]
      /\ \A i : Holders(i)' = Holders(i)
      /\ Holders(loads + 1) = {}
  BY Loaded
<1>2. loads' >= loads /\ lives'[loads + 1].server = s
  BY <1>1 DEF NewLife
<1>3. ASSUME NEW i \in Instances, i = loads + 1
      PROVE  Lifetime(i)'
  <2>1. /\ lives'[i].refs = 0 /\ lives'[i].done = 0 /\ lives'[i].closed = 0 /\ lives'[i].server = s
    BY <1>1, <1>3 DEF NewLife
  <2>2. Holders(i)' = {} /\ Cardinality({}) = 0
    BY <1>1, <1>3, FS_EmptySet
  <2>3. i \in Own(s)'
    BY <1>3
  <2> QED
    BY <2>1, <2>2, <2>3 DEF Lifetime
<1>4. ASSUME NEW i \in Instances, i # loads + 1
      PROVE  Lifetime(i)'
  <2>1. PICK t \in Servers : t = lives[i].server
    BY Types DEF PInv, Life
  <2>2. Own(t) \subseteq Own(t)'
    BY DEF Own, Running, Candidates
  <2>3. i \in Own(lives[i].server) => i \in Own(lives[i].server)'
    BY <1>1, <1>4, <2>1, <2>2
  <2>4. i <= loads' => i <= loads
    BY <1>1, <1>4, Types DEF PInv
  <2> QED
    BY <1>1, <1>2, <1>4, <2>3, <2>4, LifetimeStands
<1>5. \A i \in 1..loads' : i > loads => lives'[i].server = s
  BY <1>1, <1>2
<1>6. \A i \in Instances : Lifetime(i)'
  BY <1>3, <1>4
<1> QED
  BY <1>1, <1>2, <1>5, <1>6, ServerStep

\* An operation with an item that was loaded for it.
LEMMA BeginLoadedKeeps ==
    ASSUME PInv, NEW s \in Servers, NEW p \in Plugins, NEW v \in Versions, NEW archive \in BOOLEAN,
           Free(s), Load(s, p, v),
           Begin(s, p, [version |-> v, enabled |-> TRUE, instance |-> loads + 1], archive)
    PROVE  PInv'
<1> DEFINE item == [version |-> v, enabled |-> TRUE, instance |-> loads + 1]
           o == [step |-> "publish", id |-> p, item |-> item, archive |-> archive, old |-> {}]
<1>1. /\ op' = [op EXCEPT ![s] = o]
      /\ UNCHANGED <<store, phase, missing, loaded, entries, held, lost>>
  BY DEF Begin
<1>2. /\ loads' = loads + 1 /\ loads' \in 0..MaxLoads /\ loads \in Nat /\ loads + 1 \in Instances
      /\ loads + 1 # 0 /\ loads + 1 \notin 1..loads
      /\ \A i \in 1..loads : i \in 1..loads' /\ i # loads + 1 /\ i \in Instances
      /\ lives' \in [Instances -> Life] /\ lives'[loads + 1] = NewLife(s, p, v)
      /\ \A i \in Instances : i # loads + 1 => lives'[i] = lives[i]
      /\ \A i : Holders(i)' = Holders(i)
      /\ Holders(loads + 1) = {}
  BY <1>1, Loaded
<1>3. PICK n : n = loads + 1
  OBVIOUS
<1>4. /\ item \in Managed /\ item.version = v /\ item.enabled /\ item.instance = n /\ v # 0
      /\ n \in 1..loads' /\ n # 0
  <2>1. n \in 0..MaxLoads /\ v # 0 /\ n \in 1..loads' /\ n # 0
    BY <1>2, <1>3, PluginAssumption
  <2> QED
    BY <1>3, <2>1 DEF Managed
<1> HIDE DEF item
<1>5. /\ o \in [step : {"idle", "publish", "retire"}, id : Plugins, item : Managed,
                archive : BOOLEAN, old : SUBSET (1..loads')]
      /\ o.step = "publish" /\ o.item = item /\ o.old = {} /\ o.id = p
  BY <1>4
<1> HIDE DEF o
<1>6. op'[s] = o /\ \A t \in Servers \ {s} : op'[t] = op[t]
  BY <1>1 DEF PInv, TypeOK
<1>7. TypeOK'
  <2>1. op' \in [Servers -> [step : {"idle", "publish", "retire"}, id : Plugins, item : Managed,
                              archive : BOOLEAN, old : SUBSET (1..loads')]]
    <3>1. \A t \in Servers \ {s} :
             op[t] \in [step : {"idle", "publish", "retire"}, id : Plugins, item : Managed,
                        archive : BOOLEAN, old : SUBSET (1..loads')]
      <4>1. SUBSET (1..loads) \subseteq SUBSET (1..loads')
        BY <1>2
      <4> QED
        BY <4>1 DEF PInv, TypeOK
    <3> QED
      BY <1>1, <1>5, <3>1 DEF PInv, TypeOK
  <2>2. entries' \in [Servers -> SUBSET (1..loads')] /\ held' \in [Renders -> SUBSET (1..loads')]
    BY <1>1, <1>2 DEF PInv, TypeOK
  <2> QED
    BY <1>1, <1>2, <2>1, <2>2 DEF PInv, TypeOK
<1>8. Stored'
  BY <1>1 DEF PInv, Stored
<1>9. /\ phase[s] = "up" /\ Candidates(s)' = {n} /\ Running(s)' = Running(s)
      /\ Own(s)' = Running(s) \cup {n} /\ Own(s) = Running(s) /\ entries[s] = Running(s)
  BY <1>1, <1>4, <1>5, <1>6, WhenFree DEF Candidates, Running, Own
<1>10. \A i \in Own(s) : i \in 1..loads /\ i # n /\ i \in Instances /\ lives'[i] = lives[i]
  BY <1>2, <1>3, OwnFacts
<1>11. Place(s)'
  <2>1. Serving(s)'
    BY <1>1, <1>10, ServingStands
  <2>2. Operating(s)'
    <3>1. lives'[n].plugin = p /\ lives'[n].version = v
      BY <1>2, <1>3 DEF NewLife
    <3> QED
      BY <1>1, <1>4, <1>5, <1>6, <1>9, <3>1 DEF Operating
  <2>3. Owning(s)'
    <3>1. ASSUME NEW i \in Own(s)'
          PROVE  /\ i \in 1..loads' /\ lives'[i].server = s
                 /\ ~lives'[i].retired /\ lives'[i].closed = 0 /\ lives'[i].done = 0
                 /\ i \notin entries'[s] \cup op'[s].old => Holders(i)' = {}
      <4>1. CASE i = n
        BY <1>2, <1>3, <1>4, <4>1 DEF NewLife
      <4>2. CASE i \in Own(s)
        BY <1>1, <1>2, <1>9, <1>10, <4>2, OwnFacts
      <4> QED
        BY <1>9, <4>1, <4>2
    <3> QED
      BY <1>1, <1>5, <1>6, <1>9, <1>10, <3>1 DEF Owning
  <2>4. Ended(s)'
    BY <1>1, <1>9 DEF Ended
  <2> QED
    BY <2>1, <2>2, <2>3, <2>4 DEF Place
<1>12. TransitionOrder(entries[s])'
  <2>1. \A i \in entries[s] : lives'[i] = lives[i]
    BY <1>9, <1>10
  <2> QED
    BY <1>1, <2>1, OrderStands
<1>13. Own(s) \cup {loads + 1} \subseteq Own(s)'
  BY <1>3, <1>9
<1> QED
  BY <1>1, <1>6, <1>7, <1>8, <1>11, <1>12, <1>13, LoadStep

LEMMA PrepareKeeps ==
    ASSUME PInv, NEW s \in Servers, NEW p \in Plugins, NEW v \in Versions, NEW enabled \in BOOLEAN,
           NEW archive \in BOOLEAN, Free(s), Prepare(s, p, v, enabled, archive)
    PROVE  PInv'
<1>1. CASE enabled \/ p \in Required
  BY <1>1, BeginLoadedKeeps DEF Prepare
<1>2. CASE ~(enabled \/ p \in Required)
  <2> DEFINE item == [version |-> v, enabled |-> FALSE, instance |-> 0]
  <2>1. item \in Managed /\ item.instance = 0 /\ ~item.enabled
    BY PluginAssumption DEF Managed
  <2>2. NoLoad /\ Begin(s, p, item, archive)
    BY <1>2 DEF Prepare
  <2> HIDE DEF item
  <2> QED
    BY <2>1, <2>2, BeginKeeps
<1> QED
  BY <1>1, <1>2

LEMMA BeginsKeep ==
    ASSUME PInv, NEW s \in Servers, NEW p \in Plugins,
           \/ Enable(s, p) \/ Disable(s, p) \/ Uninstall(s, p)
           \/ \E v \in Versions : Install(s, p, v) \/ Upgrade(s, p, v)
    PROVE  PInv'
<1>1. loaded[s][p] \in Managed
  BY Types DEF PInv
<1>2. loaded[s][p].version \in Versions \cup {0} /\ loaded[s][p].enabled \in BOOLEAN
  BY <1>1 DEF Managed
<1>3. CASE Enable(s, p)
  BY <1>2, <1>3, PrepareKeeps DEF Enable, InstalledIn
<1>4. CASE Disable(s, p)
  <2> DEFINE item == [version |-> loaded[s][p].version, enabled |-> FALSE, instance |-> 0]
  <2>1. item \in Managed /\ item.instance = 0 /\ ~item.enabled
    BY <1>2, PluginAssumption DEF Managed
  <2>2. Free(s) /\ NoLoad /\ Begin(s, p, item, FALSE)
    BY <1>4 DEF Disable
  <2> HIDE DEF item
  <2> QED
    BY <2>1, <2>2, BeginKeeps
<1>5. CASE Uninstall(s, p)
  BY <1>5, Nothing, BeginKeeps DEF Uninstall
<1>6. CASE \E v \in Versions : Install(s, p, v) \/ Upgrade(s, p, v)
  BY <1>2, <1>6, PrepareKeeps DEF Install, Upgrade
<1> QED
  BY <1>3, <1>4, <1>5, <1>6
-----------------------------------------------------------------------------
(* Publication *)

\* What is known of a server that publishes.
LEMMA WhenPublishing ==
    ASSUME PInv, NEW s \in Servers, Publishing(s)
    PROVE  /\ phase[s] = "up" /\ op[s].old = {} /\ entries[s] = Running(s)
           /\ Own(s) = Running(s) \cup Candidates(s) /\ Candidates(s) \cap Running(s) = {}
           /\ op[s].id \in Plugins /\ op[s].item \in Managed
           /\ op[s].item.enabled <=> op[s].item.instance # 0
           /\ op[s].item.enabled => op[s].item.version # 0
           /\ op[s].item.instance # 0 => /\ lives[op[s].item.instance].plugin = op[s].id
                                         /\ lives[op[s].item.instance].version = op[s].item.version
<1>1. op[s].step = "publish" /\ Serving(s) /\ Operating(s) /\ Owning(s)
  BY DEF Publishing, PInv, Place
<1>2. phase[s] = "up" /\ op[s].old = {}
  BY <1>1 DEF Operating
<1>3. entries[s] = Running(s)
  BY <1>1, <1>2 DEF Serving
<1>4. Own(s) = Running(s) \cup Candidates(s)
  BY <1>2, <1>3 DEF Own
<1>5. op[s].id \in Plugins /\ op[s].item \in Managed
  BY Types DEF PInv
<1> QED
  BY <1>1, <1>2, <1>3, <1>4, <1>5 DEF Operating, Owning

\* A commit keeps disabled what has no version.
LEMMA Commits ==
    ASSUME PInv, NEW s \in Servers, Publishing(s), CanCommit(s)
    PROVE  /\ Committed(s) \in [Plugins -> Record]
           /\ \A p \in Plugins : Committed(s)[p].enabled => Committed(s)[p].version # 0
<1> DEFINE q == op[s].id
           item == op[s].item
<1>1. /\ q \in Plugins /\ item \in Managed /\ (item.enabled => item.version # 0)
      /\ store \in [Plugins -> Record] /\ \A p \in Plugins : store[p].enabled => store[p].version # 0
  BY WhenPublishing DEF PInv, TypeOK, Stored
<1>2. CASE item = NotLoaded
  BY <1>1, <1>2, Nothing DEF Committed
<1>3. CASE item # NotLoaded /\ op[s].archive
  <2>1. Durable(item) \in Record /\ Durable(item).version = item.version /\ Durable(item).enabled = item.enabled
    BY <1>1 DEF Durable, Managed, Record
  <2> HIDE DEF item
  <2>2. Committed(s) = [store EXCEPT ![q] = Durable(item)]
    BY <1>3 DEF Committed, item
  <2> QED
    BY <1>1, <2>1, <2>2
<1>4. CASE item # NotLoaded /\ ~op[s].archive
  <2>1. store[q] # NotInstalled
    BY <1>4 DEF CanCommit
  <2>2. store[q].version # 0
    BY <1>1, <2>1, Nothing
  <2> DEFINE x == [store[q] EXCEPT !.enabled = item.enabled]
  <2>3. x \in Record /\ x.version # 0
    BY <1>1, <2>2 DEF Record, Managed
  <2>4. Committed(s) = [store EXCEPT ![q] = x]
    BY <1>1, <1>4 DEF Committed, Record
  <2> HIDE DEF x
  <2> QED
    BY <1>1, <2>3, <2>4
<1> QED
  BY <1>2, <1>3, <1>4

\* The order of given instances, which no step changes.
LEMMA OrderKept ==
    ASSUME NEW E, lives' = lives, TransitionOrder(E)
    PROVE  TransitionOrder(E)'
<1> DEFINE f == [p \in Registered(E) |-> UNION {RequiredBy(i) : i \in Of(p, E)}]
<1>1. Registered(E)' = Registered(E)
  BY DEF Registered
<1>2. \A p : Of(p, E)' = Of(p, E)
  BY DEF Of
<1>3. f' = f
  <2>1. \A p : UNION {Requires[lives'[i].plugin, lives'[i].version] : i \in Of(p, E)}
                 = UNION {Requires[lives[i].plugin, lives[i].version] : i \in Of(p, E)}
    OBVIOUS
  <2> QED
    BY <1>1, <1>2, <2>1 DEF RequiredBy
<1>4. Orderable(f)
  BY DEF TransitionOrder
<1>5. Orderable(f)'
  BY <1>3, <1>4 DEF Orderable
<1> QED
  BY <1>5 DEF TransitionOrder

LEMMA PublishKeeps ==
    ASSUME PInv, NEW s \in Servers, Publish(s)
    PROVE  PInv'
<1>1. PICK p \in Plugins : p = op[s].id
  BY Types DEF PInv
<1>2. PICK item \in Managed : item = op[s].item
  BY Types DEF PInv
<1>3. PICK prev : prev = loaded[s][p].instance
  OBVIOUS
<1> DEFINE o == IF prev = 0 THEN Idle ELSE [Idle EXCEPT !.step = "retire", !.old = {prev}]
           L == [loaded[s] EXCEPT ![p] = item]
<1>4. /\ Publishing(s) /\ Valid(s) /\ CanCommit(s) /\ store' = Committed(s)
      /\ entries' = [entries EXCEPT ![s] = CandidateEntries(s)]
      /\ loaded' = [loaded EXCEPT ![s] = L] /\ op' = [op EXCEPT ![s] = o]
      /\ UNCHANGED <<phase, missing, loads, lives, held, lost>>
  BY <1>1, <1>2, <1>3 DEF Publish, Candidate, Previous
<1>5. /\ phase[s] = "up" /\ op[s].old = {} /\ entries[s] = Running(s)
      /\ Own(s) = Running(s) \cup Candidates(s) /\ Candidates(s) \cap Running(s) = {}
      /\ Candidates(s) = {item.instance} \ {0}
      /\ item.enabled <=> item.instance # 0
      /\ item.enabled => item.version # 0
      /\ item.instance # 0 => lives[item.instance].plugin = p /\ lives[item.instance].version = item.version
  BY <1>1, <1>2, <1>4, WhenPublishing DEF Candidates
<1>6. /\ loaded \in [Servers -> [Plugins -> Managed]] /\ entries \in [Servers -> SUBSET (1..loads)]
      /\ op \in [Servers -> [step : {"idle", "publish", "retire"}, id : Plugins, item : Managed,
                             archive : BOOLEAN, old : SUBSET (1..loads)]]
  BY DEF PInv, TypeOK
<1>7. /\ L \in [Plugins -> Managed] /\ L[p] = item /\ \A q \in Plugins \ {p} : L[q] = loaded[s][q]
  BY <1>6
<1>8. prev # 0 => prev \in Running(s) /\ prev \in 1..loads
  <2>1. prev # 0 => prev \in Running(s)
    BY <1>3 DEF Running
  <2> QED
    BY <1>5, <2>1, OwnFacts
<1>9. /\ o \in [step : {"idle", "publish", "retire"}, id : Plugins, item : Managed,
                archive : BOOLEAN, old : SUBSET (1..loads)]
      /\ o.step = IF prev = 0 THEN "idle" ELSE "retire"
      /\ o.item = NotLoaded /\ o.old = {prev} \ {0}
  <2>1. Idle \in [step : {"idle", "publish", "retire"}, id : Plugins, item : Managed,
                  archive : BOOLEAN, old : SUBSET (1..loads)]
    BY Nothing DEF Idle
  <2>2. CASE prev = 0
    BY <2>1, <2>2, Nothing
  <2>3. CASE prev # 0
    <3>1. {prev} \in SUBSET (1..loads)
      BY <1>8, <2>3
    <3>2. LET y == [Idle EXCEPT !.step = "retire", !.old = {prev}] IN
          /\ y \in [step : {"idle", "publish", "retire"}, id : Plugins, item : Managed,
                    archive : BOOLEAN, old : SUBSET (1..loads)]
          /\ y.step = "retire" /\ y.item = NotLoaded /\ y.old = {prev}
      BY <2>1, <3>1, Nothing
    <3> QED
      BY <2>3, <3>2
  <2> QED
    BY <2>2, <2>3
<1> HIDE DEF o, L
<1>10. /\ loaded'[s] = L /\ op'[s] = o /\ entries'[s] = CandidateEntries(s)
       /\ \A t \in Servers \ {s} :
             phase'[t] = phase[t] /\ loaded'[t] = loaded[t] /\ entries'[t] = entries[t] /\ op'[t] = op[t]
  BY <1>4, <1>6
<1>11. CandidateEntries(s) = (Running(s) \cup {item.instance}) \ {0, prev}
  BY <1>1, <1>2, <1>3, <1>5 DEF CandidateEntries, Previous
<1>12. /\ prev # item.instance \/ prev = 0
       /\ \A q \in Plugins : L[q].instance # 0 => L[q].instance # prev
  <2>1. prev # item.instance \/ prev = 0
    BY <1>5, <1>8
  <2>2. ASSUME NEW q \in Plugins, L[q].instance # 0, L[q].instance = prev PROVE FALSE
    <3>1. q # p
      BY <1>7, <2>1, <2>2
    <3> QED
      BY <1>3, <1>7, <2>2, <3>1, Apart
  <2> QED
    BY <2>1, <2>2
<1>13. Running(s)' = (Running(s) \cup {item.instance}) \ {0, prev}
  <2>1. Running(s)' = {L[q].instance : q \in Plugins} \ {0}
    BY <1>10 DEF Running
  <2>2. \A q \in Plugins : L[q].instance # 0 => L[q].instance \in (Running(s) \cup {item.instance}) \ {0, prev}
    <3> SUFFICES ASSUME NEW q \in Plugins, L[q].instance # 0
                 PROVE  L[q].instance \in Running(s) \cup {item.instance}
      BY <1>12
    <3> QED
      BY <1>7 DEF Running
  <2>3. ASSUME NEW i \in (Running(s) \cup {item.instance}) \ {0, prev}
        PROVE  \E q \in Plugins : L[q].instance = i
    <3>1. CASE i = item.instance
      BY <1>7, <3>1
    <3>2. CASE i \in Running(s)
      <4>1. PICK q \in Plugins : loaded[s][q].instance = i
        BY <3>2 DEF Running
      <4>2. q # p
        BY <1>3, <2>3, <4>1
      <4> QED
        BY <1>7, <4>1, <4>2
    <3> QED
      BY <2>3, <3>1, <3>2
  <2> QED
    BY <2>1, <2>2, <2>3
<1>14. /\ Candidates(s)' = {} /\ entries'[s] = Running(s)'
  BY <1>9, <1>10, <1>11, <1>13, Nothing DEF Candidates
<1>15. Own(s)' = Own(s)
  <2>1. Own(s)' = Running(s)' \cup ({prev} \ {0})
    BY <1>9, <1>10, <1>14 DEF Own
  <2>2. 0 \notin Running(s) /\ ({prev} \ {0}) \subseteq Running(s)
    BY <1>8 DEF Running
  <2>3. prev \notin {item.instance} \ {0}
    BY <1>12
  <2> QED
    BY <1>5, <1>13, <2>1, <2>2, <2>3
<1>16. TypeOK'
  <2>1. CandidateEntries(s) \in SUBSET (1..loads)
    <3>1. \A i \in Own(s) : i \in 1..loads
      BY OwnFacts
    <3> QED
      BY <1>5, <1>11, <3>1
  <2>2. /\ entries' \in [Servers -> SUBSET (1..loads)] /\ loaded' \in [Servers -> [Plugins -> Managed]]
        /\ op' \in [Servers -> [step : {"idle", "publish", "retire"}, id : Plugins, item : Managed,
                                archive : BOOLEAN, old : SUBSET (1..loads)]]
    BY <1>4, <1>6, <1>7, <1>9, <2>1
  <2>3. store' \in [Plugins -> Record]
    BY <1>4, Commits
  <2> QED
    BY <1>4, <2>2, <2>3 DEF PInv, TypeOK
<1>17. Stored'
  BY <1>4, Commits DEF Stored
<1>18. Place(s)'
  <2>1. Serving(s)'
    <3>1. Serving(s)
      BY DEF PInv, Place
    <3>2. \A q \in Plugins :
             /\ L[q].enabled => L[q].version # 0
             /\ L[q].instance # 0 =>
                   /\ L[q].enabled
                   /\ lives[L[q].instance].plugin = q
                   /\ lives[L[q].instance].version = L[q].version
             /\ L[q].enabled => L[q].instance # 0
      <4> TAKE q \in Plugins
      <4>1. CASE q = p
        BY <1>5, <1>7, <4>1
      <4>2. CASE q # p
        BY <1>5, <1>7, <3>1, <4>2 DEF Serving
      <4> QED
        BY <4>1, <4>2
    <3> QED
      BY <1>4, <1>5, <1>10, <1>14, <3>2 DEF Serving
  <2>2. Operating(s)'
    BY <1>4, <1>5, <1>9, <1>10, Nothing DEF Operating
  <2>3. Owning(s)'
    <3>1. \A i \in Own(s) : i \notin entries'[s] \cup op'[s].old => FALSE
      <4>1. entries'[s] \cup op'[s].old = Running(s)' \cup ({prev} \ {0})
        BY <1>9, <1>10, <1>14
      <4>2. Own(s)' = Running(s)' \cup ({prev} \ {0})
        BY <1>9, <1>10, <1>14 DEF Own
      <4> QED
        BY <1>15, <4>1, <4>2
    <3>2. \A i \in Own(s) : /\ i \in 1..loads /\ lives[i].server = s
                            /\ ~lives[i].retired /\ lives[i].closed = 0 /\ lives[i].done = 0
      BY OwnFacts
    <3>3. op'[s].old \cap (entries'[s] \cup Running(s)' \cup Candidates(s)') = {}
      BY <1>9, <1>10, <1>13, <1>14
    <3> QED
      BY <1>4, <1>14, <1>15, <3>1, <3>2, <3>3 DEF Owning
  <2>4. Ended(s)'
    BY <1>4, <1>5 DEF Ended
  <2> QED
    BY <2>1, <2>2, <2>3, <2>4 DEF Place
<1>19. TransitionOrder(entries[s])'
  <2>1. PICK E : E = entries'[s]
    OBVIOUS
  <2>2. TransitionOrder(E)
    <3>1. CASE item.instance # 0 \/ prev # 0
      BY <1>1, <1>2, <1>3, <1>4, <1>10, <2>1, <3>1 DEF Valid, Previous
    <3>2. CASE item.instance = 0 /\ prev = 0
      <4>1. E = entries[s]
        BY <1>5, <1>10, <1>11, <2>1, <3>2 DEF Running
      <4> QED
        BY <4>1 DEF PInv
    <3> QED
      BY <3>1, <3>2
  <2>3. TransitionOrder(E)'
    BY <1>4, <2>2, OrderKept
  <2> QED
    BY <2>1, <2>3 DEF TransitionOrder
<1> QED
  BY <1>4, <1>10, <1>15, <1>16, <1>17, <1>18, <1>19, QuietStep
-----------------------------------------------------------------------------
(* Closing and retirement *)

\* Closing the instances of a server that nobody uses.
LEMMA Closing ==
    ASSUME PInv, NEW S, lives' = ClosedAll(S)
    PROVE  /\ lives' \in [Instances -> Life]
           /\ \A i \in Instances \ S : lives'[i] = lives[i]
           /\ \A i \in Instances \cap S :
                 /\ lives'[i].server = lives[i].server /\ lives'[i].plugin = lives[i].plugin
                 /\ lives'[i].version = lives[i].version /\ lives'[i].retired = lives[i].retired
                 /\ lives'[i].refs = lives[i].refs /\ lives'[i].done = lives[i].done
                 /\ lives'[i].closed = lives[i].closed + 1
<1>1. \A i \in Instances : lives[i] \in Life
  BY Types DEF PInv
<1>2. \A i \in Instances \ S : lives'[i] = lives[i]
  BY DEF ClosedAll
<1>3. ASSUME NEW i \in Instances \cap S
      PROVE  /\ lives'[i] \in Life
             /\ lives'[i].server = lives[i].server /\ lives'[i].plugin = lives[i].plugin
             /\ lives'[i].version = lives[i].version /\ lives'[i].retired = lives[i].retired
             /\ lives'[i].refs = lives[i].refs /\ lives'[i].done = lives[i].done
             /\ lives'[i].closed = lives[i].closed + 1
  <2>1. PICK e \in Nat : e = lives[i].closed + 1
    BY <1>1 DEF Life
  <2>2. lives'[i] = [lives[i] EXCEPT !.closed = e]
    BY <2>1 DEF ClosedAll
  <2> QED
    BY <1>1, <2>1, <2>2 DEF Life
<1>4. \A i \in Instances : lives'[i] \in Life
  BY <1>1, <1>2, <1>3
<1>5. lives' \in [Instances -> Life]
  BY <1>4 DEF ClosedAll
<1> QED
  BY <1>2, <1>3, <1>5

LEMMA CloseStep ==
    ASSUME PInv, NEW s \in Servers, NEW S, lives' = ClosedAll(S), UNCHANGED <<loads, held>>,
           \A i \in S : i \in 1..loads /\ lives[i].server = s /\ lives[i].closed = 0 /\ Holders(i) = {},
           \A t \in Servers \ {s} :
              phase'[t] = phase[t] /\ loaded'[t] = loaded[t] /\ entries'[t] = entries[t] /\ op'[t] = op[t],
           Own(s) \ S \subseteq Own(s)',
           TypeOK', Stored', Place(s)', TransitionOrder(entries[s])'
    PROVE  PInv'
<1>0. loads \in Nat /\ 1..loads \subseteq Instances /\ \A i \in Instances : i \in Nat
  BY Types DEF PInv
<1>1. \A i : Holders(i)' = Holders(i)
  BY DEF Holders
<1>2. /\ \A i \in Instances \ S : lives'[i] = lives[i]
      /\ \A i \in Instances \cap S :
            /\ lives'[i].server = lives[i].server /\ lives'[i].retired = lives[i].retired
            /\ lives'[i].refs = lives[i].refs /\ lives'[i].done = lives[i].done
            /\ lives'[i].closed = lives[i].closed + 1
  BY Closing
<1>3. ASSUME NEW i \in Instances
      PROVE  Lifetime(i)'
  <2>1. CASE i \in S
    <3>1. /\ Lifetime(i) /\ i \in 1..loads /\ lives[i].closed = 0 /\ Holders(i) = {}
      BY <2>1 DEF PInv
    <3>2. lives'[i].closed = 1 /\ i <= loads' /\ ~(i > loads')
      BY <1>0, <1>2, <2>1, <3>1
    <3>3. /\ lives'[i].refs = Cardinality(Holders(i)') /\ Holders(i)' = {}
          /\ lives'[i].done \in {0, 1} /\ (lives'[i].done = 1 => lives'[i].retired)
      BY <1>1, <1>2, <2>1, <3>1 DEF Lifetime
    <3> QED
      BY <3>2, <3>3 DEF Lifetime
  <2>2. CASE i \notin S
    <3>1. PICK t \in Servers : t = lives[i].server
      BY Types DEF PInv, Life
    <3>2. CASE t = s
      <4>1. i \in Own(lives[i].server) => i \in Own(lives[i].server)'
        BY <1>2, <2>2, <3>1, <3>2
      <4> QED
        BY <1>0, <1>1, <1>2, <2>2, <4>1, LifetimeStands
    <3>3. CASE t # s
      <4>1. Own(t)' = Own(t)
        BY <3>3 DEF Own, Running, Candidates
      <4>2. i \in Own(lives[i].server) => i \in Own(lives[i].server)'
        BY <1>2, <2>2, <3>1, <4>1
      <4> QED
        BY <1>0, <1>1, <1>2, <2>2, <4>2, LifetimeStands
    <3> QED
      BY <3>2, <3>3
  <2> QED
    BY <2>1, <2>2
<1>4. /\ \A i \in 1..loads : lives'[i].server = lives[i].server
      /\ \A i \in 1..loads : lives[i].server # s => lives'[i] = lives[i]
  BY <1>0, <1>2
<1>5. \A i \in 1..loads' : i > loads => lives'[i].server = s
  BY <1>0
<1> QED
  BY <1>0, <1>1, <1>3, <1>4, <1>5, ServerStep

\* An operation that fails.
LEMMA AbandonKeeps ==
    ASSUME PInv, NEW s \in Servers, Publishing(s), Abandon(s), lost' \in 0..MaxLostReplies,
           store' \in [Plugins -> Record], \A p \in Plugins : store'[p].enabled => store'[p].version # 0
    PROVE  PInv'
<1>1. /\ op' = [op EXCEPT ![s] = Idle] /\ lives' = ClosedAll(Candidates(s))
      /\ UNCHANGED <<phase, missing, loaded, entries, loads, held>>
  BY DEF Abandon, Candidates
<1>2. /\ phase[s] = "up" /\ op[s].old = {} /\ entries[s] = Running(s)
      /\ Own(s) = Running(s) \cup Candidates(s) /\ Candidates(s) \cap Running(s) = {}
  BY WhenPublishing
<1>3. /\ op'[s] = Idle /\ \A t \in Servers \ {s} : op'[t] = op[t]
      /\ Idle \in [step : {"idle", "publish", "retire"}, id : Plugins, item : Managed,
                   archive : BOOLEAN, old : SUBSET (1..loads)]
  BY <1>1, Nothing DEF PInv, TypeOK, Idle
<1>4. /\ \A i \in Own(s) : /\ i \in 1..loads /\ i \in Instances /\ lives[i].server = s
                           /\ ~lives[i].retired /\ lives[i].closed = 0 /\ lives[i].done = 0
      /\ \A i \in Candidates(s) : Holders(i) = {}
  BY <1>2, OwnFacts
<1>5. /\ lives' \in [Instances -> Life]
      /\ \A i \in Instances \ Candidates(s) : lives'[i] = lives[i]
      /\ \A i \in Own(s) : lives'[i].plugin = lives[i].plugin /\ lives'[i].version = lives[i].version
  BY <1>1, <1>4, Closing
<1>6. TypeOK'
  BY <1>1, <1>3, <1>5 DEF PInv, TypeOK
<1>7. Stored'
  BY DEF Stored
<1>8. /\ Running(s)' = Running(s) /\ Candidates(s)' = {} /\ Own(s)' = Running(s)
  BY <1>1, <1>2, <1>3, Nothing DEF Own, Running, Candidates
<1>9. Place(s)'
  <2>1. Serving(s)'
    BY <1>1, <1>5, ServingStands
  <2>2. Operating(s)'
    BY <1>1, <1>3, Nothing DEF Operating
  <2>3. Owning(s)'
    <3>1. \A i \in Running(s) : lives'[i] = lives[i] /\ i \in 1..loads /\ lives[i].server = s
                                /\ ~lives[i].retired /\ lives[i].closed = 0 /\ lives[i].done = 0
      BY <1>2, <1>4, <1>5
    <3>2. op'[s].old = {}
      BY <1>3, Nothing
    <3> QED
      BY <1>1, <1>2, <1>8, <3>1, <3>2 DEF Owning
  <2>4. Ended(s)'
    BY <1>1, <1>2 DEF Ended
  <2> QED
    BY <2>1, <2>2, <2>3, <2>4 DEF Place
<1>10. TransitionOrder(entries[s])'
  BY <1>1, <1>2, <1>5, OrderStands
<1>11. Own(s) \ Candidates(s) \subseteq Own(s)'
  BY <1>2, <1>8
<1>12. \A i \in Candidates(s) : i \in Own(s)
  BY <1>2
<1> QED
  BY <1>1, <1>3, <1>4, <1>6, <1>7, <1>9, <1>10, <1>11, <1>12, CloseStep

LEMMA FailuresKeep ==
    ASSUME PInv, NEW s \in Servers, PublishFails(s) \/ PublishUnanswered(s)
    PROVE  PInv'
<1>1. CASE PublishFails(s)
  <2>1. /\ store' = store /\ lost' = lost /\ Publishing(s) /\ Abandon(s)
    BY <1>1 DEF PublishFails
  <2>2. /\ store' \in [Plugins -> Record] /\ lost' \in 0..MaxLostReplies
        /\ \A p \in Plugins : store'[p].enabled => store'[p].version # 0
    BY <2>1 DEF PInv, TypeOK, Stored
  <2> QED
    BY <2>1, <2>2, AbandonKeeps
<1>2. CASE PublishUnanswered(s)
  <2>1. /\ Publishing(s) /\ CanCommit(s) /\ store' = Committed(s) /\ Abandon(s)
        /\ lost' = lost + 1 /\ lost < MaxLostReplies /\ lost \in 0..MaxLostReplies
    BY <1>2 DEF PublishUnanswered, PInv, TypeOK
  <2>2. lost' \in 0..MaxLostReplies
    BY <2>1, PluginAssumption
  <2>3. /\ store' \in [Plugins -> Record]
        /\ \A p \in Plugins : store'[p].enabled => store'[p].version # 0
    BY <2>1, Commits
  <2> QED
    BY <2>1, <2>2, <2>3, AbandonKeeps
<1> QED
  BY <1>1, <1>2

LEMMA RetireKeeps ==
    ASSUME PInv, NEW s \in Servers, NEW i \in Instances, Retire(s, i)
    PROVE  PInv'
<1> DEFINE o == IF op[s].old = {i} THEN Idle ELSE [op[s] EXCEPT !.old = op[s].old \ {i}]
           d == IF lives[i].refs = 0 THEN lives[i].done + 1 ELSE lives[i].done
           e == IF lives[i].refs = 0 THEN lives[i].closed + 1 ELSE lives[i].closed
           x == [lives[i] EXCEPT !.retired = TRUE, !.done = d, !.closed = e]
           OpType == [step : {"idle", "publish", "retire"}, id : Plugins, item : Managed,
                      archive : BOOLEAN, old : SUBSET (1..loads)]
<1>0. loads \in Nat /\ 1..loads \subseteq Instances /\ \A j \in Instances : j \in Nat
  BY Types DEF PInv
<1>1. /\ op[s].step = "retire" /\ i \in op[s].old /\ op' = [op EXCEPT ![s] = o]
      /\ lives' = RetiredLife(i)
      /\ UNCHANGED <<store, phase, missing, loaded, entries, loads, held, lost>>
  BY DEF Retire
<1>2. /\ phase[s] \in {"up", "closing"} /\ op[s].item.instance = 0 /\ Candidates(s) = {}
      /\ ~op[s].item.enabled /\ Own(s) = entries[s] \cup op[s].old \cup Running(s)
      /\ op[s].old \cap (entries[s] \cup Running(s)) = {}
  <2>1. Operating(s) /\ Owning(s)
    BY DEF PInv, Place
  <2>2. phase[s] \in {"up", "closing"} /\ op[s].item.instance = 0 /\ ~op[s].item.enabled
    BY <1>1, <2>1 DEF Operating
  <2> QED
    BY <2>1, <2>2 DEF Owning, Own, Candidates
<1>3. /\ i \in 1..loads /\ lives[i] \in Life /\ lives[i].server = s
      /\ ~lives[i].retired /\ lives[i].closed = 0 /\ lives[i].done = 0
      /\ lives[i].refs = Cardinality(Holders(i))
  <2>1. i \in Own(s)
    BY <1>1 DEF Own
  <2> QED
    BY <2>1, OwnFacts DEF PInv, Lifetime
<1>4. /\ lives[i].refs \in Nat
      /\ d = (IF lives[i].refs = 0 THEN 1 ELSE 0) /\ e = (IF lives[i].refs = 0 THEN 1 ELSE 0)
  BY <1>3 DEF Life
<1>5. /\ x \in Life /\ x.server = s /\ x.plugin = lives[i].plugin /\ x.version = lives[i].version
      /\ x.refs = lives[i].refs /\ x.retired /\ x.done = d /\ x.closed = e
  <2>1. PICK n \in Nat : n = d /\ n = e
    BY <1>4
  <2> QED
    BY <1>3, <2>1 DEF Life
<1>6. lives' = [lives EXCEPT ![i] = x]
  <2>1. lives \in [Instances -> Life]
    BY DEF PInv, TypeOK
  <2> QED
    BY <1>1, <2>1 DEF RetiredLife
<1> HIDE DEF x, d, e
<1>7. /\ lives'[i] = x /\ \A j \in Instances \ {i} : lives'[j] = lives[j]
      /\ lives' \in [Instances -> Life]
  BY <1>5, <1>6 DEF PInv, TypeOK
<1>8. /\ o \in OpType /\ o.old = op[s].old \ {i} /\ o.item.instance = 0 /\ ~o.item.enabled
      /\ o.step # "publish" /\ (o.step # "retire" => o.old = {})
  <2>1. op[s] \in OpType
    BY DEF PInv, TypeOK
  <2>2. CASE op[s].old = {i}
    BY <2>2, Nothing DEF Idle
  <2>3. CASE op[s].old # {i}
    <3> DEFINE y == [op[s] EXCEPT !.old = op[s].old \ {i}]
    <3>1. y \in OpType /\ y.old = op[s].old \ {i} /\ y.item = op[s].item /\ y.step = op[s].step
      BY <2>1
    <3>2. o = y
      BY <2>3
    <3> HIDE DEF y
    <3> QED
      BY <1>1, <1>2, <3>1, <3>2
  <2> QED
    BY <2>2, <2>3
<1> HIDE DEF o
<1>9. op'[s] = o /\ \A t \in Servers \ {s} : op'[t] = op[t]
  BY <1>1 DEF PInv, TypeOK
<1>10. TypeOK'
  BY <1>1, <1>7, <1>8 DEF PInv, TypeOK
<1>11. Stored'
  BY <1>1 DEF PInv, Stored
<1>12. /\ Running(s)' = Running(s) /\ Candidates(s)' = {}
       /\ Own(s)' = Own(s) \ {i} /\ i \notin Own(s)'
  <2>1. Running(s)' = Running(s) /\ Candidates(s)' = {}
    BY <1>1, <1>8, <1>9 DEF Running, Candidates
  <2> QED
    BY <1>1, <1>2, <1>8, <1>9, <2>1 DEF Own
<1>13. \A j : Holders(j)' = Holders(j)
  BY <1>1 DEF Holders
<1>14. \A j \in Own(s) : j \in 1..loads /\ j \in Instances
  BY OwnFacts
<1>15. Place(s)'
  <2>1. Serving(s)'
    BY <1>1, <1>5, <1>7, <1>14, ServingStands
  <2>2. Operating(s)'
    BY <1>1, <1>2, <1>8, <1>9 DEF Operating
  <2>3. Owning(s)'
    <3>1. ASSUME NEW j \in Own(s)'
          PROVE  /\ j \in 1..loads' /\ lives'[j].server = s
                 /\ ~lives'[j].retired /\ lives'[j].closed = 0 /\ lives'[j].done = 0
                 /\ j \notin entries'[s] \cup op'[s].old => Holders(j)' = {}
      <4>1. j \in Own(s) /\ j # i /\ lives'[j] = lives[j]
        BY <1>7, <1>12, <1>14
      <4>2. j \notin entries'[s] \cup op'[s].old => j \notin entries[s] \cup op[s].old
        BY <1>1, <1>8, <1>9, <4>1
      <4> QED
        BY <1>1, <1>13, <4>1, <4>2, OwnFacts
    <3> QED
      BY <1>1, <1>2, <1>8, <1>9, <1>12, <3>1 DEF Owning
  <2>4. Ended(s)'
    BY <1>1, <1>2 DEF Ended
  <2> QED
    BY <2>1, <2>2, <2>3, <2>4 DEF Place
<1>16. TransitionOrder(entries[s])'
  <2>1. \A j \in entries[s] : lives'[j].plugin = lives[j].plugin /\ lives'[j].version = lives[j].version
    BY <1>2, <1>5, <1>7, <1>14
  <2> QED
    BY <1>1, <2>1, OrderStands
<1>17. ASSUME NEW j \in Instances
       PROVE  Lifetime(j)'
  <2>1. CASE j = i
    <3>1. Holders(i) \in SUBSET Renders
      BY DEF Holders
    <3>2. lives[i].refs = 0 <=> Holders(i) = {}
      BY <1>3, <3>1, PluginAssumption, FS_Subset, FS_EmptySet
    <3>3. i <= loads' /\ ~(i > loads')
      BY <1>0, <1>1, <1>3
    <3> QED
      BY <1>1, <1>3, <1>4, <1>5, <1>7, <1>13, <2>1, <3>2, <3>3 DEF Lifetime
  <2>2. CASE j # i
    <3>1. PICK t \in Servers : t = lives[j].server
      BY Types DEF PInv, Life
    <3>2. j \in Own(t) => j \in Own(t)'
      <4>1. t # s => Own(t)' = Own(t)
        BY <1>1, <1>9 DEF Own, Running, Candidates
      <4> QED
        BY <1>12, <2>2, <4>1
    <3>3. j \in Own(lives[j].server) => j \in Own(lives[j].server)'
      BY <1>7, <2>2, <3>1, <3>2
    <3> QED
      BY <1>0, <1>1, <1>7, <1>13, <2>2, <3>3, LifetimeStands
  <2> QED
    BY <2>1, <2>2
<1>18. /\ \A j \in 1..loads : lives'[j].server = lives[j].server
       /\ \A j \in 1..loads : lives[j].server # s => lives'[j] = lives[j]
       /\ \A j \in 1..loads' : j > loads => lives'[j].server = s
  BY <1>0, <1>1, <1>3, <1>5, <1>7
<1> QED
  BY <1>0, <1>1, <1>9, <1>10, <1>11, <1>13, <1>15, <1>16, <1>17, <1>18, ServerStep

LEMMA CloseDrainedKeeps ==
    ASSUME PInv, NEW i \in Instances, CloseDrained(i)
    PROVE  PInv'
<1>1. /\ i <= loads /\ lives[i].retired /\ lives[i].done > 0 /\ lives[i].closed = 0
      /\ lives' = ClosedAll({i})
      /\ UNCHANGED <<store, phase, missing, loaded, entries, op, loads, held, lost>>
  BY DEF CloseDrained
<1>2. /\ i \in 1..loads /\ loads \in Nat /\ 1..loads \subseteq Instances /\ lives[i] \in Life
  BY <1>1, Types DEF PInv
<1>3. PICK s \in Servers : s = lives[i].server
  BY <1>2 DEF Life
<1>4. lives[i].done = 1 /\ Holders(i) = {}
  BY <1>1 DEF PInv, Lifetime
<1>5. \A t \in Servers : i \notin Own(t)
  BY <1>1, OwnFacts
<1>6. /\ lives' \in [Instances -> Life] /\ lives'[i].server = s
      /\ \A j \in Instances \ {i} : lives'[j] = lives[j]
  BY <1>1, <1>3, Closing
<1>7. \A j \in Own(s) : lives'[j] = lives[j]
  BY <1>5, <1>6, OwnFacts
<1>8. \A j : Holders(j)' = Holders(j)
  BY <1>1 DEF Holders
<1>9. phase[s] # "closed"
  BY <1>1, <1>2, <1>3 DEF PInv, Place, Ended, InstancesOf
<1>10. Place(s)'
  <2>1. \A j \in Own(s) \ (entries[s] \cup op[s].old) : Holders(j)' \subseteq Holders(j)
    BY <1>8
  <2> QED
    BY <1>1, <1>2, <1>7, <1>9, <2>1, PlaceStands
<1>11. TransitionOrder(entries[s])'
  <2>1. \A j \in entries[s] : lives'[j] = lives[j]
    BY <1>7 DEF Own
  <2> QED
    BY <1>1, <2>1, OrderStands
<1>12. TypeOK' /\ Stored'
  BY <1>1, <1>6 DEF PInv, TypeOK, Stored
<1>13. Own(s) \ {i} \subseteq Own(s)'
  BY <1>1 DEF Own, Running, Candidates
<1> QED
  BY <1>1, <1>2, <1>3, <1>4, <1>10, <1>11, <1>12, <1>13, CloseStep
-----------------------------------------------------------------------------
(* Leases *)

\* A step of a render: leases are counted, and only what is retired is signalled.
LEMMA LeaseStep ==
    ASSUME PInv, UNCHANGED <<store, phase, missing, loaded, entries, op, loads, lost>>,
           lives' \in [Instances -> Life], held' \in [Renders -> SUBSET (1..loads)],
           \A i \in Instances :
              /\ lives'[i].server = lives[i].server /\ lives'[i].plugin = lives[i].plugin
              /\ lives'[i].version = lives[i].version /\ lives'[i].retired = lives[i].retired
              /\ lives'[i].closed = lives[i].closed
              /\ ~lives[i].retired => lives'[i].done = lives[i].done,
           \A t \in Servers : \A i \in Own(t) \ (entries[t] \cup op[t].old) :
              Holders(i)' \subseteq Holders(i),
           \A i \in Instances :
              /\ lives'[i].refs = Cardinality(Holders(i)') /\ lives'[i].done \in {0, 1}
              /\ lives'[i].done = 1 => lives[i].retired /\ Holders(i)' = {}
              /\ lives[i].closed = 1 => Holders(i)' = {}
              /\ i > loads => lives'[i].done = 0
    PROVE  PInv'
<1>0. loads \in Nat /\ 1..loads \subseteq Instances /\ \A i \in Instances : i \in Nat
  BY Types DEF PInv
<1>1. TypeOK' /\ Stored'
  BY DEF PInv, TypeOK, Stored
<1>2. ASSUME NEW t \in Servers
      PROVE  Place(t)' /\ TransitionOrder(entries[t])'
  <2>1. \A i \in Own(t) : i \in Instances /\ ~lives[i].retired
    BY OwnFacts
  <2>2. Place(t)'
    BY <1>0, <2>1, PlaceStands
  <2>3. TransitionOrder(entries[t])'
    BY <2>1, OrderStands DEF Own
  <2> QED
    BY <2>2, <2>3
<1>3. ASSUME NEW i \in Instances
      PROVE  Lifetime(i)'
  <2>1. Lifetime(i)
    BY DEF PInv
  <2>2. PICK t \in Servers : t = lives[i].server
    BY Types DEF PInv, Life
  <2>3. Own(t)' = Own(t)
    BY DEF Own, Running, Candidates
  <2>4. i <= loads' => i \in Own(lives[i].server)' \/ lives'[i].closed = 1 \/ lives'[i].retired
    BY <2>1, <2>2, <2>3 DEF Lifetime
  <2>5. lives'[i].server = t
    BY <2>2
  <2>6. i <= loads' => i \in Own(t)' \/ lives'[i].closed = 1 \/ lives'[i].retired
    BY <2>1, <2>2, <2>3 DEF Lifetime
  <2> QED
    BY <2>1, <2>5, <2>6 DEF Lifetime
<1> QED
  BY <1>1, <1>2, <1>3 DEF PInv

\* A render leases some of what a server publishes.
LEMMA LeaseKeeps ==
    ASSUME PInv, NEW r \in Renders, NEW s \in Servers, NEW S \in SUBSET entries[s], held[r] = {},
           held' = [held EXCEPT ![r] = S],
           lives' = [i \in Instances |->
                        IF i \in S THEN [lives[i] EXCEPT !.refs = lives[i].refs + 1] ELSE lives[i]],
           UNCHANGED <<store, phase, missing, loaded, entries, op, loads, lost>>
    PROVE  PInv'
<1>1. /\ held \in [Renders -> SUBSET (1..loads)] /\ entries[s] \subseteq Own(s)
      /\ \A i \in Instances : lives[i] \in Life
  BY Types DEF PInv, TypeOK, Own
<1>2. \A i \in S : /\ i \in 1..loads /\ i \in Instances /\ ~lives[i].retired
                   /\ lives[i].closed = 0 /\ lives[i].done = 0
  BY <1>1, OwnFacts
<1>3. \A i \in Instances \ S : lives'[i] = lives[i]
  OBVIOUS
<1>4. ASSUME NEW i \in S
      PROVE  /\ lives'[i] \in Life
             /\ lives'[i].server = lives[i].server /\ lives'[i].plugin = lives[i].plugin
             /\ lives'[i].version = lives[i].version /\ lives'[i].retired = lives[i].retired
             /\ lives'[i].refs = lives[i].refs + 1 /\ lives'[i].done = lives[i].done
             /\ lives'[i].closed = lives[i].closed
  <2>1. lives[i] \in Life /\ i \in Instances
    BY <1>1, <1>2
  <2>2. PICK n \in Nat : n = lives[i].refs + 1
    BY <2>1 DEF Life
  <2>3. lives'[i] = [lives[i] EXCEPT !.refs = n]
    BY <2>1, <2>2
  <2> QED
    BY <2>1, <2>2, <2>3 DEF Life
<1>5. /\ \A i \in S : Holders(i)' = Holders(i) \cup {r} /\ r \notin Holders(i)
      /\ \A i : i \notin S => Holders(i)' = Holders(i)
  BY <1>1 DEF Holders
<1>6. lives' \in [Instances -> Life]
  <2>1. \A i \in Instances : lives'[i] \in Life
    BY <1>1, <1>3, <1>4
  <2> QED
    BY <2>1
<1>7. held' \in [Renders -> SUBSET (1..loads)]
  BY <1>1, <1>2
<1>8. \A t \in Servers : \A i \in Own(t) \ (entries[t] \cup op[t].old) : Holders(i)' \subseteq Holders(i)
  <2> SUFFICES ASSUME NEW t \in Servers, NEW i \in Own(t) \ (entries[t] \cup op[t].old)
               PROVE  i \notin S
    BY <1>5
  <2>1. lives[i].server = t
    BY OwnFacts
  <2>2. i \in S => lives[i].server = s /\ i \in entries[s]
    BY <1>1, OwnFacts
  <2> QED
    BY <2>1, <2>2
<1>9. ASSUME NEW i \in Instances
      PROVE  /\ lives'[i].refs = Cardinality(Holders(i)') /\ lives'[i].done \in {0, 1}
             /\ lives'[i].done = 1 => lives[i].retired /\ Holders(i)' = {}
             /\ lives[i].closed = 1 => Holders(i)' = {}
             /\ i > loads => lives'[i].done = 0
  <2>1. Lifetime(i)
    BY DEF PInv
  <2>2. CASE i \notin S
    BY <1>3, <1>5, <2>1, <2>2 DEF Lifetime
  <2>3. CASE i \in S
    <3>1. Holders(i) \in SUBSET Renders
      BY DEF Holders
    <3>2. Cardinality(Holders(i)') = Cardinality(Holders(i)) + 1
      BY <1>5, <2>3, <3>1, Counting
    <3>3. lives'[i].refs = lives[i].refs + 1 /\ lives'[i].done = 0 /\ lives[i].closed = 0
      BY <1>2, <1>4, <2>3
    <3>4. lives'[i].refs = Cardinality(Holders(i)')
      BY <2>1, <3>2, <3>3 DEF Lifetime
    <3> QED
      BY <3>3, <3>4
  <2> QED
    BY <2>2, <2>3
<1>10. \A i \in Instances :
          /\ lives'[i].server = lives[i].server /\ lives'[i].plugin = lives[i].plugin
          /\ lives'[i].version = lives[i].version /\ lives'[i].retired = lives[i].retired
          /\ lives'[i].closed = lives[i].closed
          /\ ~lives[i].retired => lives'[i].done = lives[i].done
  BY <1>3, <1>4
<1> QED
  BY <1>6, <1>7, <1>8, <1>9, <1>10, LeaseStep

LEMMA AcquiresKeep ==
    ASSUME PInv, NEW r \in Renders, NEW s \in Servers,
           AcquireRenderPlan(r, s) \/ \E i \in entries[s] : AcquireEntry(r, s, i)
    PROVE  PInv'
<1>1. CASE AcquireRenderPlan(r, s)
  BY <1>1, LeaseKeeps DEF AcquireRenderPlan
<1>2. ASSUME NEW i \in entries[s], AcquireEntry(r, s, i)
      PROVE  PInv'
  <2>1. /\ held[r] = {} /\ held' = [held EXCEPT ![r] = {i}] /\ lives' = Acquired(i)
        /\ UNCHANGED <<store, phase, missing, loaded, entries, op, loads, lost>>
    BY <1>2 DEF AcquireEntry
  <2>2. lives' = [j \in Instances |->
                    IF j \in {i} THEN [lives[j] EXCEPT !.refs = lives[j].refs + 1] ELSE lives[j]]
    BY <2>1 DEF Acquired, PInv, TypeOK
  <2>3. {i} \in SUBSET entries[s]
    BY <1>2
  <2> QED
    BY <2>1, <2>2, <2>3, LeaseKeeps
<1> QED
  BY <1>1, <1>2

LEMMA ReleaseKeeps ==
    ASSUME PInv, NEW r \in Renders, NEW i \in held[r], Release(r, i)
    PROVE  PInv'
<1> DEFINE n == lives[i].refs - 1
           d == IF lives[i].retired /\ lives[i].refs = 1 THEN lives[i].done + 1 ELSE lives[i].done
           x == [lives[i] EXCEPT !.refs = n, !.done = d]
<1>1. /\ held' = [held EXCEPT ![r] = held[r] \ {i}] /\ lives' = Released(i)
      /\ UNCHANGED <<store, phase, missing, loaded, entries, op, loads, lost>>
  BY DEF Release
<1>2. /\ held \in [Renders -> SUBSET (1..loads)] /\ lives \in [Instances -> Life]
      /\ i \in Instances /\ i \in 1..loads /\ loads \in Nat /\ lives[i] \in Life
  BY Types DEF PInv, TypeOK
<1>3. Lifetime(i) /\ r \in Holders(i) /\ Holders(i) \in SUBSET Renders
  BY <1>2 DEF PInv, Holders
<1>4. /\ lives[i].refs = Cardinality(Holders(i)) /\ lives[i].done = 0 /\ lives[i].closed = 0
  BY <1>3 DEF Lifetime
<1>5. /\ Holders(i)' = Holders(i) \ {r}
      /\ \A j : j # i => Holders(j)' = Holders(j)
  BY <1>1, <1>2 DEF Holders
<1>6. /\ n = Cardinality(Holders(i)') /\ n \in Nat /\ (n = 0 <=> Holders(i)' = {})
  <2>1. Cardinality(Holders(i)') = Cardinality(Holders(i)) - 1
    BY <1>3, <1>5, Counting
  <2>2. PICK H \in SUBSET Renders : H = Holders(i)'
    BY <1>3, <1>5
  <2>3. Cardinality(H) \in Nat /\ (Cardinality(H) = 0 <=> H = {})
    BY <2>2, Counting
  <2> QED
    BY <1>4, <2>1, <2>2, <2>3
<1>7. d = IF lives[i].retired /\ n = 0 THEN 1 ELSE 0
  BY <1>2, <1>4 DEF Life
<1>8. lives' = [lives EXCEPT ![i] = x]
  BY <1>1, <1>2 DEF Released
<1> HIDE DEF n, d
<1>9. /\ x \in Life /\ x.server = lives[i].server /\ x.plugin = lives[i].plugin
      /\ x.version = lives[i].version /\ x.retired = lives[i].retired
      /\ x.refs = n /\ x.done = d /\ x.closed = lives[i].closed
  BY <1>2, <1>6, <1>7 DEF Life
<1> HIDE DEF x
<1>10. /\ lives'[i] = x /\ \A j \in Instances \ {i} : lives'[j] = lives[j]
       /\ lives' \in [Instances -> Life]
  BY <1>2, <1>8, <1>9
<1>11. held' \in [Renders -> SUBSET (1..loads)]
  BY <1>1, <1>2
<1>12. \A j : Holders(j)' \subseteq Holders(j)
  BY <1>5
<1>13. ASSUME NEW j \in Instances
       PROVE  /\ lives'[j].refs = Cardinality(Holders(j)') /\ lives'[j].done \in {0, 1}
              /\ lives'[j].done = 1 => lives[j].retired /\ Holders(j)' = {}
              /\ lives[j].closed = 1 => Holders(j)' = {}
              /\ j > loads => lives'[j].done = 0
  <2>1. Lifetime(j)
    BY DEF PInv
  <2>2. CASE j # i
    BY <1>5, <1>10, <2>1, <2>2 DEF Lifetime
  <2>3. CASE j = i
    <3>1. ~(i > loads)
      BY <1>2
    <3> QED
      BY <1>4, <1>6, <1>7, <1>9, <1>10, <2>3, <3>1
  <2> QED
    BY <2>2, <2>3
<1>14. \A j \in Instances :
          /\ lives'[j].server = lives[j].server /\ lives'[j].plugin = lives[j].plugin
          /\ lives'[j].version = lives[j].version /\ lives'[j].retired = lives[j].retired
          /\ lives'[j].closed = lives[j].closed
          /\ ~lives[j].retired => lives'[j].done = lives[j].done
  BY <1>4, <1>7, <1>9, <1>10
<1> QED
  BY <1>1, <1>10, <1>11, <1>12, <1>13, <1>14, LeaseStep
-----------------------------------------------------------------------------
(* Shutdown and crashes *)

LEMMA NothingToOrder ==
    ASSUME NEW f, DOMAIN f = {}
    PROVE  Orderable(f)
<1>1. (SUBSET (DOMAIN f)) \ {{}} = {}
  OBVIOUS
<1> QED
  BY <1>1 DEF Orderable

LEMMA OrderOfNothing ==
    ASSUME NEW s \in Servers, entries'[s] = {}
    PROVE  TransitionOrder(entries[s])'
<1>1. PICK E : E = {} /\ E = entries'[s]
  OBVIOUS
<1> DEFINE f == [p \in Registered(E) |-> UNION {RequiredBy(i) : i \in Of(p, E)}]
<1>2. DOMAIN f' = {}
  BY <1>1 DEF Registered
<1>3. PICK g : g = f'
  OBVIOUS
<1>4. Orderable(g)
  BY <1>2, <1>3, NothingToOrder
<1>5. Orderable(f)'
  BY <1>3, <1>4 DEF Orderable
<1> QED
  BY <1>1, <1>5 DEF TransitionOrder

\* A server that has nothing left.
LEMMA Bare ==
    ASSUME NEW s \in Servers, phase'[s] \in {"down", "seed", "require"}, entries'[s] = {},
           op'[s] = Idle, \A p \in Plugins : /\ loaded'[s][p].instance = 0
                                             /\ loaded'[s][p].enabled => loaded'[s][p].version # 0
    PROVE  Place(s)' /\ Own(s)' = {} /\ TransitionOrder(entries[s])'
<1>1. /\ op'[s].step = "idle" /\ op'[s].item.instance = 0 /\ ~op'[s].item.enabled /\ op'[s].old = {}
  BY Nothing
<1>2. Running(s)' = {} /\ Candidates(s)' = {} /\ Own(s)' = {}
  BY <1>1 DEF Running, Candidates, Own
<1>3. Serving(s)'
  BY DEF Serving
<1>4. Operating(s)'
  BY <1>1 DEF Operating
<1>5. Owning(s)'
  BY <1>1, <1>2 DEF Owning
<1>6. Ended(s)'
  BY DEF Ended
<1>7. TransitionOrder(entries[s])'
  BY OrderOfNothing
<1> QED
  BY <1>2, <1>3, <1>4, <1>5, <1>6, <1>7 DEF Place

\* What is known of a server without operations.
LEMMA WhenIdle ==
    ASSUME PInv, NEW s \in Servers, phase[s] # "up" /\ (phase[s] = "closing" => op[s].step = "idle")
    PROVE  /\ op[s].old = {} /\ op[s].item.instance = 0 /\ ~op[s].item.enabled
           /\ op[s].step = "idle" /\ entries[s] = {}
           /\ Candidates(s) = {} /\ Own(s) = Running(s)
           /\ phase[s] # "load" => Running(s) = {} /\ \A p \in Plugins : loaded[s][p].instance = 0
<1>1. Serving(s) /\ Operating(s)
  BY DEF PInv, Place
<1>2. op[s].step \in {"idle", "publish", "retire"}
  BY DEF PInv, TypeOK
<1>3. op[s].step = "idle"
  BY <1>1, <1>2 DEF Operating
<1>4. op[s].old = {} /\ op[s].item.instance = 0 /\ ~op[s].item.enabled
  BY <1>1, <1>3 DEF Operating
<1>5. entries[s] = {} /\ (phase[s] # "load" => \A p \in Plugins : loaded[s][p].instance = 0)
  BY <1>1 DEF Serving
<1>6. Candidates(s) = {} /\ Own(s) = Running(s)
  BY <1>4, <1>5 DEF Candidates, Own
<1>7. phase[s] # "load" => Running(s) = {}
  BY <1>5 DEF Running
<1> QED
  BY <1>3, <1>4, <1>5, <1>6, <1>7

LEMMA EmptyIs ==
    /\ Empty \in [Plugins -> Managed]
    /\ \A p \in Plugins : Empty[p].instance = 0 /\ ~Empty[p].enabled
  BY Nothing DEF Empty

LEMMA CloseKeeps ==
    ASSUME PInv, NEW s \in Servers, Close(s)
    PROVE  PInv'
<1> DEFINE o == IF RunningIn(loaded[s]) = {} THEN Idle
                ELSE [Idle EXCEPT !.step = "retire", !.old = RunningIn(loaded[s])]
           OpType == [step : {"idle", "publish", "retire"}, id : Plugins, item : Managed,
                      archive : BOOLEAN, old : SUBSET (1..loads)]
<1>1. /\ Free(s) /\ phase' = [phase EXCEPT ![s] = "closing"]
      /\ entries' = [entries EXCEPT ![s] = {i \in entries[s] : lives[i].plugin \notin InstalledIn(loaded[s])}]
      /\ loaded' = [loaded EXCEPT ![s] = Empty] /\ op' = [op EXCEPT ![s] = o]
      /\ UNCHANGED <<store, missing, loads, lives, held, lost>>
  BY DEF Close
<1>2. /\ phase[s] = "up" /\ entries[s] = Running(s) /\ Own(s) = Running(s)
  BY <1>1, WhenFree
<1>3. RunningIn(loaded[s]) = Running(s)
  BY DEF RunningIn, Running
<1>4. {i \in entries[s] : lives[i].plugin \notin InstalledIn(loaded[s])} = {}
  <2> SUFFICES ASSUME NEW i \in Running(s)
               PROVE  lives[i].plugin \in InstalledIn(loaded[s])
    BY <1>2
  <2>1. PICK p \in Plugins : i = loaded[s][p].instance /\ i # 0
    BY DEF Running
  <2>2. Serving(s)
    BY DEF PInv, Place
  <2> QED
    BY <2>1, <2>2 DEF Serving, InstalledIn
<1>5. \A i \in Running(s) : i \in 1..loads
  BY <1>2, OwnFacts
<1>6. /\ o \in OpType /\ o.old = Running(s) /\ o.item = NotLoaded /\ o.step # "publish"
      /\ o.step # "retire" => o.old = {}
  <2>1. Idle \in OpType
    BY Nothing DEF Idle
  <2>2. CASE Running(s) = {}
    BY <1>3, <2>1, <2>2, Nothing
  <2>3. CASE Running(s) # {}
    <3>1. Running(s) \in SUBSET (1..loads)
      BY <1>5
    <3>2. LET y == [Idle EXCEPT !.step = "retire", !.old = Running(s)] IN
          y \in OpType /\ y.step = "retire" /\ y.item = NotLoaded /\ y.old = Running(s)
      BY <2>1, <3>1, Nothing
    <3> QED
      BY <1>3, <2>3, <3>2
  <2> QED
    BY <2>2, <2>3
<1> HIDE DEF o
<1>7. /\ phase'[s] = "closing" /\ entries'[s] = {} /\ loaded'[s] = Empty /\ op'[s] = o
      /\ \A t \in Servers \ {s} :
            phase'[t] = phase[t] /\ loaded'[t] = loaded[t] /\ entries'[t] = entries[t] /\ op'[t] = op[t]
  BY <1>1, <1>4 DEF PInv, TypeOK
<1>8. TypeOK'
  <2>1. {i \in entries[s] : lives[i].plugin \notin InstalledIn(loaded[s])} \in SUBSET (1..loads)
    BY <1>4
  <2> QED
    BY <1>1, <1>6, <2>1, EmptyIs DEF PInv, TypeOK
<1>9. Stored'
  BY <1>1 DEF PInv, Stored
<1>10. /\ Running(s)' = {} /\ Candidates(s)' = {} /\ Own(s)' = Running(s)
  <2>1. Running(s)' = {} /\ Candidates(s)' = {}
    BY <1>6, <1>7, EmptyIs, Nothing DEF Running, Candidates
  <2> QED
    BY <1>6, <1>7, <2>1 DEF Own
<1>11. Place(s)'
  <2>1. Serving(s)'
    BY <1>7, EmptyIs DEF Serving
  <2>2. Operating(s)'
    BY <1>6, <1>7, Nothing DEF Operating
  <2>3. Owning(s)'
    <3>1. \A i \in Running(s) : /\ i \in 1..loads /\ lives[i].server = s
                                /\ ~lives[i].retired /\ lives[i].closed = 0 /\ lives[i].done = 0
      BY <1>2, OwnFacts
    <3> QED
      BY <1>1, <1>6, <1>7, <1>10, <3>1 DEF Owning
  <2>4. Ended(s)'
    BY <1>7 DEF Ended
  <2> QED
    BY <2>1, <2>2, <2>3, <2>4 DEF Place
<1>12. TransitionOrder(entries[s])'
  BY <1>7, OrderOfNothing
<1> QED
  BY <1>1, <1>2, <1>7, <1>8, <1>9, <1>10, <1>11, <1>12, QuietStep

LEMMA CloseRuntimeKeeps ==
    ASSUME PInv, NEW s \in Servers, CloseRuntime(s)
    PROVE  PInv'
<1>1. /\ phase[s] = "closing" /\ op[s].step = "idle" /\ phase' = [phase EXCEPT ![s] = "closed"]
      /\ \A i \in InstancesOf(s) : lives[i].retired => lives[i].closed > 0
      /\ UNCHANGED <<store, missing, loaded, entries, op, loads, lives, held, lost>>
  BY DEF CloseRuntime
<1>2. /\ op[s].old = {} /\ entries[s] = {} /\ Own(s) = {} /\ Running(s) = {}
      /\ \A p \in Plugins : loaded[s][p].instance = 0
  BY <1>1, WhenIdle
<1>3. phase'[s] = "closed" /\ \A t \in Servers \ {s} : phase'[t] = phase[t]
  BY <1>1 DEF PInv, TypeOK
<1>4. TypeOK' /\ Stored'
  BY <1>1 DEF PInv, TypeOK, Stored
<1>5. Own(s)' = Own(s)
  BY <1>1 DEF Own, Running, Candidates
<1>6. Serving(s) /\ Operating(s) /\ Owning(s)
  BY DEF PInv, Place
<1>7. Serving(s)'
  BY <1>1, <1>2, <1>3, <1>6 DEF Serving
<1>8. Operating(s)'
  BY <1>1, <1>3, <1>6 DEF Operating
<1>9. Owning(s)'
  BY <1>1, <1>2, <1>5, <1>6 DEF Owning, Running, Candidates
<1>10. Ended(s)'
  <2> SUFFICES ASSUME NEW i \in InstancesOf(s)
               PROVE  lives[i].closed = 1
    BY <1>1 DEF Ended, InstancesOf
  <2>1. i \in 1..loads /\ lives[i].server = s /\ i \in Instances /\ i <= loads
    BY Types DEF PInv, InstancesOf
  <2>2. lives[i].closed \in {0, 1} /\ (lives[i].closed = 1 \/ lives[i].retired)
    BY <1>2, <2>1 DEF PInv, Lifetime
  <2> QED
    BY <1>1, <2>2
<1>11. TransitionOrder(entries[s])'
  BY <1>1, <1>2, OrderOfNothing
<1> QED
  BY <1>1, <1>3, <1>4, <1>5, <1>7, <1>8, <1>9, <1>10, <1>11, QuietStep DEF Place

LEMMA CrashKeeps ==
    ASSUME PInv, NEW s \in Servers, Crash(s)
    PROVE  PInv'
<1>0. loads \in Nat /\ 1..loads \subseteq Instances /\ \A i \in Instances : i \in Nat /\ lives[i] \in Life
  BY Types DEF PInv
<1>1. /\ phase' = [phase EXCEPT ![s] = "down"] /\ missing' = [missing EXCEPT ![s] = {}]
      /\ loaded' = [loaded EXCEPT ![s] = Empty] /\ entries' = [entries EXCEPT ![s] = {}]
      /\ op' = [op EXCEPT ![s] = Idle]
      /\ held' = [r \in Renders |-> held[r] \ InstancesOf(s)]
      /\ UNCHANGED <<store, loads, lost>>
  BY DEF Crash
<1>2. \A i \in Instances \ InstancesOf(s) : lives'[i] = lives[i]
  BY DEF Crash
<1>3. ASSUME NEW i \in InstancesOf(s)
      PROVE  /\ i \in Instances /\ i \in 1..loads /\ lives'[i] \in Life
             /\ lives'[i].server = s /\ lives'[i].retired = lives[i].retired
             /\ lives'[i].done = lives[i].done /\ lives'[i].refs = 0 /\ lives'[i].closed = 1
  <2>1. i \in Instances /\ i \in 1..loads /\ lives[i].server = s /\ lives[i] \in Life
    BY <1>0 DEF InstancesOf
  <2>2. lives[i].closed \in {0, 1}
    BY <2>1 DEF PInv, Lifetime
  <2>3. PICK n \in Nat : n = 1 /\ n = IF lives[i].closed = 0 THEN 1 ELSE lives[i].closed
    BY <2>2
  <2>4. lives'[i] = [lives[i] EXCEPT !.refs = 0, !.closed = n]
    BY <2>1, <2>3 DEF Crash
  <2>5. n \in Nat /\ n = 1
    BY <2>3
  <2> HIDE <2>3
  <2>6. lives'[i] \in Life
    <3>1. \A z \in Nat : [lives[i] EXCEPT !.refs = z, !.closed = n] \in Life
      BY <2>1, <2>5 DEF Life
    <3> QED
      BY <2>4, <3>1
  <2>7. /\ lives'[i].server = s /\ lives'[i].retired = lives[i].retired
        /\ lives'[i].done = lives[i].done /\ lives'[i].refs = 0 /\ lives'[i].closed = n
    BY <2>1, <2>4 DEF Life
  <2> QED
    BY <2>1, <2>5, <2>6, <2>7
<1>4. lives' \in [Instances -> Life]
  <2>1. \A i \in Instances : lives'[i] \in Life
    BY <1>0, <1>2, <1>3
  <2>2. lives' = [i \in Instances |-> lives'[i]]
    BY DEF Crash
  <2> QED
    BY <2>1, <2>2
<1>5. /\ phase'[s] = "down" /\ entries'[s] = {} /\ loaded'[s] = Empty /\ op'[s] = Idle
      /\ \A t \in Servers \ {s} :
            phase'[t] = phase[t] /\ loaded'[t] = loaded[t] /\ entries'[t] = entries[t] /\ op'[t] = op[t]
  BY <1>1 DEF PInv, TypeOK
<1>6. TypeOK'
  <2>1. Idle \in [step : {"idle", "publish", "retire"}, id : Plugins, item : Managed,
                  archive : BOOLEAN, old : SUBSET (1..loads)]
    BY Nothing DEF Idle
  <2>2. /\ phase' \in [Servers -> {"down", "seed", "require", "load", "up", "closing", "closed"}]
        /\ missing' \in [Servers -> SUBSET DOMAIN Builtins]
        /\ loaded' \in [Servers -> [Plugins -> Managed]]
    BY <1>1, EmptyIs DEF PInv, TypeOK
  <2>3. /\ entries' \in [Servers -> SUBSET (1..loads)]
        /\ op' \in [Servers -> [step : {"idle", "publish", "retire"}, id : Plugins, item : Managed,
                                archive : BOOLEAN, old : SUBSET (1..loads)]]
        /\ held' \in [Renders -> SUBSET (1..loads)]
    BY <1>1, <2>1 DEF PInv, TypeOK
  <2> QED
    BY <1>1, <1>4, <2>2, <2>3 DEF PInv, TypeOK
<1>7. Stored'
  BY <1>1 DEF PInv, Stored
<1>8. Place(s)' /\ TransitionOrder(entries[s])'
  BY <1>5, Bare, EmptyIs
<1>9. /\ \A i \in InstancesOf(s) : Holders(i)' = {}
      /\ \A i : i \notin InstancesOf(s) => Holders(i)' = Holders(i)
  BY <1>1 DEF Holders
<1>10. \A i \in 1..loads : lives[i].server # s => i \notin InstancesOf(s)
  BY DEF InstancesOf
<1>11. ASSUME NEW i \in Instances, i > loads \/ lives[i].server = s
       PROVE  Lifetime(i)'
  <2>1. Lifetime(i)
    BY DEF PInv
  <2>2. CASE i \in InstancesOf(s)
    <3>1. lives'[i].refs = Cardinality(Holders(i)') /\ Holders(i)' = {}
      BY <1>3, <1>9, <2>2, FS_EmptySet
    <3>2. /\ lives'[i].done \in {0, 1} /\ (lives'[i].done = 1 => lives'[i].retired)
          /\ lives'[i].closed = 1
      BY <1>3, <2>1, <2>2 DEF Lifetime
    <3>3. ~(i > loads')
      BY <1>0, <1>1, <1>3, <2>2
    <3> QED
      BY <3>1, <3>2, <3>3 DEF Lifetime
  <2>3. CASE i \notin InstancesOf(s)
    <3>1. i > loads /\ ~(i <= loads)
      BY <1>0, <1>11, <2>3 DEF InstancesOf, Instances
    <3> QED
      BY <1>1, <1>2, <1>9, <2>1, <2>3, <3>1 DEF Lifetime
  <2> QED
    BY <2>2, <2>3
<1>12. /\ \A i \in 1..loads : lives'[i].server = lives[i].server
       /\ \A i \in 1..loads : lives[i].server # s => lives'[i] = lives[i] /\ Holders(i)' = Holders(i)
       /\ \A i \in 1..loads' : i > loads => lives'[i].server = s
       /\ loads' >= loads
  <2>1. \A i \in 1..loads : lives'[i].server = lives[i].server
    BY <1>0, <1>2, <1>3 DEF InstancesOf
  <2> QED
    BY <1>0, <1>1, <1>2, <1>9, <1>10, <2>1
<1> QED
  BY <1>0, <1>1, <1>5, <1>6, <1>7, <1>8, <1>11, <1>12, ServerStep
-----------------------------------------------------------------------------
(* Startup *)

LEMMA BootstrapFailsKeeps ==
    ASSUME PInv, NEW s \in Servers, BootstrapFails(s)
    PROVE  PInv'
<1>1. /\ phase[s] \in {"seed", "require", "load"}
      /\ phase' = [phase EXCEPT ![s] = "down"] /\ missing' = [missing EXCEPT ![s] = {}]
      /\ lives' = ClosedAll(Running(s)) /\ loaded' = [loaded EXCEPT ![s] = Empty]
      /\ UNCHANGED <<store, entries, op, loads, held, lost>>
  BY DEF BootstrapFails, RunningIn, Running
<1>2. /\ op[s].old = {} /\ entries[s] = {} /\ Own(s) = Running(s)
      /\ op[s].step = "idle" /\ op[s].item.instance = 0 /\ ~op[s].item.enabled
  BY <1>1, WhenIdle
<1>3. /\ phase'[s] = "down" /\ loaded'[s] = Empty
      /\ \A t \in Servers \ {s} :
            phase'[t] = phase[t] /\ loaded'[t] = loaded[t] /\ entries'[t] = entries[t] /\ op'[t] = op[t]
  BY <1>1 DEF PInv, TypeOK
<1>4. \A i \in Running(s) : i \in 1..loads /\ lives[i].server = s /\ lives[i].closed = 0 /\ Holders(i) = {}
  BY <1>2, OwnFacts
<1>5. lives' \in [Instances -> Life]
  BY <1>1, Closing
<1>6. TypeOK'
  BY <1>1, <1>5, EmptyIs DEF PInv, TypeOK
<1>7. Stored'
  BY <1>1 DEF PInv, Stored
<1>8. Running(s)' = {} /\ Candidates(s)' = {} /\ Own(s)' = {}
  BY <1>1, <1>2, <1>3, EmptyIs DEF Running, Candidates, Own
<1>9. Place(s)'
  <2>1. Serving(s)'
    BY <1>1, <1>2, <1>3, EmptyIs DEF Serving
  <2>2. Operating(s)'
    BY <1>1, <1>2 DEF Operating
  <2>3. Owning(s)'
    BY <1>1, <1>2, <1>8 DEF Owning
  <2>4. Ended(s)'
    BY <1>3 DEF Ended
  <2> QED
    BY <2>1, <2>2, <2>3, <2>4 DEF Place
<1>10. TransitionOrder(entries[s])'
  BY <1>1, <1>2, OrderOfNothing
<1>11. Own(s) \ Running(s) \subseteq Own(s)'
  BY <1>2
<1> QED
  BY <1>1, <1>3, <1>4, <1>6, <1>7, <1>9, <1>10, <1>11, CloseStep

\* A step of a start that loads nothing.
LEMMA StartStep ==
    ASSUME PInv, NEW s \in Servers, phase[s] \in {"down", "seed", "require"},
           phase'[s] \in {"seed", "require", "load"},
           UNCHANGED <<entries, op, loads, lives, held, lost>>,
           \A t \in Servers \ {s} : phase'[t] = phase[t] /\ loaded'[t] = loaded[t],
           TypeOK', Stored',
           \A p \in Plugins : /\ loaded'[s][p].instance = 0
                              /\ loaded'[s][p].enabled => loaded'[s][p].version # 0,
           phase'[s] = "load" => DependencyOrder(loaded'[s])
    PROVE  PInv'
<1>1. /\ op[s].old = {} /\ op[s].item.instance = 0 /\ ~op[s].item.enabled
      /\ op[s].step = "idle" /\ entries[s] = {} /\ Own(s) = {} /\ Running(s) = {}
  BY WhenIdle
<1>2. Running(s)' = {} /\ Candidates(s)' = {} /\ Own(s)' = {}
  BY <1>1 DEF Running, Candidates, Own
<1>3. Place(s)'
  <2>1. Serving(s)'
    <3>1. phase'[s] = "load" => DependencyOrder(loaded[s])'
      <4>1. PICK L : L = loaded'[s]
        OBVIOUS
      <4> QED
        BY <4>1 DEF DependencyOrder, Orderable, EnabledIn
    <3> QED
      BY <1>1, <3>1 DEF Serving
  <2>2. Operating(s)'
    BY <1>1 DEF Operating
  <2>3. Owning(s)'
    BY <1>1, <1>2 DEF Owning
  <2>4. Ended(s)'
    BY DEF Ended
  <2> QED
    BY <2>1, <2>2, <2>3, <2>4 DEF Place
<1>4. TransitionOrder(entries[s])'
  BY <1>1, OrderOfNothing
<1> QED
  BY <1>1, <1>2, <1>3, <1>4, QuietStep

LEMMA StoredRecords ==
    ASSUME PInv
    PROVE  /\ FromRecords \in [Plugins -> Managed]
           /\ \A p \in Plugins : /\ FromRecords[p].instance = 0
                                 /\ FromRecords[p].enabled => FromRecords[p].version # 0
<1>1. \A p \in Plugins : store[p] \in Record
  BY Types DEF PInv
<1>2. 0 \in 0..MaxLoads
  BY PluginAssumption
<1> QED
  BY <1>1, <1>2 DEF FromRecords, PInv, Stored, Record, Managed

LEMMA BootstrapKeeps ==
    ASSUME PInv, NEW s \in Servers, Bootstrap(s) \/ ReadWinners(s)
    PROVE  PInv'
<1>1. PICK ph \in {"seed", "require"}, absent \in SUBSET DOMAIN Builtins :
         /\ phase[s] \in {"down", "seed"} /\ phase' = [phase EXCEPT ![s] = ph]
         /\ loaded' = [loaded EXCEPT ![s] = FromRecords]
         /\ missing' = [missing EXCEPT ![s] = absent]
         /\ UNCHANGED <<store, entries, op, loads, lives, held, lost>>
  <2>1. CASE Bootstrap(s)
    <3>1. PICK absent : absent = {p \in DOMAIN Builtins : store[p] = NotInstalled}
      OBVIOUS
    <3> QED
      BY <2>1, <3>1 DEF Bootstrap
  <2>2. CASE ReadWinners(s)
    <3>1. missing' = [missing EXCEPT ![s] = {}]
      BY <2>2 DEF ReadWinners, PInv, TypeOK
    <3> QED
      BY <2>2, <3>1 DEF ReadWinners
  <2> QED
    BY <2>1, <2>2
<1>2. /\ phase'[s] = ph /\ loaded'[s] = FromRecords
      /\ \A t \in Servers \ {s} : phase'[t] = phase[t] /\ loaded'[t] = loaded[t]
  BY <1>1 DEF PInv, TypeOK
<1>3. TypeOK' /\ Stored'
  BY <1>1, StoredRecords DEF PInv, TypeOK, Stored
<1> QED
  BY <1>1, <1>2, <1>3, StoredRecords, StartStep

LEMMA SeedPluginKeeps ==
    ASSUME PInv, NEW s \in Servers, NEW p \in Plugins, SeedPlugin(s, p)
    PROVE  PInv'
<1>1. /\ phase[s] = "seed" /\ p \in missing[s] /\ missing' = [missing EXCEPT ![s] = missing[s] \ {p}]
      /\ UNCHANGED <<phase, loaded, entries, op, loads, lives, held, lost>>
  BY DEF SeedPlugin
<1>2. p \in DOMAIN Builtins /\ missing' \in [Servers -> SUBSET DOMAIN Builtins]
  BY <1>1 DEF PInv, TypeOK
<1> DEFINE en == Builtins[p].enabled \/ p \in Required
<1>3. PICK b \in BOOLEAN : b = en
  <2>1. en \in BOOLEAN
    BY <1>2, PluginAssumption DEF Record
  <2> QED
    BY <2>1
<1>4. PICK v \in Versions : v = Builtins[p].version
  BY <1>2, PluginAssumption DEF Record
<1> DEFINE x == [version |-> v, enabled |-> b]
<1>5. x \in Record /\ x.version # 0
  BY PluginAssumption DEF Record
<1>6. store' = store \/ store' = [store EXCEPT ![p] = x]
  BY <1>3, <1>4 DEF SeedPlugin
<1> HIDE DEF x
<1>7. /\ store' \in [Plugins -> Record]
      /\ \A q \in Plugins : store'[q].enabled => store'[q].version # 0
  <2>1. /\ store \in [Plugins -> Record]
        /\ \A q \in Plugins : store[q].enabled => store[q].version # 0
    BY DEF PInv, TypeOK, Stored
  <2>2. CASE store' = store
    BY <2>1, <2>2
  <2>3. CASE store' = [store EXCEPT ![p] = x]
    <3>1. store'[p] = x /\ \A q \in Plugins \ {p} : store'[q] = store[q]
      BY <2>1, <2>3
    <3>2. store' \in [Plugins -> Record]
      BY <1>5, <2>1, <2>3
    <3> QED
      BY <1>5, <2>1, <3>1, <3>2
  <2> QED
    BY <1>6, <2>2, <2>3
<1>8. TypeOK' /\ Stored'
  BY <1>1, <1>2, <1>7 DEF PInv, TypeOK, Stored
<1>9. Serving(s)
  BY DEF PInv, Place
<1>10. \A q \in Plugins : loaded'[s][q].instance = 0
                          /\ (loaded'[s][q].enabled => loaded'[s][q].version # 0)
  BY <1>1, <1>9 DEF Serving
<1> QED
  BY <1>1, <1>8, <1>10, StartStep

LEMMA EnableRequiredKeeps ==
    ASSUME PInv, NEW s \in Servers, NEW p \in Plugins, EnableRequired(s, p)
    PROVE  PInv'
<1> DEFINE x == [loaded[s][p] EXCEPT !.enabled = TRUE]
           L == [loaded[s] EXCEPT ![p] = x]
           y == [store[p] EXCEPT !.enabled = TRUE]
<1>1. /\ phase[s] = "require" /\ Required \subseteq InstalledIn(loaded[s]) /\ p \in Required
      /\ store[p] # NotInstalled
      /\ UNCHANGED <<phase, missing, entries, op, loads, lives, held, lost>>
  BY DEF EnableRequired
<1>2. /\ loaded \in [Servers -> [Plugins -> Managed]] /\ loaded[s] \in [Plugins -> Managed]
      /\ loaded[s][p] \in Managed /\ store \in [Plugins -> Record] /\ store[p] \in Record
  BY DEF PInv, TypeOK
<1>3. store[p].version # 0 /\ loaded[s][p].version # 0
  <2>1. store[p].version # 0
    BY <1>1, <1>2, Nothing DEF PInv, Stored
  <2> QED
    BY <1>1, <2>1 DEF InstalledIn
<1>4. Serving(s)
  BY DEF PInv, Place
<1>5. loaded[s][p].instance = 0
  BY <1>1, <1>4 DEF Serving
<1>6. x \in Managed /\ x.version # 0 /\ x.instance = 0
  BY <1>2, <1>3, <1>5 DEF Managed
<1>7. y \in Record /\ y.version # 0
  BY <1>2, <1>3 DEF Record
<1>8. loaded' = [loaded EXCEPT ![s] = L]
  <2>1. loaded' = [loaded EXCEPT ![s][p].enabled = TRUE]
    BY DEF EnableRequired
  <2> QED
    BY <1>2, <2>1 DEF Managed
<1>9. store' = [store EXCEPT ![p] = y]
  BY <1>2 DEF EnableRequired, Record
<1> HIDE DEF x, y
<1>10. /\ L \in [Plugins -> Managed]
       /\ \A q \in Plugins : L[q].instance = 0 /\ (L[q].enabled => L[q].version # 0)
  BY <1>1, <1>2, <1>4, <1>6 DEF Serving
<1> HIDE DEF L
<1>11. loaded'[s] = L /\ \A t \in Servers \ {s} : loaded'[t] = loaded[t]
  BY <1>2, <1>8
<1>12. TypeOK'
  <2>1. loaded' \in [Servers -> [Plugins -> Managed]] /\ store' \in [Plugins -> Record]
    BY <1>2, <1>7, <1>8, <1>9, <1>10
  <2> QED
    BY <1>1, <2>1 DEF PInv, TypeOK
<1>13. Stored'
  BY <1>2, <1>7, <1>9 DEF PInv, Stored
<1> QED
  BY <1>1, <1>10, <1>11, <1>12, <1>13, StartStep

LEMMA ResolveOrderKeeps ==
    ASSUME PInv, NEW s \in Servers, ResolveOrder(s)
    PROVE  PInv'
<1>1. /\ phase[s] = "require" /\ DependencyOrder(loaded[s]) /\ phase' = [phase EXCEPT ![s] = "load"]
      /\ UNCHANGED <<store, missing, loaded, entries, op, loads, lives, held, lost>>
  BY DEF ResolveOrder
<1>2. phase'[s] = "load" /\ \A t \in Servers \ {s} : phase'[t] = phase[t]
  BY <1>1 DEF PInv, TypeOK
<1>3. TypeOK' /\ Stored'
  BY <1>1 DEF PInv, TypeOK, Stored
<1>4. Serving(s)
  BY DEF PInv, Place
<1>5. \A q \in Plugins : loaded[s][q].instance = 0 /\ (loaded[s][q].enabled => loaded[s][q].version # 0)
  BY <1>1, <1>4 DEF Serving
<1>6. DependencyOrder(loaded'[s])
  <2>1. PICK L : L = loaded[s] /\ L = loaded'[s]
    BY <1>1
  <2> QED
    BY <1>1, <2>1
<1> QED
  BY <1>1, <1>2, <1>3, <1>5, <1>6, StartStep

\* What is enabled and the versions decide the order.
LEMMA SameOrder ==
    ASSUME NEW K, NEW L, DependencyOrder(K),
           \A p \in Plugins : K[p].version = L[p].version /\ K[p].enabled = L[p].enabled
    PROVE  DependencyOrder(L)
<1>1. EnabledIn(K) = EnabledIn(L)
  BY DEF EnabledIn
<1>2. [p \in EnabledIn(K) |-> Requires[p, K[p].version]] = [p \in EnabledIn(L) |-> Requires[p, L[p].version]]
  BY <1>1 DEF EnabledIn
<1> QED
  BY <1>2 DEF DependencyOrder

LEMMA PrepareInstanceKeeps ==
    ASSUME PInv, NEW s \in Servers, NEW p \in Plugins, PrepareInstance(s, p)
    PROVE  PInv'
<1>0. PICK v \in Versions : v = loaded[s][p].version
  <2>1. loaded[s][p] \in Managed
    BY Types DEF PInv
  <2>2. loaded[s][p].version # 0
    BY DEF PrepareInstance, EnabledIn
  <2> QED
    BY <2>1, <2>2 DEF Managed
<1>1. /\ phase[s] = "load" /\ loaded[s][p].enabled /\ loaded[s][p].instance = 0
      /\ Load(s, p, v) /\ loaded' = [loaded EXCEPT ![s][p].instance = loads + 1]
      /\ UNCHANGED <<store, phase, missing, entries, op, held, lost>>
  BY <1>0 DEF PrepareInstance, EnabledIn
<1>2. /\ loads' = loads + 1 /\ loads' \in 0..MaxLoads /\ loads \in Nat /\ loads + 1 \in Instances
      /\ loads + 1 # 0 /\ loads + 1 \notin 1..loads
      /\ \A i \in 1..loads : i \in 1..loads' /\ i # loads + 1 /\ i \in Instances
      /\ lives' \in [Instances -> Life] /\ lives'[loads + 1] = NewLife(s, p, v)
      /\ \A i \in Instances : i # loads + 1 => lives'[i] = lives[i]
      /\ \A i : Holders(i)' = Holders(i)
      /\ Holders(loads + 1) = {}
  BY <1>1, Loaded
<1>3. PICK n : n = loads + 1
  OBVIOUS
<1> DEFINE x == [loaded[s][p] EXCEPT !.instance = n]
           L == [loaded[s] EXCEPT ![p] = x]
<1>4. /\ loaded \in [Servers -> [Plugins -> Managed]] /\ loaded[s] \in [Plugins -> Managed]
      /\ loaded[s][p] \in Managed /\ n \in 1..loads' /\ n # 0 /\ n \in 0..MaxLoads
  <2>1. n \in 1..loads' /\ n # 0 /\ n \in 0..MaxLoads
    BY <1>2, <1>3, PluginAssumption
  <2> QED
    BY <2>1 DEF PInv, TypeOK
<1>5. /\ x \in Managed /\ x.version = loaded[s][p].version /\ x.enabled = loaded[s][p].enabled
      /\ x.instance = n
  BY <1>4 DEF Managed
<1>6. loaded' = [loaded EXCEPT ![s] = L]
  BY <1>1, <1>3, <1>4 DEF Managed
<1> HIDE DEF x
<1>7. L \in [Plugins -> Managed] /\ L[p] = x /\ \A q \in Plugins \ {p} : L[q] = loaded[s][q]
  BY <1>4, <1>5
<1> HIDE DEF L
<1>8. loaded'[s] = L /\ \A t \in Servers \ {s} : loaded'[t] = loaded[t]
  BY <1>4, <1>6
<1>9. /\ op[s].old = {} /\ op[s].item.instance = 0 /\ ~op[s].item.enabled /\ op[s].step = "idle"
      /\ entries[s] = {} /\ Own(s) = Running(s)
  BY <1>1, WhenIdle
<1>10. Running(s)' = Running(s) \cup {n} /\ Candidates(s)' = {} /\ Own(s)' = Own(s) \cup {n}
  <2>1. Running(s)' = Running(s) \cup {n}
    <3>1. Running(s)' = {L[q].instance : q \in Plugins} \ {0}
      BY <1>8 DEF Running
    <3>2. \A q \in Plugins : L[q].instance # 0 => L[q].instance \in Running(s) \cup {n}
      BY <1>5, <1>7 DEF Running
    <3>3. ASSUME NEW i \in Running(s) \cup {n}
          PROVE  \E q \in Plugins : L[q].instance = i
      <4>1. CASE i = n
        BY <1>5, <1>7, <4>1
      <4>2. CASE i \in Running(s)
        <5>1. PICK q \in Plugins : loaded[s][q].instance = i /\ i # 0
          BY <4>2 DEF Running
        <5>2. q # p
          BY <1>1, <5>1
        <5> QED
          BY <1>7, <5>1, <5>2
      <4> QED
        BY <4>1, <4>2
    <3>4. 0 \notin Running(s) \cup {n}
      BY <1>4 DEF Running
    <3> QED
      BY <3>1, <3>2, <3>3, <3>4
  <2>2. Candidates(s)' = {}
    BY <1>1, <1>9 DEF Candidates
  <2> QED
    BY <1>1, <1>9, <2>1, <2>2 DEF Own
<1>11. \A i \in Own(s) : i \in 1..loads /\ i # n /\ i \in Instances /\ lives'[i] = lives[i]
  BY <1>2, <1>3, OwnFacts
<1>12. TypeOK'
  <2>1. loaded' \in [Servers -> [Plugins -> Managed]]
    BY <1>4, <1>6, <1>7
  <2>2. SUBSET (1..loads) \subseteq SUBSET (1..loads')
    BY <1>2
  <2>3. \A t \in Servers : op[t] \in [step : {"idle", "publish", "retire"}, id : Plugins, item : Managed,
                                       archive : BOOLEAN, old : SUBSET (1..loads')]
    BY <2>2 DEF PInv, TypeOK
  <2>4. /\ op' \in [Servers -> [step : {"idle", "publish", "retire"}, id : Plugins, item : Managed,
                                archive : BOOLEAN, old : SUBSET (1..loads')]]
        /\ entries' \in [Servers -> SUBSET (1..loads')] /\ held' \in [Renders -> SUBSET (1..loads')]
    BY <1>1, <2>2, <2>3 DEF PInv, TypeOK
  <2> QED
    BY <1>1, <1>2, <2>1, <2>4 DEF PInv, TypeOK
<1>13. Stored'
  BY <1>1 DEF PInv, Stored
<1>14. Place(s)'
  <2>1. Serving(s)'
    <3>1. Serving(s)
      BY DEF PInv, Place
    <3>2. \A q \in Plugins :
             /\ L[q].enabled => L[q].version # 0
             /\ L[q].instance # 0 =>
                   /\ L[q].enabled
                   /\ lives'[L[q].instance].plugin = q
                   /\ lives'[L[q].instance].version = L[q].version
      <4> TAKE q \in Plugins
      <4>1. CASE q = p
        <5>1. lives'[n].plugin = p /\ lives'[n].version = v
          BY <1>2, <1>3 DEF NewLife
        <5> QED
          BY <1>0, <1>1, <1>5, <1>7, <3>1, <4>1, <5>1 DEF Serving
      <4>2. CASE q # p
        <5>1. loaded[s][q].instance # 0 => loaded[s][q].instance \in Own(s)
          BY <1>9 DEF Running
        <5> QED
          BY <1>7, <1>11, <3>1, <4>2, <5>1 DEF Serving
      <4> QED
        BY <4>1, <4>2
    <3>3. DependencyOrder(loaded[s])'
      <4>1. DependencyOrder(L)
        BY <1>1, <1>5, <1>7, <3>1, SameOrder DEF Serving
      <4> QED
        BY <1>8, <4>1 DEF DependencyOrder, Orderable, EnabledIn
    <3> QED
      <4>1. phase'[s] = "load" /\ entries'[s] = {}
        BY <1>1, <1>9
      <4>2. \A q \in Plugins :
               /\ loaded'[s][q].enabled => loaded'[s][q].version # 0
               /\ loaded'[s][q].instance # 0 =>
                     /\ loaded'[s][q].enabled
                     /\ lives'[loaded'[s][q].instance].plugin = q
                     /\ lives'[loaded'[s][q].instance].version = loaded'[s][q].version
        BY <1>8, <3>2
      <4> QED
        BY <3>3, <4>1, <4>2 DEF Serving
  <2>2. Operating(s)'
    BY <1>1, <1>9 DEF Operating
  <2>3. Owning(s)'
    <3>1. ASSUME NEW i \in Own(s)'
          PROVE  /\ i \in 1..loads' /\ lives'[i].server = s
                 /\ ~lives'[i].retired /\ lives'[i].closed = 0 /\ lives'[i].done = 0
                 /\ Holders(i)' = {}
      <4>1. CASE i = n
        BY <1>2, <1>3, <1>4, <4>1 DEF NewLife
      <4>2. CASE i \in Own(s)
        BY <1>2, <1>9, <1>11, <4>2, OwnFacts
      <4> QED
        BY <1>10, <4>1, <4>2
    <3> QED
      BY <1>1, <1>9, <1>10, <3>1 DEF Owning
  <2>4. Ended(s)'
    BY <1>1 DEF Ended
  <2> QED
    BY <2>1, <2>2, <2>3, <2>4 DEF Place
<1>15. TransitionOrder(entries[s])'
  BY <1>1, <1>9, OrderOfNothing
<1>16. Own(s) \cup {loads + 1} \subseteq Own(s)'
  BY <1>3, <1>10
<1> QED
  BY <1>1, <1>8, <1>12, <1>13, <1>14, <1>15, <1>16, LoadStep

LEMMA InitializeKeeps ==
    ASSUME PInv, NEW s \in Servers, Initialize(s)
    PROVE  PInv'
<1>1. /\ phase[s] = "load" /\ entries' = [entries EXCEPT ![s] = Running(s)]
      /\ phase' = [phase EXCEPT ![s] = "up"]
      /\ \A p \in EnabledIn(loaded[s]) : loaded[s][p].instance # 0
      /\ UNCHANGED <<store, missing, loaded, op, loads, lives, held, lost>>
  BY DEF Initialize, RunningIn, Running
<1>2. /\ op[s].old = {} /\ op[s].item.instance = 0 /\ ~op[s].item.enabled /\ op[s].step = "idle"
      /\ entries[s] = {} /\ Own(s) = Running(s) /\ Candidates(s) = {}
  BY <1>1, WhenIdle
<1>3. /\ phase'[s] = "up" /\ entries'[s] = Running(s)
      /\ \A t \in Servers \ {s} : phase'[t] = phase[t] /\ entries'[t] = entries[t]
  BY <1>1 DEF PInv, TypeOK
<1>4. \A i \in Running(s) : /\ i \in 1..loads /\ lives[i].server = s
                            /\ ~lives[i].retired /\ lives[i].closed = 0 /\ lives[i].done = 0
  BY <1>2, OwnFacts
<1>5. TypeOK'
  <2>1. Running(s) \in SUBSET (1..loads)
    BY <1>4
  <2> QED
    BY <1>1, <2>1 DEF PInv, TypeOK
<1>6. Stored'
  BY <1>1 DEF PInv, Stored
<1>7. Running(s)' = Running(s) /\ Candidates(s)' = {} /\ Own(s)' = Running(s)
  BY <1>1, <1>2, <1>3 DEF Running, Candidates, Own
<1>8. Serving(s)
  BY DEF PInv, Place
<1>9. \A p \in Plugins : loaded[s][p].enabled => loaded[s][p].version # 0 /\ loaded[s][p].instance # 0
  BY <1>1, <1>8 DEF Serving, EnabledIn
<1>10. Place(s)'
  <2>1. Serving(s)'
    BY <1>1, <1>3, <1>7, <1>8, <1>9 DEF Serving
  <2>2. Operating(s)'
    BY <1>1, <1>2 DEF Operating
  <2>3. Owning(s)'
    BY <1>1, <1>2, <1>3, <1>4, <1>7 DEF Owning
  <2>4. Ended(s)'
    BY <1>3 DEF Ended
  <2> QED
    BY <2>1, <2>2, <2>3, <2>4 DEF Place
<1>11. TransitionOrder(Running(s))
  <2> DEFINE K == loaded[s]
             E == Running(s)
             f == [p \in EnabledIn(K) |-> Requires[p, K[p].version]]
             g == [p \in Registered(E) |-> UNION {RequiredBy(i) : i \in Of(p, E)}]
  <2>1. \A i \in E : \E p \in Plugins : i = K[p].instance /\ i # 0
    BY DEF Running
  <2>2. \A p \in Plugins : K[p].instance # 0 => /\ K[p].enabled /\ K[p].version # 0
                                                /\ lives[K[p].instance].plugin = p
                                                /\ lives[K[p].instance].version = K[p].version
    BY <1>8 DEF Serving
  <2>3. \A p \in EnabledIn(K) : p \in Plugins /\ K[p].instance # 0 /\ K[p].instance \in E
    BY <1>9 DEF EnabledIn, Running
  <2>4. Registered(E) = EnabledIn(K)
    BY <2>1, <2>2, <2>3 DEF Registered, EnabledIn
  <2>5. ASSUME NEW p \in EnabledIn(K)
        PROVE  UNION {RequiredBy(i) : i \in Of(p, E)} = Requires[p, K[p].version]
    <3>1. Of(p, E) = {K[p].instance}
      BY <2>1, <2>2, <2>3 DEF Of
    <3>2. RequiredBy(K[p].instance) = Requires[p, K[p].version]
      BY <2>2, <2>3 DEF RequiredBy
    <3> QED
      BY <3>1, <3>2
  <2>6. f = g
    BY <2>4, <2>5
  <2>7. Orderable(f)
    BY <1>1, <1>8 DEF Serving, DependencyOrder
  <2> QED
    BY <2>6, <2>7 DEF TransitionOrder
<1>12. TransitionOrder(entries[s])'
  <2>1. PICK E : E = Running(s)
    OBVIOUS
  <2>2. TransitionOrder(E)'
    BY <1>1, <1>11, <2>1, OrderKept
  <2> QED
    BY <1>3, <2>1, <2>2 DEF TransitionOrder
<1> QED
  BY <1>1, <1>2, <1>3, <1>5, <1>6, <1>7, <1>10, <1>12, QuietStep
-----------------------------------------------------------------------------
(* The invariant *)

LEMMA InitSound == Init => PInv
<1> SUFFICES ASSUME Init PROVE PInv
  OBVIOUS
<1>1. /\ store \in [Plugins -> Record]
      /\ \A p \in Plugins : store[p].version = 0 => ~store[p].enabled
      /\ phase = [s \in Servers |-> "down"] /\ missing = [s \in Servers |-> {}]
      /\ loaded = [s \in Servers |-> Empty] /\ entries = [s \in Servers |-> {}]
      /\ op = [s \in Servers |-> Idle] /\ loads = 0 /\ held = [r \in Renders |-> {}] /\ lost = 0
  BY DEF Init
<1>2. PICK a \in Servers, b \in Plugins, c \in Versions : lives = [i \in Instances |-> NewLife(a, b, c)]
  <2>1. (CHOOSE s \in Servers : TRUE) \in Servers
    BY PluginAssumption
  <2>2. (CHOOSE p \in Plugins : TRUE) \in Plugins
    BY PluginAssumption
  <2>3. (CHOOSE v \in Versions : TRUE) \in Versions
    BY PluginAssumption
  <2> QED
    BY <2>1, <2>2, <2>3 DEF Init
<1>3. NewLife(a, b, c) \in Life
  BY DEF NewLife, Life
<1>4. Idle \in [step : {"idle", "publish", "retire"}, id : Plugins, item : Managed,
                archive : BOOLEAN, old : SUBSET (1..loads)]
  BY Nothing DEF Idle
<1>5. TypeOK
  <2>1. loads \in 0..MaxLoads /\ lost \in 0..MaxLostReplies
    BY <1>1, PluginAssumption
  <2>2. lives \in [Instances -> Life]
    BY <1>2, <1>3
  <2> QED
    BY <1>1, <1>4, <2>1, <2>2, EmptyIs DEF TypeOK
<1>6. Stored
  BY <1>1 DEF Stored
<1>7. ASSUME NEW s \in Servers
      PROVE  Place(s) /\ TransitionOrder(entries[s])
  <2>1. /\ phase[s] = "down" /\ entries[s] = {} /\ op[s] = Idle
        /\ \A p \in Plugins : loaded[s][p].instance = 0 /\ ~loaded[s][p].enabled
    BY <1>1, EmptyIs
  <2>2. /\ op[s].step = "idle" /\ op[s].item.instance = 0 /\ ~op[s].item.enabled /\ op[s].old = {}
    BY <2>1, Nothing
  <2>3. Running(s) = {} /\ Candidates(s) = {} /\ Own(s) = {}
    BY <2>1, <2>2 DEF Running, Candidates, Own
  <2>4. Serving(s) /\ Operating(s) /\ Owning(s) /\ Ended(s)
    BY <2>1, <2>2, <2>3 DEF Serving, Operating, Owning, Ended
  <2>5. TransitionOrder({})
    <3> DEFINE f == [p \in Registered({}) |-> UNION {RequiredBy(i) : i \in Of(p, {})}]
    <3>1. DOMAIN f = {}
      BY DEF Registered
    <3> HIDE DEF f
    <3>2. Orderable(f)
      BY <3>1, NothingToOrder
    <3> QED
      BY <3>2 DEF TransitionOrder, f
  <2> QED
    BY <2>1, <2>4, <2>5 DEF Place
<1>8. ASSUME NEW i \in Instances
      PROVE  Lifetime(i)
  <2>1. lives[i].refs = 0 /\ lives[i].done = 0 /\ lives[i].closed = 0
    BY <1>2 DEF NewLife
  <2>2. Holders(i) = {} /\ Cardinality({}) = 0
    BY <1>1, FS_EmptySet DEF Holders
  <2>3. ~(i <= loads)
    BY <1>1 DEF Instances
  <2> QED
    BY <2>1, <2>2, <2>3 DEF Lifetime
<1> QED
  BY <1>5, <1>6, <1>7, <1>8 DEF PInv

LEMMA Stutter ==
    ASSUME PInv, UNCHANGED vars
    PROVE  PInv'
<1>1. /\ UNCHANGED <<store, phase, missing, loaded, entries, op, loads, lost>>
      /\ lives' = lives /\ held' = held
  BY DEF vars
<1>2. \A i : Holders(i)' = Holders(i)
  BY <1>1 DEF Holders
<1>3. lives' \in [Instances -> Life] /\ held' \in [Renders -> SUBSET (1..loads)]
  BY <1>1 DEF PInv, TypeOK
<1>4. \A i \in Instances :
         /\ lives'[i].refs = Cardinality(Holders(i)') /\ lives'[i].done \in {0, 1}
         /\ lives'[i].done = 1 => lives[i].retired /\ Holders(i)' = {}
         /\ lives[i].closed = 1 => Holders(i)' = {}
         /\ i > loads => lives'[i].done = 0
  BY <1>1, <1>2 DEF PInv, Lifetime
<1> QED
  BY <1>1, <1>2, <1>3, <1>4, LeaseStep

LEMMA StepKeeps == PInv /\ [Next]_vars => PInv'
<1> SUFFICES ASSUME PInv, [Next]_vars PROVE PInv'
  OBVIOUS
<1>1. CASE UNCHANGED vars
  BY <1>1, Stutter
<1>2. ASSUME NEW s \in Servers, Lifecycle(s)
      PROVE  PInv'
  BY <1>2, BeginsKeep, CloseKeeps, CloseRuntimeKeeps, FailuresKeep DEF Lifecycle
<1>3. ASSUME NEW s \in Servers, Operation(s)
      PROVE  PInv'
  BY <1>3, PublishKeeps, FailuresKeep, RetireKeeps DEF Operation
<1>4. ASSUME NEW s \in Servers, Startup(s)
      PROVE  PInv'
  BY <1>4, BootstrapKeeps, ResolveOrderKeeps, InitializeKeeps, BootstrapFailsKeeps, SeedPluginKeeps,
     EnableRequiredKeeps, PrepareInstanceKeeps DEF Startup
<1>5. ASSUME NEW s \in Servers, Bootstrap(s) \/ Crash(s)
      PROVE  PInv'
  BY <1>5, BootstrapKeeps, CrashKeeps
<1>6. ASSUME NEW s \in Servers, NEW r \in Renders,
             AcquireRenderPlan(r, s) \/ \E i \in entries[s] : AcquireEntry(r, s, i)
      PROVE  PInv'
  BY <1>6, AcquiresKeep
<1>7. ASSUME NEW r \in Renders, NEW i \in held[r], Release(r, i)
      PROVE  PInv'
  BY <1>7, ReleaseKeeps
<1>8. ASSUME NEW i \in Instances, CloseDrained(i)
      PROVE  PInv'
  BY <1>8, CloseDrainedKeeps
<1> QED
  BY <1>1, <1>2, <1>3, <1>4, <1>5, <1>6, <1>7, <1>8 DEF Next

\* Every step of servers, renders and drain goroutines keeps what PInv says of them.
THEOREM Invariance == Spec => []PInv
<1>1. Init => PInv
  BY InitSound
<1>2. PInv /\ [Next]_vars => PInv'
  BY StepKeeps
<1> QED
  BY <1>1, <1>2, PTL DEF Spec

\* The tables, the managers, registries, lifetimes and leases keep their types.
THEOREM TypeCorrectness == Spec => []TypeOK
<1>1. PInv => TypeOK
  BY DEF PInv
<1> QED
  BY <1>1, Invariance, PTL

\* Instances are closed when their last lease is over, once, and before the runtime they
\* run in: retire, its drain goroutine, release and the error paths of publish and
\* Bootstrap agree on who closes.
THEOREM InstancesCloseWhenDrained == Spec => []ClosedWhenDrained
<1>1. PInv => ClosedWhenDrained
  <2> SUFFICES ASSUME PInv PROVE ClosedWhenDrained
    OBVIOUS
  <2>1. ASSUME NEW r \in Renders, NEW i \in held[r]
        PROVE  lives[i].closed = 0
    <3>1. i \in Instances /\ r \in Holders(i)
      BY Types DEF PInv, Holders
    <3> QED
      BY <3>1 DEF PInv, Lifetime
  <2>2. ASSUME NEW i \in Instances
        PROVE  lives[i].done <= 1 /\ lives[i].closed <= 1
    BY DEF PInv, Lifetime
  <2>3. ASSUME NEW s \in Servers, phase[s] = "closed", NEW i \in InstancesOf(s)
        PROVE  lives[i].closed > 0 /\ lives[i].refs = 0
    <3>1. lives[i].closed = 1
      BY <2>3 DEF PInv, Place, Ended
    <3>2. i \in Instances
      BY Types DEF PInv, InstancesOf
    <3>3. lives[i].refs = Cardinality(Holders(i)) /\ Holders(i) = {}
      BY <3>1, <3>2 DEF PInv, Lifetime
    <3> QED
      BY <3>1, <3>3, FS_EmptySet
  <2> QED
    BY <2>1, <2>2, <2>3 DEF ClosedWhenDrained, NoUseAfterClose, ClosedOnce, RuntimeClosedLast
<1> QED
  BY <1>1, Invariance, PTL

\* What transitions publish is a complete graph of plugins with one version of each, and
\* it is what the manager lists as enabled.
THEOREM GraphsArePublished == Spec => []PublishedGraph
<1>1. PInv => PublishedGraph
  <2> SUFFICES ASSUME PInv, NEW s \in Servers
               PROVE  /\ TransitionOrder(entries[s])
                      /\ \A p \in Plugins : Cardinality(Of(p, entries[s])) <= 1
                      /\ phase[s] = "up" => /\ entries[s] = RunningIn(loaded[s])
                                            /\ \A p \in Plugins :
                                                  loaded[s][p].enabled = (loaded[s][p].instance # 0)
    BY DEF PublishedGraph
  <2>1. Serving(s) /\ TransitionOrder(entries[s])
    BY DEF PInv, Place
  <2>2. ASSUME NEW p \in Plugins
        PROVE  Cardinality(Of(p, entries[s])) <= 1
    <3>1. \A i \in entries[s] : \E q \in Plugins : i = loaded[s][q].instance /\ i # 0
      BY <2>1 DEF Serving, Running
    <3>2. Of(p, entries[s]) \in {{}, {loaded[s][p].instance}}
      BY <2>1, <3>1 DEF Of, Serving
    <3>3. Cardinality({}) = 0 /\ Cardinality({loaded[s][p].instance}) = 1
      BY FS_EmptySet, FS_Singleton
    <3> QED
      BY <3>2, <3>3
  <2>3. phase[s] = "up" => entries[s] = RunningIn(loaded[s])
    BY <2>1 DEF Serving, Running, RunningIn
  <2>4. ASSUME phase[s] = "up", NEW p \in Plugins
        PROVE  loaded[s][p].enabled = (loaded[s][p].instance # 0)
    <3>1. loaded[s][p].enabled <=> loaded[s][p].instance # 0
      BY <2>1, <2>4 DEF Serving
    <3>2. loaded[s][p].enabled \in BOOLEAN
      BY Types DEF PInv, Managed
    <3> QED
      BY <3>1, <3>2
  <2> QED
    BY <2>1, <2>2, <2>3, <2>4
<1> QED
  BY <1>1, Invariance, PTL
-----------------------------------------------------------------------------
(* Replacement *)

\* An instance keeps its plugin.
LEMMA NamesStay ==
    ASSUME PInv, Next
    PROVE  \A i \in 1..loads : lives'[i].plugin = lives[i].plugin
<1>0. loads \in Nat /\ 1..loads \subseteq Instances /\ \A i \in Instances : i \in Nat /\ lives[i] \in Life
  BY Types DEF PInv
<1>1. lives \in [Instances -> Life]
  BY DEF PInv, TypeOK
<1>2. ASSUME NEW t \in Servers, NEW p, NEW v, Load(t, p, v)
      PROVE  \A i \in 1..loads : lives'[i] = lives[i]
  <2>1. lives' = [lives EXCEPT ![loads + 1] = NewLife(t, p, v)]
    BY <1>2 DEF Load
  <2>2. \A i \in 1..loads : i # loads + 1
    BY <1>0
  <2> QED
    BY <1>0, <1>1, <2>1, <2>2
<1>3. ASSUME NEW S, lives' = ClosedAll(S)
      PROVE  \A i \in Instances : lives'[i].plugin = lives[i].plugin
  BY <1>3, Closing
<1>4. ASSUME NEW s \in Servers, Lifecycle(s)
      PROVE  \A i \in 1..loads : lives'[i].plugin = lives[i].plugin
  <2>1. ASSUME NEW p, NEW v, NEW enabled, NEW archive, Prepare(s, p, v, enabled, archive)
        PROVE  \A i \in 1..loads : lives'[i] = lives[i]
    BY <1>2, <2>1 DEF Prepare, NoLoad
  <2>2. CASE PublishUnanswered(s)
    BY <1>0, <1>3, <2>2 DEF PublishUnanswered, Abandon
  <2>3. CASE \E p \in Plugins :
                \/ Enable(s, p) \/ Disable(s, p) \/ Uninstall(s, p)
                \/ \E v \in Versions : Install(s, p, v) \/ Upgrade(s, p, v)
    <3>1. PICK p \in Plugins :
                \/ Enable(s, p) \/ Disable(s, p) \/ Uninstall(s, p)
                \/ \E v \in Versions : Install(s, p, v) \/ Upgrade(s, p, v)
      BY <2>3
    <3>2. CASE Enable(s, p)
      BY <2>1, <3>2 DEF Enable
    <3>3. CASE \E v \in Versions : Install(s, p, v) \/ Upgrade(s, p, v)
      BY <2>1, <3>3 DEF Install, Upgrade
    <3>4. CASE Disable(s, p) \/ Uninstall(s, p)
      BY <3>4 DEF Disable, Uninstall, NoLoad
    <3> QED
      BY <3>1, <3>2, <3>3, <3>4
  <2> QED
    BY <1>4, <2>2, <2>3 DEF Lifecycle, Close, CloseRuntime
<1>5. ASSUME NEW s \in Servers, Operation(s)
      PROVE  \A i \in 1..loads : lives'[i].plugin = lives[i].plugin
  <2>1. CASE Publish(s)
    BY <2>1 DEF Publish
  <2>2. CASE PublishFails(s)
    BY <1>0, <1>3, <2>2 DEF PublishFails, Abandon
  <2>3. ASSUME NEW i \in Instances, Retire(s, i)
        PROVE  \A j \in Instances : lives'[j].plugin = lives[j].plugin
    <3>1. lives' = RetiredLife(i)
      BY <2>3 DEF Retire
    <3> QED
      BY <1>1, <3>1 DEF RetiredLife, Life
  <2> QED
    BY <1>0, <1>5, <2>1, <2>2, <2>3 DEF Operation
<1>6. ASSUME NEW s \in Servers, Startup(s)
      PROVE  \A i \in 1..loads : lives'[i].plugin = lives[i].plugin
  <2>1. CASE BootstrapFails(s)
    BY <1>0, <1>3, <2>1 DEF BootstrapFails
  <2>2. ASSUME NEW p \in Plugins, PrepareInstance(s, p)
        PROVE  \A i \in 1..loads : lives'[i] = lives[i]
    BY <1>2, <2>2 DEF PrepareInstance
  <2> QED
    BY <1>6, <2>1, <2>2 DEF Startup, ReadWinners, ResolveOrder, Initialize, SeedPlugin, EnableRequired
<1>7. ASSUME NEW s \in Servers, Crash(s)
      PROVE  \A i \in Instances : lives'[i].plugin = lives[i].plugin
  BY <1>0, <1>7 DEF Crash, Life
<1>8. ASSUME NEW r, NEW s, AcquireRenderPlan(r, s) \/ \E i \in entries[s] : AcquireEntry(r, s, i)
      PROVE  \A i \in Instances : lives'[i].plugin = lives[i].plugin
  BY <1>0, <1>1, <1>8 DEF AcquireRenderPlan, AcquireEntry, Acquired, Life
<1>9. ASSUME NEW r, NEW i, Release(r, i)
      PROVE  \A j \in Instances : lives'[j].plugin = lives[j].plugin
  <2>1. lives' = Released(i)
    BY <1>9 DEF Release
  <2> QED
    BY <1>1, <2>1 DEF Released, Life
<1>10. ASSUME NEW i, CloseDrained(i)
       PROVE  \A j \in Instances : lives'[j].plugin = lives[j].plugin
  BY <1>3, <1>10 DEF CloseDrained
<1>11. ASSUME NEW s \in Servers, Bootstrap(s)
       PROVE  lives' = lives
  BY <1>11 DEF Bootstrap
<1> QED
  BY <1>0, <1>4, <1>5, <1>6, <1>7, <1>8, <1>9, <1>10, <1>11 DEF Next

\* Only a publication changes what a server that stays up publishes.
LEMMA OnlyPublishing ==
    ASSUME PInv, Next, NEW s \in Servers, ~Publish(s), phase[s] = "up", phase'[s] = "up"
    PROVE  entries'[s] = entries[s]
<1>0. /\ entries \in [Servers -> SUBSET (1..loads)]
      /\ phase \in [Servers -> {"down", "seed", "require", "load", "up", "closing", "closed"}]
  BY DEF PInv, TypeOK
<1>1. ASSUME NEW t \in Servers, Lifecycle(t)
      PROVE  entries'[s] = entries[s]
  <2>1. CASE Close(t)
    BY <1>0, <2>1 DEF Close
  <2>2. CASE CloseRuntime(t) \/ PublishUnanswered(t)
    BY <2>2 DEF CloseRuntime, PublishUnanswered, Abandon
  <2>3. CASE \E p \in Plugins :
                \/ Enable(t, p) \/ Disable(t, p) \/ Uninstall(t, p)
                \/ \E v \in Versions : Install(t, p, v) \/ Upgrade(t, p, v)
    BY <2>3 DEF Enable, Disable, Uninstall, Install, Upgrade, Prepare, Begin
  <2> QED
    BY <1>1, <2>1, <2>2, <2>3 DEF Lifecycle
<1>2. ASSUME NEW t \in Servers, Operation(t)
      PROVE  entries'[s] = entries[s]
  <2>1. CASE Publish(t)
    BY <1>0, <2>1 DEF Publish
  <2> QED
    BY <1>2, <2>1 DEF Operation, PublishFails, Abandon, Retire
<1>3. ASSUME NEW t \in Servers, Startup(t)
      PROVE  entries'[s] = entries[s]
  <2>1. CASE Initialize(t)
    BY <1>0, <2>1 DEF Initialize
  <2> QED
    BY <1>3, <2>1 DEF Startup, ReadWinners, ResolveOrder, BootstrapFails, SeedPlugin, EnableRequired,
       PrepareInstance
<1>4. ASSUME NEW t \in Servers, Bootstrap(t)
      PROVE  entries'[s] = entries[s]
  BY <1>4 DEF Bootstrap
<1>5. ASSUME NEW t \in Servers, Crash(t)
      PROVE  entries'[s] = entries[s]
  BY <1>0, <1>5 DEF Crash
<1>6. ASSUME NEW r, NEW t, AcquireRenderPlan(r, t) \/ \E i \in entries[t] : AcquireEntry(r, t, i)
      PROVE  entries'[s] = entries[s]
  BY <1>6 DEF AcquireRenderPlan, AcquireEntry
<1>7. ASSUME NEW r, NEW i, Release(r, i) \/ CloseDrained(i)
      PROVE  entries'[s] = entries[s]
  BY <1>7 DEF Release, CloseDrained
<1> QED
  BY <1>1, <1>2, <1>3, <1>4, <1>5, <1>6, <1>7 DEF Next

\* A plugin that a publication removes is not enabled in the database.
LEMMA RemovedIsDisabled ==
    ASSUME PInv, NEW s \in Servers, NEW p \in Plugins, Publish(s), p \in Registered(entries[s]),
           p \notin {lives'[i].plugin : i \in entries'[s]}
    PROVE  ~store'[p].enabled
<1>1. /\ Publishing(s) /\ store' = Committed(s) /\ entries' = [entries EXCEPT ![s] = CandidateEntries(s)]
      /\ lives' = lives
  BY DEF Publish
<1>2. /\ entries[s] = Running(s) /\ op[s].id \in Plugins /\ op[s].item \in Managed
      /\ op[s].item.enabled <=> op[s].item.instance # 0
      /\ op[s].item.instance # 0 => lives[op[s].item.instance].plugin = op[s].id
  BY <1>1, WhenPublishing
<1>3. PICK i \in entries[s] : lives[i].plugin = p
  BY DEF Registered
<1>4. PICK q \in Plugins : i = loaded[s][q].instance /\ i # 0
  BY <1>2, <1>3 DEF Running
<1>5. Serving(s)
  BY DEF PInv, Place
<1>6. q = p
  BY <1>3, <1>4, <1>5 DEF Serving
<1>7. entries'[s] = CandidateEntries(s)
  BY <1>1 DEF PInv, TypeOK
<1>8. i = Previous(s)
  <2>1. i \notin CandidateEntries(s)
    BY <1>1, <1>3, <1>7
  <2> QED
    BY <1>3, <1>4, <2>1 DEF CandidateEntries
<1>9. op[s].id = p
  BY <1>2, <1>4, <1>5, <1>6, <1>8 DEF Previous, Serving
<1>10. op[s].item.instance = 0
  <2> SUFFICES ASSUME op[s].item.instance # 0 PROVE FALSE
    OBVIOUS
  <2>1. op[s].item.instance \in Candidates(s)
    BY DEF Candidates
  <2>2. op[s].item.instance \notin Running(s)
    BY <1>1, <2>1, WhenPublishing
  <2>3. op[s].item.instance \in CandidateEntries(s)
    BY <1>2, <1>3, <1>8, <2>2 DEF CandidateEntries
  <2> QED
    BY <1>1, <1>2, <1>7, <1>9, <2>3
<1>11. ~op[s].item.enabled
  BY <1>2, <1>10
<1>12. store \in [Plugins -> Record]
  BY DEF PInv, TypeOK
<1>13. CASE op[s].item = NotLoaded
  BY <1>1, <1>9, <1>12, <1>13, Nothing DEF Committed
<1>14. CASE op[s].item # NotLoaded /\ op[s].archive
  <2>1. store' = [store EXCEPT ![p] = Durable(op[s].item)]
    BY <1>1, <1>9, <1>14 DEF Committed
  <2>2. ~Durable(op[s].item).enabled
    BY <1>11 DEF Durable
  <2> QED
    BY <1>12, <2>1, <2>2
<1>15. CASE op[s].item # NotLoaded /\ ~op[s].archive
  <2>1. store' = [store EXCEPT ![p].enabled = op[s].item.enabled]
    BY <1>1, <1>9, <1>15 DEF Committed
  <2>2. PICK b \in BOOLEAN : b = op[s].item.enabled
    BY <1>2 DEF Managed
  <2>3. store'[p].enabled = b
    BY <1>12, <2>1, <2>2 DEF Record
  <2> QED
    BY <1>11, <2>2, <2>3
<1> QED
  BY <1>13, <1>14, <1>15

\* A plugin that stays enabled is never seen unpublished: an upgrade is one transition.
THEOREM ReplacementsAreAtomic == Spec => ReplacedAtOnce
<1> DEFINE A == \A s \in Servers : \A p \in Plugins :
                   /\ p \in Registered(entries[s])
                   /\ phase[s] = "up" /\ phase'[s] = "up"
                   /\ p \notin {lives'[i].plugin : i \in entries'[s]}
                   => ~store'[p].enabled
<1>1. PInv /\ [Next]_vars => [A]_vars
  <2> SUFFICES ASSUME PInv, Next, NEW s \in Servers, NEW p \in Plugins,
                      p \in Registered(entries[s]), phase[s] = "up", phase'[s] = "up",
                      p \notin {lives'[i].plugin : i \in entries'[s]}
               PROVE  ~store'[p].enabled
    OBVIOUS
  <2>1. CASE Publish(s)
    BY <2>1, RemovedIsDisabled
  <2>2. CASE ~Publish(s)
    <3>1. entries'[s] = entries[s]
      BY <2>2, OnlyPublishing
    <3>2. \A i \in entries[s] : lives'[i].plugin = lives[i].plugin
      BY NamesStay, Types DEF PInv
    <3> QED
      BY <3>1, <3>2 DEF Registered
  <2> QED
    BY <2>1, <2>2
<1> QED
  BY <1>1, Invariance, PTL DEF ReplacedAtOnce, Spec
-----------------------------------------------------------------------------
(* What a restart finds *)

\* What is embedded can be seeded in any order and again after an uninstall.
EmbeddedStandAlone == \A p \in DOMAIN Builtins : Requires[p, Builtins[p].version] = {}

\* While no reply was lost, the manager lists what is stored, with the required plugins
\* enabled, and the item of an operation is one that the commit can store.
Kept(s) ==
    /\ phase[s] \in {"require", "load", "up"} => \A p \in Plugins : Durable(loaded[s][p]) = store[p]
    /\ phase[s] \in {"load", "up"} => \A p \in Required : loaded[s][p].enabled
    /\ op[s].step = "publish" =>
          /\ op[s].id \in Required => op[s].item.enabled
          /\ op[s].item = NotLoaded \/ op[s].item.version # 0
          /\ op[s].item = NotLoaded \/ op[s].archive \/ op[s].item.version = loaded[s][op[s].id].version

Recorded == lost = 0 => StoreStartable /\ \A s \in Servers : Kept(s)

RInv == PInv /\ Recorded

\* A step that changes neither the tables nor the manager of s.
LEMMA StoreStands ==
    ASSUME StoreStartable, store' = store
    PROVE  StoreStartable'
<1>1. PICK K : K = store /\ K = store'
  OBVIOUS
<1>2. PICK W : W = WithRequired(K)
  OBVIOUS
<1>3. WithRequired(store') = W
  BY <1>1, <1>2
<1>4. DependencyOrder(W)
  BY <1>1, <1>2 DEF StoreStartable
<1> QED
  BY <1>3, <1>4 DEF StoreStartable

LEMMA KeptStands ==
    ASSUME NEW s \in Servers, Kept(s), store' = store,
           phase'[s] = phase[s], loaded'[s] = loaded[s], op'[s] = op[s]
    PROVE  Kept(s)'
  BY DEF Kept, Durable

\* An operation that has stopped or has not begun to publish.
LEMMA KeptSteps ==
    ASSUME NEW s \in Servers, Kept(s), store' = store,
           phase'[s] = phase[s], loaded'[s] = loaded[s], op'[s].step # "publish"
    PROVE  Kept(s)'
  BY DEF Kept, Durable

LEMMA KeptOut ==
    ASSUME NEW s \in Servers, phase'[s] \notin {"require", "load", "up"}, op'[s].step # "publish"
    PROVE  Kept(s)'
  BY DEF Kept

\* An operation that has prepared its item.
LEMMA BeginsRecorded ==
    ASSUME PInv, NEW s \in Servers, NEW p \in Plugins, NEW item \in Managed, NEW archive \in BOOLEAN,
           Kept(s), StoreStartable, Begin(s, p, item, archive),
           p \in Required => item.enabled,
           item = NotLoaded \/ item.version # 0,
           item = NotLoaded \/ archive \/ item.version = loaded[s][p].version
    PROVE  Kept(s)' /\ StoreStartable'
<1>1. op'[s] = [step |-> "publish", id |-> p, item |-> item, archive |-> archive, old |-> {}]
  BY DEF Begin, PInv, TypeOK
<1>2. /\ op'[s].id = p /\ op'[s].item = item /\ op'[s].archive = archive
      /\ store' = store /\ phase' = phase /\ loaded' = loaded
  BY <1>1 DEF Begin
<1>3. StoreStartable'
  BY <1>2, StoreStands
<1> QED
  BY <1>2, <1>3 DEF Kept, Durable

LEMMA PreparesRecorded ==
    ASSUME PInv, NEW s \in Servers, NEW p \in Plugins, NEW v \in Versions, NEW enabled \in BOOLEAN,
           NEW archive \in BOOLEAN, Kept(s), StoreStartable, Prepare(s, p, v, enabled, archive),
           archive \/ v = loaded[s][p].version
    PROVE  Kept(s)' /\ StoreStartable'
<1>0. v # 0
  BY PluginAssumption
<1>1. CASE enabled \/ p \in Required
  <2> DEFINE item == [version |-> v, enabled |-> TRUE, instance |-> loads + 1]
  <2>1. item \in Managed /\ item.version = v /\ item.enabled
    <3>1. loads + 1 \in 0..MaxLoads
      BY <1>1, Types DEF PInv, Prepare, Load
    <3> QED
      BY <3>1 DEF Managed
  <2>2. Begin(s, p, item, archive)
    BY <1>1 DEF Prepare
  <2> HIDE DEF item
  <2> QED
    BY <1>0, <2>1, <2>2, BeginsRecorded
<1>2. CASE ~(enabled \/ p \in Required)
  <2> DEFINE item == [version |-> v, enabled |-> FALSE, instance |-> 0]
  <2>1. item \in Managed /\ item.version = v
    BY PluginAssumption DEF Managed
  <2>2. Begin(s, p, item, archive)
    BY <1>2 DEF Prepare
  <2> HIDE DEF item
  <2> QED
    BY <1>0, <1>2, <2>1, <2>2, BeginsRecorded
<1> QED
  BY <1>1, <1>2

LEMMA OperationsBegin ==
    ASSUME PInv, NEW s \in Servers, NEW p \in Plugins, Kept(s), StoreStartable,
           \/ Enable(s, p) \/ Disable(s, p) \/ Uninstall(s, p)
           \/ \E v \in Versions : Install(s, p, v) \/ Upgrade(s, p, v)
    PROVE  Kept(s)' /\ StoreStartable'
<1>0. loaded[s][p] \in Managed /\ (loaded[s][p].version # 0 => loaded[s][p].version \in Versions)
      /\ loaded[s][p].enabled \in BOOLEAN /\ 0 \in 0..MaxLoads
  BY Types, PluginAssumption DEF PInv, Managed
<1>1. CASE Enable(s, p)
  BY <1>0, <1>1, PreparesRecorded DEF Enable, InstalledIn
<1>2. CASE Disable(s, p)
  <2> DEFINE item == [version |-> loaded[s][p].version, enabled |-> FALSE, instance |-> 0]
  <2>1. item \in Managed /\ item.version = loaded[s][p].version /\ item.version # 0
    BY <1>0, <1>2 DEF Managed, Disable, InstalledIn
  <2>2. Begin(s, p, item, FALSE) /\ p \notin Required
    BY <1>2 DEF Disable
  <2> HIDE DEF item
  <2> QED
    BY <2>1, <2>2, BeginsRecorded
<1>3. CASE Uninstall(s, p)
  BY <1>3, Nothing, BeginsRecorded DEF Uninstall
<1>4. ASSUME NEW v \in Versions, Install(s, p, v)
      PROVE  Kept(s)' /\ StoreStartable'
  BY <1>4, PreparesRecorded DEF Install
<1>5. ASSUME NEW v \in Versions, Upgrade(s, p, v)
      PROVE  Kept(s)' /\ StoreStartable'
  BY <1>0, <1>5, PreparesRecorded DEF Upgrade
<1> QED
  BY <1>1, <1>2, <1>3, <1>4, <1>5

\* A commit stores what the manager goes on to list.
LEMMA CommitsCandidate ==
    ASSUME PInv, NEW s \in Servers, Kept(s), Publishing(s), CanCommit(s)
    PROVE  \A p \in Plugins : Committed(s)[p] = Durable(Candidate(s)[p])
<1> DEFINE q == op[s].id
           item == op[s].item
<1>1. /\ q \in Plugins /\ item \in Managed /\ store \in [Plugins -> Record]
      /\ loaded[s] \in [Plugins -> Managed] /\ phase[s] = "up"
  BY WhenPublishing DEF PInv, TypeOK
<1>2. \A p \in Plugins : Durable(loaded[s][p]) = store[p]
  BY <1>1 DEF Kept
<1>3. \A p \in Plugins : Candidate(s)[p] = IF p = q THEN item ELSE loaded[s][p]
  BY <1>1 DEF Candidate
<1>4. CASE item = NotLoaded
  <2>1. Durable(NotLoaded) = NotInstalled
    BY DEF Durable, NotLoaded, NotInstalled
  <2>2. Committed(s) = [store EXCEPT ![q] = NotInstalled]
    BY <1>4 DEF Committed
  <2> HIDE DEF q, item
  <2> QED
    BY <1>1, <1>2, <1>3, <1>4, <2>1, <2>2
<1>5. CASE item # NotLoaded /\ op[s].archive
  <2>1. Committed(s) = [store EXCEPT ![q] = Durable(item)]
    BY <1>5 DEF Committed
  <2> HIDE DEF q, item
  <2> QED
    BY <1>1, <1>2, <1>3, <2>1
<1>6. CASE item # NotLoaded /\ ~op[s].archive
  <2> DEFINE x == [store[q] EXCEPT !.enabled = item.enabled]
  <2>1. item.version = loaded[s][q].version
    BY <1>6 DEF Kept, Publishing
  <2>2. store[q] \in Record /\ store[q] = Durable(loaded[s][q])
    BY <1>1, <1>2
  <2>3. store[q].version = item.version
    BY <2>1, <2>2 DEF Durable
  <2>4. x = [version |-> store[q].version, enabled |-> item.enabled]
    BY <2>2 DEF Record
  <2>5. x = Durable(item)
    BY <2>3, <2>4 DEF Durable
  <2>6. Committed(s) = [store EXCEPT ![q] = x]
    BY <1>1, <1>6, <2>2 DEF Committed, Record
  <2> HIDE DEF x, q, item
  <2> QED
    BY <1>1, <1>2, <1>3, <2>5, <2>6
<1> QED
  BY <1>4, <1>5, <1>6

\* Two tables from which a start goes on alike.
LEMMA SameStart ==
    ASSUME NEW K, NEW L, DependencyOrder(WithRequired(K)),
           \A p \in Plugins : WithRequired(K)[p].version = WithRequired(L)[p].version
                              /\ WithRequired(K)[p].enabled = WithRequired(L)[p].enabled
    PROVE  DependencyOrder(WithRequired(L))
  BY SameOrder

\* What a start makes of one row.
LEMMA Enabling ==
    ASSUME NEW K \in [Plugins -> Record], NEW p \in Plugins
    PROVE  /\ WithRequired(K)[p].version = K[p].version
           /\ WithRequired(K)[p].enabled <=> K[p].enabled \/ (p \in Required /\ K[p].version # 0)
<1>1. CASE p \in Required /\ K[p].version # 0
  <2>1. WithRequired(K)[p] = [K[p] EXCEPT !.enabled = TRUE]
    BY <1>1 DEF WithRequired
  <2>2. K[p] \in Record
    OBVIOUS
  <2> QED
    BY <1>1, <2>1, <2>2 DEF Record
<1>2. CASE ~(p \in Required /\ K[p].version # 0)
  BY <1>2 DEF WithRequired
<1> QED
  BY <1>1, <1>2

LEMMA PublishRecorded ==
    ASSUME PInv, NEW s \in Servers, Kept(s), StoreStartable, Publish(s)
    PROVE  Kept(s)' /\ StoreStartable'
<1> DEFINE K == Committed(s)
           L == Candidate(s)
<1>1. /\ Publishing(s) /\ CanCommit(s) /\ Valid(s) /\ store' = K /\ phase' = phase
      /\ loaded' = [loaded EXCEPT ![s] = L]
  BY DEF Publish
<1>2. /\ K \in [Plugins -> Record]
      /\ \A p \in Plugins : K[p] = Durable(L[p])
  BY <1>1, Commits, CommitsCandidate
<1>3. /\ phase[s] = "up" /\ op[s].id \in Plugins /\ op[s].item \in Managed
      /\ loaded \in [Servers -> [Plugins -> Managed]]
  BY <1>1, WhenPublishing DEF PInv, TypeOK
<1>4. op'[s].step # "publish"
  <2>1. op' = [op EXCEPT ![s] = IF Previous(s) = 0 THEN Idle
                               ELSE [Idle EXCEPT !.step = "retire", !.old = {Previous(s)}]]
    BY DEF Publish
  <2>2. op'[s] = Idle \/ op'[s] = [Idle EXCEPT !.step = "retire", !.old = {Previous(s)}]
    BY <2>1 DEF PInv, TypeOK
  <2>3. [Idle EXCEPT !.step = "retire", !.old = {Previous(s)}].step = "retire"
    BY DEF Idle
  <2> QED
    BY <2>2, <2>3, Nothing
<1>5. loaded'[s] = L
  BY <1>1, <1>3
<1>6. \A p \in Plugins : L[p] = IF p = op[s].id THEN op[s].item ELSE loaded[s][p]
  BY <1>3 DEF Candidate
<1>7. \A p \in Required : L[p].enabled
  <2>1. \A p \in Required : p \in Plugins /\ loaded[s][p].enabled
    BY <1>3, PluginAssumption DEF Kept
  <2>2. op[s].id \in Required => op[s].item.enabled
    BY <1>1 DEF Kept, Publishing
  <2> HIDE DEF L
  <2> QED
    BY <1>6, <2>1, <2>2
<1>8. DependencyOrder(L)
  BY <1>1 DEF Valid
<1> HIDE DEF K, L
<1>9. \A p \in Plugins : WithRequired(K)[p].version = L[p].version /\ WithRequired(K)[p].enabled = L[p].enabled
  <2> SUFFICES ASSUME NEW p \in Plugins
               PROVE  WithRequired(K)[p].version = L[p].version /\ WithRequired(K)[p].enabled = L[p].enabled
    OBVIOUS
  <2>1. K[p].version = L[p].version /\ K[p].enabled = L[p].enabled
    BY <1>2 DEF Durable
  <2>2. WithRequired(K)[p] = K[p] \/ (p \in Required /\ WithRequired(K)[p] = [K[p] EXCEPT !.enabled = TRUE])
    BY DEF WithRequired
  <2>3. p \in Required => K[p].enabled = TRUE
    <3>1. L[p] \in Managed
      BY <1>3, <1>6
    <3> QED
      BY <1>7, <2>1, <3>1 DEF Managed
  <2>4. K[p] \in Record
    BY <1>2
  <2>5. p \in Required => [K[p] EXCEPT !.enabled = TRUE] = K[p]
    BY <2>3, <2>4 DEF Record
  <2> QED
    BY <2>1, <2>2, <2>5
<1>10. DependencyOrder(WithRequired(K))
  BY <1>8, <1>9, SameOrder
<1>11. Kept(s)'
  BY <1>1, <1>2, <1>3, <1>4, <1>5, <1>7 DEF Kept
<1>12. StoreStartable'
  BY <1>1, <1>10 DEF StoreStartable
<1> QED
  BY <1>11, <1>12

\* Seeding adds a plugin that requires nothing and that nothing enabled requires.
LEMMA SeedOrders ==
    ASSUME NEW K \in [Plugins -> Record], NEW L \in [Plugins -> Record], NEW p \in Plugins,
           DependencyOrder(K), ~K[p].enabled, Requires[p, L[p].version] = {},
           \A q \in Plugins : q # p => K[q] = L[q]
    PROVE  DependencyOrder(L)
<1> DEFINE FK == [q \in EnabledIn(K) |-> Requires[q, K[q].version]]
           FL == [q \in EnabledIn(L) |-> Requires[q, L[q].version]]
<1>1. Orderable(FK)
  BY DEF DependencyOrder
<1>2. EnabledIn(K) \subseteq EnabledIn(L) /\ EnabledIn(L) \subseteq EnabledIn(K) \cup {p}
  BY DEF EnabledIn
<1>3. \A q \in EnabledIn(L) : q # p => q \in EnabledIn(K) /\ FL[q] = FK[q]
  BY <1>2 DEF EnabledIn
<1>4. p \in EnabledIn(L) => FL[p] = {}
  OBVIOUS
<1>5. PICK f : f = FK /\ DOMAIN f = EnabledIn(K)
  <2>1. DOMAIN FK = EnabledIn(K)
    OBVIOUS
  <2> HIDE DEF FK
  <2> QED
    BY <2>1
<1>6. PICK g : g = FL /\ DOMAIN g = EnabledIn(L)
  <2>1. DOMAIN FL = EnabledIn(L)
    OBVIOUS
  <2> HIDE DEF FL
  <2> QED
    BY <2>1
<1>7. /\ \A q \in DOMAIN f : f[q] \subseteq DOMAIN f
      /\ \A ring \in (SUBSET DOMAIN f) \ {{}} : \E q \in ring : f[q] \cap ring = {}
  BY <1>1, <1>5 DEF Orderable
<1>8. \A q \in DOMAIN g : g[q] \subseteq DOMAIN g
  BY <1>2, <1>3, <1>4, <1>5, <1>6, <1>7
<1>9. ASSUME NEW ring \in (SUBSET DOMAIN g) \ {{}}
      PROVE  \E q \in ring : g[q] \cap ring = {}
  <2>1. CASE p \in ring
    BY <1>4, <1>6, <2>1
  <2>2. CASE p \notin ring
    <3>1. ring \in (SUBSET DOMAIN f) \ {{}}
      BY <1>3, <1>5, <1>6, <2>2
    <3>2. PICK q \in ring : f[q] \cap ring = {}
      BY <1>7, <3>1
    <3>3. g[q] = f[q]
      BY <1>3, <1>5, <1>6, <2>2
    <3> QED
      BY <3>2, <3>3
  <2> QED
    BY <2>1, <2>2
<1>10. Orderable(g)
  BY <1>8, <1>9 DEF Orderable
<1> QED
  BY <1>6, <1>10 DEF DependencyOrder

LEMMA SeedRecorded ==
    ASSUME PInv, NEW s \in Servers, NEW p \in Plugins, StoreStartable, EmbeddedStandAlone, SeedPlugin(s, p)
    PROVE  StoreStartable'
<1>1. CASE store[p] # NotInstalled
  BY <1>1, StoreStands DEF SeedPlugin
<1>2. CASE store[p] = NotInstalled
  <2> DEFINE b == Builtins[p].enabled \/ p \in Required
             x == [version |-> Builtins[p].version, enabled |-> b]
  <2>1. p \in DOMAIN Builtins /\ store \in [Plugins -> Record] /\ store' \in [Plugins -> Record]
    BY SeedPluginKeeps DEF PInv, TypeOK, SeedPlugin
  <2>2. x.version = Builtins[p].version
    OBVIOUS
  <2>3. store' = [store EXCEPT ![p] = x]
    BY <1>2 DEF SeedPlugin
  <2> HIDE DEF x
  <2>4. PICK K : K = store
    OBVIOUS
  <2>5. PICK L : L = store'
    OBVIOUS
  <2>6. K \in [Plugins -> Record] /\ L \in [Plugins -> Record] /\ L[p].version = Builtins[p].version
    BY <2>1, <2>2, <2>3, <2>4, <2>5
  <2>7. K[p].version = 0 /\ ~K[p].enabled
    BY <1>2, <2>4, Nothing
  <2>8. ~WithRequired(K)[p].enabled /\ WithRequired(L)[p].version = Builtins[p].version
    BY <2>6, <2>7, Enabling
  <2>9. \A q \in Plugins : q # p => WithRequired(K)[q] = WithRequired(L)[q]
    BY <2>3, <2>4, <2>5, <2>1 DEF WithRequired
  <2>10. WithRequired(K) \in [Plugins -> Record] /\ WithRequired(L) \in [Plugins -> Record]
    <3>1. \A C \in [Plugins -> Record] : WithRequired(C) \in [Plugins -> Record]
      BY DEF WithRequired, Record
    <3> QED
      BY <2>6, <3>1
  <2>11. DependencyOrder(WithRequired(K))
    BY <2>4 DEF StoreStartable
  <2>12. Requires[p, WithRequired(L)[p].version] = {}
    BY <2>1, <2>8 DEF EmbeddedStandAlone
  <2>13. PICK A : A = WithRequired(K)
    OBVIOUS
  <2>14. PICK B : B = WithRequired(L)
    OBVIOUS
  <2>15. DependencyOrder(B)
    BY <2>8, <2>9, <2>10, <2>11, <2>12, <2>13, <2>14, SeedOrders
  <2> QED
    BY <2>5, <2>14, <2>15 DEF StoreStartable
<1> QED
  BY <1>1, <1>2

LEMMA EnableRequiredRecorded ==
    ASSUME PInv, NEW s \in Servers, NEW p \in Plugins, Kept(s), StoreStartable, EnableRequired(s, p)
    PROVE  Kept(s)' /\ StoreStartable'
<1>1. /\ phase[s] = "require" /\ p \in Required /\ phase' = phase /\ op' = op
      /\ loaded \in [Servers -> [Plugins -> Managed]] /\ store \in [Plugins -> Record]
      /\ store[p] # NotInstalled
  BY DEF EnableRequired, PInv, TypeOK
<1> DEFINE x == [store[p] EXCEPT !.enabled = TRUE]
           y == [loaded[s][p] EXCEPT !.enabled = TRUE]
<1>2. /\ x \in Record /\ x.version = store[p].version /\ x.enabled
      /\ y \in Managed /\ y.version = loaded[s][p].version /\ y.enabled
  <2>1. store[p] \in Record /\ loaded[s][p] \in Managed
    BY <1>1
  <2>2. x \in Record /\ x.version = store[p].version /\ x.enabled
    BY <2>1 DEF Record
  <2>3. y \in Managed /\ y.version = loaded[s][p].version /\ y.enabled
    BY <2>1 DEF Managed
  <2> QED
    BY <2>2, <2>3
<1>3. store' = [store EXCEPT ![p] = x] /\ loaded' = [loaded EXCEPT ![s] = [loaded[s] EXCEPT ![p] = y]]
  <2>1. store' = [store EXCEPT ![p] = x]
    BY <1>1 DEF EnableRequired
  <2>2. loaded' = [loaded EXCEPT ![s] = [loaded[s] EXCEPT ![p] = y]]
    BY <1>1 DEF EnableRequired
  <2> QED
    BY <2>1, <2>2
<1>4. [x EXCEPT !.enabled = TRUE] = x
  BY <1>2 DEF Record
<1>5. Durable(y) = x
  <2> HIDE DEF x, y
  <2>1. Durable(loaded[s][p]) = store[p]
    BY <1>1 DEF Kept
  <2>2. y.version = x.version
    BY <1>2, <2>1 DEF Durable
  <2>3. y.enabled = x.enabled
    BY <1>2 DEF Record, Managed
  <2>4. x = [version |-> x.version, enabled |-> x.enabled]
    BY <1>2 DEF Record
  <2> QED
    BY <2>2, <2>3, <2>4 DEF Durable
<1> HIDE DEF x, y
<1>6. \A q \in Plugins : Durable(loaded'[s][q]) = store'[q]
  BY <1>1, <1>3, <1>5 DEF Kept
<1>7. op[s].step # "publish"
  BY <1>1, WhenIdle
<1>8. Kept(s)'
  BY <1>1, <1>6, <1>7 DEF Kept
<1>9. StoreStartable'
  <2>1. PICK K : K = store
    OBVIOUS
  <2>2. PICK L : L = store'
    OBVIOUS
  <2>3. K \in [Plugins -> Record] /\ L \in [Plugins -> Record]
    BY <1>1, <1>2, <1>3, <2>1, <2>2
  <2>4. \A q \in Plugins : q # p => K[q] = L[q]
    BY <1>1, <1>3, <2>1, <2>2
  <2>5. L[p] = x
    BY <1>1, <1>3, <2>2
  <2>6. K[p].version # 0
    <3>1. \A r \in Record : r.version = 0 /\ ~r.enabled => r = NotInstalled
      BY Nothing
    <3>2. store[p].version = 0 => ~store[p].enabled
      BY DEF PInv, Stored
    <3> QED
      BY <1>1, <2>1, <3>1, <3>2
  <2>7. \A q \in Plugins : WithRequired(K)[q].version = WithRequired(L)[q].version
                           /\ WithRequired(K)[q].enabled = WithRequired(L)[q].enabled
    <3>1. \A q \in Plugins : q # p => WithRequired(K)[q] = WithRequired(L)[q]
      BY <2>4 DEF WithRequired
    <3>2. WithRequired(K)[p] = [K[p] EXCEPT !.enabled = TRUE] /\ WithRequired(L)[p] = [L[p] EXCEPT !.enabled = TRUE]
      BY <1>1, <1>2, <2>1, <2>5, <2>6 DEF WithRequired
    <3>3. L[p] = [K[p] EXCEPT !.enabled = TRUE] /\ [L[p] EXCEPT !.enabled = TRUE] = L[p]
      BY <1>4, <2>1, <2>5 DEF x
    <3> QED
      BY <3>1, <3>2, <3>3
  <2>8. DependencyOrder(WithRequired(K))
    BY <2>1 DEF StoreStartable
  <2>9. DependencyOrder(WithRequired(L))
    BY <2>7, <2>8, SameStart
  <2> QED
    BY <2>2, <2>9 DEF StoreStartable
<1> QED
  BY <1>8, <1>9

\* The other steps of a start.
LEMMA StartsRecorded ==
    ASSUME PInv, NEW s \in Servers, Kept(s), StoreStartable, EmbeddedStandAlone, Startup(s) \/ Bootstrap(s)
    PROVE  Kept(s)' /\ StoreStartable'
<1>0. /\ phase \in [Servers -> {"down", "seed", "require", "load", "up", "closing", "closed"}]
      /\ loaded \in [Servers -> [Plugins -> Managed]]
  BY DEF PInv, TypeOK
<1>1. phase[s] \in {"down", "seed", "require", "load"} /\ op[s].step # "publish" /\ op' = op
  <2>1. phase[s] \in {"down", "seed", "require", "load"} /\ op' = op
    BY DEF Startup, Bootstrap, ReadWinners, ResolveOrder, Initialize, BootstrapFails, SeedPlugin,
           EnableRequired, PrepareInstance
  <2> QED
    BY <2>1, WhenIdle
<1>2. \A p \in Plugins : Durable(FromRecords[p]) = store[p]
  <2> SUFFICES ASSUME NEW p \in Plugins PROVE Durable(FromRecords[p]) = store[p]
    OBVIOUS
  <2>1. store[p] \in Record
    BY DEF PInv, TypeOK
  <2> QED
    BY <2>1 DEF Durable, FromRecords, Record
<1>3. CASE Bootstrap(s)
  <2>1. loaded'[s] = FromRecords /\ store' = store /\ phase'[s] \in {"require", "seed"}
    BY <1>0, <1>3 DEF Bootstrap
  <2>2. Kept(s)'
    BY <1>1, <1>2, <2>1 DEF Kept
  <2> QED
    BY <2>1, <2>2, StoreStands
<1>4. CASE ReadWinners(s)
  <2>1. loaded'[s] = FromRecords /\ store' = store /\ phase'[s] = "require"
    BY <1>0, <1>4 DEF ReadWinners
  <2>2. Kept(s)'
    BY <1>1, <1>2, <2>1 DEF Kept
  <2> QED
    BY <2>1, <2>2, StoreStands
<1>5. CASE ResolveOrder(s)
  <2>1. loaded' = loaded /\ store' = store /\ phase'[s] = "load" /\ phase[s] = "require"
    BY <1>0, <1>5 DEF ResolveOrder
  <2>2. \A p \in Required : loaded[s][p].enabled
    BY <1>5 DEF ResolveOrder, EnabledIn
  <2>3. Kept(s)'
    BY <1>1, <2>1, <2>2 DEF Kept
  <2> QED
    BY <2>1, <2>3, StoreStands
<1>6. CASE Initialize(s)
  <2>1. loaded' = loaded /\ store' = store /\ phase'[s] = "up" /\ phase[s] = "load"
    BY <1>0, <1>6 DEF Initialize
  <2>2. Kept(s)'
    BY <1>1, <2>1 DEF Kept
  <2> QED
    BY <2>1, <2>2, StoreStands
<1>7. CASE BootstrapFails(s)
  <2>1. store' = store /\ phase'[s] = "down"
    BY <1>0, <1>7 DEF BootstrapFails
  <2> QED
    BY <1>1, <2>1, StoreStands, KeptOut
<1>8. ASSUME NEW p \in Plugins, SeedPlugin(s, p)
      PROVE  Kept(s)' /\ StoreStartable'
  <2>1. phase' = phase /\ phase[s] = "seed"
    BY <1>8 DEF SeedPlugin
  <2> QED
    BY <1>1, <1>8, <2>1, KeptOut, SeedRecorded
<1>9. ASSUME NEW p \in Plugins, EnableRequired(s, p)
      PROVE  Kept(s)' /\ StoreStartable'
  BY <1>9, EnableRequiredRecorded
<1>10. ASSUME NEW p \in Plugins, PrepareInstance(s, p)
       PROVE  Kept(s)' /\ StoreStartable'
  <2>1. /\ phase[s] = "load" /\ phase' = phase /\ store' = store
        /\ loaded' = [loaded EXCEPT ![s][p].instance = loads + 1]
    BY <1>10 DEF PrepareInstance
  <2> DEFINE x == [loaded[s][p] EXCEPT !.instance = loads + 1]
  <2>2. x = [version |-> loaded[s][p].version, enabled |-> loaded[s][p].enabled, instance |-> loads + 1]
    BY <1>0 DEF Managed
  <2>3. loaded' = [loaded EXCEPT ![s] = [loaded[s] EXCEPT ![p] = x]]
    BY <1>0, <2>1
  <2>4. x.version = loaded[s][p].version /\ x.enabled = loaded[s][p].enabled
    BY <2>2
  <2>5. Durable(x) = Durable(loaded[s][p])
    BY <2>4 DEF Durable
  <2> HIDE DEF x
  <2>6. \A q \in Plugins : Durable(loaded'[s][q]) = Durable(loaded[s][q]) /\ loaded'[s][q].enabled = loaded[s][q].enabled
    BY <1>0, <2>3, <2>4, <2>5
  <2>7. Required \subseteq Plugins
    BY PluginAssumption
  <2>8. \A q \in Plugins : Durable(loaded'[s][q]) = store'[q]
    BY <2>1, <2>6 DEF Kept
  <2>9. \A q \in Required : loaded'[s][q].enabled
    BY <2>1, <2>6, <2>7 DEF Kept
  <2>10. Kept(s)'
    BY <1>1, <2>1, <2>8, <2>9 DEF Kept
  <2> QED
    BY <2>1, <2>10, StoreStands
<1> QED
  BY <1>3, <1>4, <1>5, <1>6, <1>7, <1>8, <1>9, <1>10 DEF Startup

\* A server on which nothing runs any more, or whose operation ends.
LEMMA EndingsRecorded ==
    ASSUME PInv, NEW s \in Servers, Kept(s), StoreStartable,
           \/ Close(s) \/ CloseRuntime(s) \/ Crash(s) \/ PublishFails(s)
           \/ \E i \in Instances : Retire(s, i)
    PROVE  Kept(s)' /\ StoreStartable'
<1>1. /\ store' = store
      /\ phase \in [Servers -> {"down", "seed", "require", "load", "up", "closing", "closed"}]
      /\ DOMAIN op = Servers
  BY DEF PInv, TypeOK, Close, CloseRuntime, Crash, PublishFails, Abandon, Retire
<1>2. StoreStartable'
  BY <1>1, StoreStands
<1>3. CASE Close(s)
  <2>1. op' = [op EXCEPT ![s] = IF RunningIn(loaded[s]) = {} THEN Idle
                               ELSE [Idle EXCEPT !.step = "retire", !.old = RunningIn(loaded[s])]]
    BY <1>3 DEF Close
  <2>2. op'[s] = Idle \/ op'[s] = [Idle EXCEPT !.step = "retire", !.old = RunningIn(loaded[s])]
    BY <1>1, <2>1
  <2>3. [Idle EXCEPT !.step = "retire", !.old = RunningIn(loaded[s])].step = "retire"
    BY DEF Idle
  <2>4. op'[s].step # "publish" /\ phase'[s] = "closing"
    BY <1>1, <1>3, <2>2, <2>3, Nothing DEF Close
  <2> QED
    BY <1>2, <2>4, KeptOut
<1>4. CASE CloseRuntime(s)
  <2>1. op'[s].step # "publish" /\ phase'[s] = "closed"
    BY <1>1, <1>4 DEF CloseRuntime
  <2> QED
    BY <1>2, <2>1, KeptOut
<1>5. CASE Crash(s)
  <2>1. op'[s] = Idle /\ phase'[s] = "down"
    BY <1>1, <1>5 DEF Crash
  <2> QED
    BY <1>2, <2>1, KeptOut, Nothing
<1>6. CASE PublishFails(s)
  <2>1. op'[s] = Idle /\ phase' = phase /\ loaded' = loaded
    BY <1>1, <1>6 DEF PublishFails, Abandon
  <2> QED
    BY <1>1, <1>2, <2>1, KeptSteps, Nothing
<1>7. ASSUME NEW i \in Instances, Retire(s, i)
      PROVE  Kept(s)' /\ StoreStartable'
  <2>1. /\ op' = [op EXCEPT ![s] = IF op[s].old = {i} THEN Idle
                                   ELSE [op[s] EXCEPT !.old = op[s].old \ {i}]]
        /\ op[s].step = "retire" /\ phase' = phase /\ loaded' = loaded
    BY <1>7 DEF Retire
  <2>2. op'[s] = Idle \/ op'[s] = [op[s] EXCEPT !.old = op[s].old \ {i}]
    BY <1>1, <2>1
  <2>3. op[s] \in [step : {"idle", "publish", "retire"}, id : Plugins, item : Managed,
                   archive : BOOLEAN, old : SUBSET (1..loads)]
    BY DEF PInv, TypeOK
  <2>4. [op[s] EXCEPT !.old = op[s].old \ {i}].step = "retire"
    BY <2>1, <2>3
  <2>5. op'[s].step # "publish"
    BY <2>2, <2>4, Nothing
  <2> QED
    BY <1>1, <1>2, <2>1, <2>5, KeptSteps
<1> QED
  BY <1>3, <1>4, <1>5, <1>6, <1>7

\* Renders and drain goroutines touch neither.
LEMMA LeasesRecorded ==
    ASSUME NEW s \in Servers, Kept(s), StoreStartable,
           \/ \E r \in Renders : AcquireRenderPlan(r, s) \/ \E i \in entries[s] : AcquireEntry(r, s, i)
           \/ \E r \in Renders : \E i \in held[r] : Release(r, i)
           \/ \E i \in Instances : CloseDrained(i)
           \/ UNCHANGED vars
    PROVE  Kept(s)' /\ StoreStartable'
<1>1. store' = store /\ phase' = phase /\ loaded' = loaded /\ op' = op
  BY DEF AcquireRenderPlan, AcquireEntry, Release, CloseDrained, vars
<1> QED
  BY <1>1, StoreStands, KeptStands

\* With one server, a step before which no reply was lost keeps the two in step.
LEMMA StepRecorded ==
    ASSUME EmbeddedStandAlone, NEW s, Servers = {s}, RInv, [Next]_vars
    PROVE  RInv'
<1>1. PInv'
  BY StepKeeps DEF RInv
<1>2. ASSUME lost' = 0
      PROVE  Kept(s)' /\ StoreStartable'
  <2>0. lost = 0
    <3>1. lost \in Nat /\ (lost' = lost \/ lost' = lost + 1)
      <4>1. lost \in Nat
        BY PluginAssumption DEF RInv, PInv, TypeOK
      <4>2. CASE UNCHANGED vars
        BY <4>1, <4>2 DEF vars
      <4>3. ASSUME NEW t \in Servers, Lifecycle(t)
            PROVE  lost' = lost \/ lost' = lost + 1
        BY <4>3 DEF Lifecycle, Enable, Disable, Uninstall, Install, Upgrade, Prepare, Begin, Close,
           CloseRuntime, PublishUnanswered
      <4>4. ASSUME NEW t \in Servers, Operation(t) \/ Startup(t) \/ Bootstrap(t) \/ Crash(t)
            PROVE  lost' = lost
        BY <4>4 DEF Operation, Startup, Publish, PublishFails, Retire, ReadWinners, ResolveOrder, Initialize,
           BootstrapFails, SeedPlugin, EnableRequired, PrepareInstance, Bootstrap, Crash
      <4>5. CASE \/ \E t \in Servers : \E r \in Renders :
                       AcquireRenderPlan(r, t) \/ \E i \in entries[t] : AcquireEntry(r, t, i)
                 \/ \E r \in Renders : \E i \in held[r] : Release(r, i)
                 \/ \E i \in Instances : CloseDrained(i)
        BY <4>1, <4>5 DEF AcquireRenderPlan, AcquireEntry, Release, CloseDrained
      <4> QED
        BY <4>1, <4>2, <4>3, <4>4, <4>5 DEF Next
    <3> QED
      BY <1>2, <3>1
  <2>1. s \in Servers /\ PInv /\ Kept(s) /\ StoreStartable
    BY <2>0 DEF RInv, Recorded
  <2>2. CASE Lifecycle(s)
    <3>1. ~PublishUnanswered(s)
      BY <1>2, <2>0 DEF PublishUnanswered
    <3>2. CASE Close(s) \/ CloseRuntime(s)
      BY <2>1, <3>2, EndingsRecorded
    <3> QED
      BY <2>1, <2>2, <3>1, <3>2, OperationsBegin DEF Lifecycle
  <2>3. CASE Operation(s)
    BY <2>1, <2>3, PublishRecorded, EndingsRecorded DEF Operation
  <2>4. CASE Startup(s) \/ Bootstrap(s)
    BY <2>1, <2>4, StartsRecorded
  <2>5. CASE Crash(s)
    BY <2>1, <2>5, EndingsRecorded
  <2>6. CASE \/ \E r \in Renders : AcquireRenderPlan(r, s) \/ \E i \in entries[s] : AcquireEntry(r, s, i)
             \/ \E r \in Renders : \E i \in held[r] : Release(r, i)
             \/ \E i \in Instances : CloseDrained(i)
             \/ UNCHANGED vars
    BY <2>1, <2>6, LeasesRecorded
  <2> QED
    BY <2>2, <2>3, <2>4, <2>5, <2>6 DEF Next
<1>3. Recorded'
  BY <1>2 DEF Recorded
<1> QED
  BY <1>1, <1>3 DEF RInv

\* While no commit lost its reply, what a single server lists between its operations is
\* what the database holds and a restart can load, whatever failed or crashed before
\* (Bootstrap, publish): if what is embedded needs nothing else to run.
THEOREM RestartsFindWhatRan ==
    ASSUME EmbeddedStandAlone, NEW s, Servers = {s}
    PROVE  Spec => []RestartsAsIs
<1>1. Init => RInv
  <2> SUFFICES ASSUME Init PROVE RInv
    OBVIOUS
  <2>1. StoreStartable
    BY DEF Init, StoreStartable
  <2>2. \A t \in Servers : Kept(t)
    BY Nothing DEF Init, Kept
  <2> QED
    BY <2>1, <2>2, InitSound DEF RInv, Recorded
<1>2. RInv /\ [Next]_vars => RInv'
  BY StepRecorded
<1>3. RInv => RestartsAsIs
  BY DEF RInv, Recorded, Kept, RestartsAsIs
<1> QED
  BY <1>1, <1>2, <1>3, PTL DEF Spec
=============================================================================
