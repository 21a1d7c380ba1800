----------------------------- MODULE SandboxProofs -----------------------------
(***************************************************************************)
(* That compiled code is open exactly as long as it is retained or leased, *)
(* that guests are used by one call at a time and never again after one    *)
(* went wrong, and that what a plugin writes replaces what it had read,    *)
(* for any instances, callers, limits and pages.  After that, that what is *)
(* configured for a plugin (PluginSettings) stays sound and within its     *)
(* quota, that renames lose nothing, and that the headers of the PDF       *)
(* service (ApplicationSettings) are those of one form, for any features,  *)
(* names, keys, types of fields, quotas and forms.                         *)
(***************************************************************************)
EXTENDS Sandbox, ApplicationSettings, FiniteSetTheorems, SequenceTheorems, TLAPS

Entry == [binary : {Binary[i] : i \in Instances}, refs : Nat, retired : BOOLEAN, open : BOOLEAN]

Instance == [phase : {"absent", "waiting", "compiling", "initializing", "loaded", "failed", "closed"},
             lease : Nat, guest : Nat]

Call == [step : {"none", "gate", "ensure", "execute", "http", "update", "render"},
         on : Instances \cup {Nil}, stage : RenderStages \cup OwnStages \cup {Nil},
         remaining : 0..Quota, nested : BOOLEAN, expected : Nat, meta : Nat, tags : BOOLEAN]

Page == [version : Nat, meta : Nat, tags : BOOLEAN]

Typed ==
    /\ entries \in Seq(Entry) /\ retained \in Seq(Nat) /\ compiling \in Instances \cup {Nil}
    /\ inst \in [Instances -> Instance]
    /\ gate \in [Instances -> Callers \cup {"close", Nil}]
    /\ guests \in 0..MaxGuests /\ spoilt \subseteq 1..guests
    /\ call \in [Callers -> Call]
    /\ active \subseteq Callers /\ IsFiniteSet(active) /\ Cardinality(active) <= HTTPLimit
    /\ page.version \in 1..(MaxEdits + 1) /\ page.meta \in 1..page.version
    /\ page \in Page
    /\ calls \in 0..MaxCalls

\* The cache keeps the entries that are not retired, and an instance has a lease
\* from the look that finds its code, or has compiled it, to its close.
Cached ==
    /\ Len(retained) <= RetainedLimit
    /\ \A n \in DOMAIN retained : retained[n] \in Entries
    /\ \A k \in Entries : ~entries[k].retired <=> \E n \in DOMAIN retained : retained[n] = k
    /\ \A i \in Instances :
          /\ inst[i].lease \in Entries \cup {0}
          /\ inst[i].phase \in {"absent", "waiting", "compiling"} => inst[i].lease = 0
          /\ inst[i].phase = "initializing" => inst[i].lease # 0

\* A caller has the gate of the instance its call is on, and no other, from the
\* moment it is admitted.
Admitted ==
    \A c \in Callers :
        /\ call[c].step \in {"gate", "ensure"} \cup InGuest => call[c].on \in Instances
        /\ call[c].step \in {"ensure"} \cup InGuest =>
              \A i \in Instances : gate[i] = c <=> i = call[c].on
        /\ call[c].step \in {"none", "gate", "render"} => \A i \in Instances : gate[i] # c
        /\ Running(c) => Guest(c) # 0

\* A guest belongs to one instance and has not gone wrong.
Fresh ==
    \A i \in Instances :
        /\ inst[i].guest \in 0..guests /\ inst[i].guest \notin spoilt
        /\ \A j \in Instances \ {i} : inst[i].guest # 0 => inst[i].guest # inst[j].guest

\* Whoever expects the version that stands has seen the metadata that stand.
Reads ==
    \A c \in Callers :
        /\ call[c].expected \in 0..page.version
        /\ call[c].step = "update" /\ call[c].expected = page.version => call[c].meta = page.meta

SInv == Typed /\ Cached /\ CompiledCodeIsLeased /\ Admitted /\ Fresh /\ Reads
-----------------------------------------------------------------------------
(* Sequences and leases *)

LEMMA Counts ==
    ASSUME NEW S \in SUBSET Instances, NEW i \in Instances
    PROVE  /\ Cardinality(S) \in Nat /\ Cardinality(S) <= Cardinality(Instances)
           /\ Cardinality(Instances) \in Nat
           /\ Cardinality(S) = 0 <=> S = {}
           /\ Cardinality(S \cup {i}) = IF i \in S THEN Cardinality(S) ELSE Cardinality(S) + 1
           /\ Cardinality(S \ {i}) = IF i \in S THEN Cardinality(S) - 1 ELSE Cardinality(S)
<1>1. IsFiniteSet(Instances) /\ IsFiniteSet(S) /\ Cardinality(S) <= Cardinality(Instances)
  BY SandboxAssumption, FS_Subset
<1>2. Cardinality(S) \in Nat /\ Cardinality(Instances) \in Nat
  BY <1>1, FS_CardinalityType
<1>3. Cardinality(S) = 0 <=> S = {}
  BY <1>1, FS_EmptySet
<1>4. Cardinality(S \cup {i}) = IF i \in S THEN Cardinality(S) ELSE Cardinality(S) + 1
  <2>1. /\ IsFiniteSet(S \cup {i})
        /\ Cardinality(S \cup {i}) = IF i \in S THEN Cardinality(S) ELSE Cardinality(S) + 1
    BY <1>1, FS_AddElement
  <2> QED
    BY <2>1
<1>5. Cardinality(S \ {i}) = IF i \in S THEN Cardinality(S) - 1 ELSE Cardinality(S)
  <2>1. /\ IsFiniteSet(S \ {i})
        /\ Cardinality(S \ {i}) = IF i \in S THEN Cardinality(S) - 1 ELSE Cardinality(S)
    BY <1>1, FS_RemoveElement
  <2> QED
    BY <2>1
<1> QED
  BY <1>1, <1>2, <1>3, <1>4, <1>5

\* Without takes one element out; Append puts it at the end.
LEMMA Promoted ==
    ASSUME NEW S, NEW s \in Seq(S), NEW n \in 1..Len(s)
    PROVE  LET t == Append(Without(s, n), s[n]) IN
           /\ t \in Seq(S) /\ Len(t) = Len(s)
           /\ \A j \in 1..Len(s) :
                 t[j] = IF j < n THEN s[j] ELSE IF j < Len(s) THEN s[j + 1] ELSE s[n]
<1> DEFINE a == SubSeq(s, 1, n - 1)
           b == SubSeq(s, n + 1, Len(s))
<1>0. Len(s) \in Nat /\ n \in Int /\ 1 <= n /\ n <= Len(s) /\ \A j \in 1..Len(s) : s[j] \in S
  BY LenProperties, ElementOfSeq
<1>1. a \in Seq(S) /\ Len(a) = n - 1 /\ \A j \in 1..(n - 1) : a[j] = s[j]
  <2>1. \A j \in 1..(n - 1) : s[j] \in S
    BY <1>0
  <2> QED
    BY <1>0, <2>1, SubSeqProperties
<1>2. b \in Seq(S) /\ Len(b) = Len(s) - n /\ \A j \in 1..(Len(s) - n) : b[j] = s[n + j]
  <2>1. \A j \in (n + 1)..Len(s) : s[j] \in S
    BY <1>0
  <2>2. /\ b \in Seq(S) /\ Len(b) = IF n + 1 <= Len(s) THEN Len(s) - (n + 1) + 1 ELSE 0
        /\ \A j \in 1..(Len(s) - (n + 1) + 1) : b[j] = s[n + 1 + j - 1]
    BY <1>0, <2>1, SubSeqProperties
  <2> QED
    BY <1>0, <2>2
<1> HIDE DEF a, b
<1>3. /\ a \o b \in Seq(S) /\ Len(a \o b) = Len(s) - 1
      /\ \A j \in 1..(Len(s) - 1) : (a \o b)[j] = IF j < n THEN s[j] ELSE s[j + 1]
  <2>1. /\ a \o b \in Seq(S) /\ Len(a \o b) = Len(a) + Len(b)
        /\ \A j \in 1..(Len(a) + Len(b)) : (a \o b)[j] = IF j <= Len(a) THEN a[j] ELSE b[j - Len(a)]
    BY <1>1, <1>2, ConcatProperties
  <2> QED
    BY <1>0, <1>1, <1>2, <2>1
<1>4. Without(s, n) = a \o b
  BY DEF Without, a, b
<1> DEFINE w == a \o b
           t == Append(w, s[n])
<1>5. s[n] \in S /\ w \in Seq(S) /\ Len(w) = Len(s) - 1
  BY <1>0, <1>3
<1> HIDE DEF w
<1>6. t \in Seq(S) /\ Len(t) = Len(s) /\ t[Len(s)] = s[n] /\ \A j \in 1..(Len(s) - 1) : t[j] = w[j]
  BY <1>0, <1>5
<1> HIDE DEF t
<1>7. \A j \in 1..Len(s) : t[j] = IF j < n THEN s[j] ELSE IF j < Len(s) THEN s[j + 1] ELSE s[n]
  <2>1. \A j \in 1..(Len(s) - 1) : w[j] = IF j < n THEN s[j] ELSE s[j + 1]
    BY <1>3 DEF w
  <2> TAKE j \in 1..Len(s)
  <2>2. CASE j = Len(s)
    BY <1>0, <1>6, <2>2
  <2>3. CASE j # Len(s)
    <3>1. j \in 1..(Len(s) - 1) /\ j < Len(s)
      BY <1>0, <2>3
    <3> QED
      BY <1>6, <2>1, <3>1
  <2> QED
    BY <2>2, <2>3
<1> QED
  BY <1>4, <1>6, <1>7 DEF t, w

LEMMA Appended ==
    ASSUME NEW S, NEW s \in Seq(S), NEW e \in S
    PROVE  /\ Append(s, e) \in Seq(S) /\ Len(Append(s, e)) = Len(s) + 1 /\ Len(s) \in Nat
           /\ Append(s, e)[Len(s) + 1] = e
           /\ \A j \in 1..Len(s) : Append(s, e)[j] = s[j]
  OBVIOUS

\* The instance i has lease l from now on, the others the one they had.
LEMMA LeaseMoves ==
    ASSUME NEW i \in Instances, NEW l, inst'[i].lease = l,
           \A j \in Instances \ {i} : inst'[j].lease = inst[j].lease
    PROVE  \A k : Leasing(k)' = IF k = l THEN Leasing(k) \cup {i} ELSE Leasing(k) \ {i}
  BY DEF Leasing

\* What the invariant says of the entries and the code's leases.
LEMMA CacheFacts ==
    ASSUME SInv
    PROVE  /\ entries \in Seq(Entry) /\ retained \in Seq(Nat) /\ inst \in [Instances -> Instance]
           /\ Len(entries) \in Nat /\ Len(retained) \in Nat
           /\ DOMAIN entries = 1..Len(entries) /\ DOMAIN retained = 1..Len(retained)
           /\ \A k \in Entries :
                 /\ entries[k] \in Entry /\ entries[k].refs = Cardinality(Leasing(k))
                 /\ entries[k].open <=> ~entries[k].retired \/ Leasing(k) # {}
                 /\ ~entries[k].retired <=> \E n \in DOMAIN retained : retained[n] = k
           /\ \A n \in DOMAIN retained : retained[n] \in Entries /\ retained[n] \in Nat
           /\ \A m, n \in DOMAIN retained :
                 entries[retained[m]].binary = entries[retained[n]].binary => m = n
<1>1. entries \in Seq(Entry) /\ retained \in Seq(Nat) /\ inst \in [Instances -> Instance]
  BY DEF SInv, Typed
<1>2. /\ Len(entries) \in Nat /\ Len(retained) \in Nat
      /\ DOMAIN entries = 1..Len(entries) /\ DOMAIN retained = 1..Len(retained)
  BY <1>1, LenProperties
<1>3. \A k \in Entries : entries[k] \in Entry
  BY <1>1, ElementOfSeq DEF Entries
<1> QED
  BY <1>1, <1>2, <1>3 DEF SInv, Cached, CompiledCodeIsLeased, Entries

\* Everything that leaves the code and its leases alone.
LEMMA CacheAlone ==
    ASSUME SInv, UNCHANGED <<retained, entries>>,
           \A i \in Instances : inst'[i].lease = inst[i].lease,
           \A i \in Instances :
              /\ inst'[i].phase \in {"absent", "waiting", "compiling"} => inst[i].lease = 0
              /\ inst'[i].phase = "initializing" => inst[i].lease # 0
    PROVE  Cached' /\ CompiledCodeIsLeased'
<1>1. \A k : Leasing(k)' = Leasing(k)
  BY DEF Leasing
<1>2. Cached'
  BY DEF SInv, Cached, Entries
<1>3. CompiledCodeIsLeased'
  BY <1>1 DEF SInv, CompiledCodeIsLeased, Entries
<1> QED
  BY <1>2, <1>3

\* A look into the cache finds the code.
LEMMA LeaseTaken ==
    ASSUME SInv, NEW i \in Instances, inst[i].lease = 0, NEW n \in DOMAIN retained,
           retainedLease(i, n)
    PROVE  /\ Cached' /\ CompiledCodeIsLeased'
           /\ entries' \in Seq(Entry) /\ retained' \in Seq(Nat) /\ inst' \in [Instances -> Instance]
           /\ \A j \in Instances : inst'[j].guest = inst[j].guest
<1> PICK k : k = retained[n]
  OBVIOUS
<1> DEFINE e == [entries[k] EXCEPT !.refs = entries[k].refs + 1]
           x == [inst[i] EXCEPT !.phase = "initializing", !.lease = k]
<1>0. /\ entries \in Seq(Entry) /\ retained \in Seq(Nat) /\ inst \in [Instances -> Instance]
      /\ Len(entries) \in Nat /\ Len(retained) \in Nat
      /\ DOMAIN entries = 1..Len(entries) /\ DOMAIN retained = 1..Len(retained)
      /\ k \in 1..Len(entries) /\ k \in Nat /\ entries[k] \in Entry /\ n \in 1..Len(retained)
      /\ entries[k].refs = Cardinality(Leasing(k))
      /\ ~entries[k].retired
  BY CacheFacts DEF Entries
<1>a. k = retained[n]
  OBVIOUS
<1>1. e \in Entry /\ e.refs = entries[k].refs + 1 /\ e.binary = entries[k].binary
      /\ e.retired = entries[k].retired /\ e.open = entries[k].open
  <2> DEFINE o == entries[k]
  <2>1. o \in Entry
    BY <1>0
  <2> HIDE DEF o
  <2>2. o.refs \in Nat /\ o.refs + 1 \in Nat
    BY <2>1 DEF Entry
  <2>3. LET r == [o EXCEPT !.refs = o.refs + 1] IN
        /\ r \in Entry /\ r.refs = o.refs + 1 /\ r.binary = o.binary
        /\ r.retired = o.retired /\ r.open = o.open
    BY <2>1, <2>2 DEF Entry
  <2> QED
    BY <2>3 DEF e, o
<1>2. x \in Instance /\ x.phase = "initializing" /\ x.lease = k /\ x.guest = inst[i].guest
  BY <1>0 DEF Instance
<1>3. /\ entries' = [entries EXCEPT ![k] = e] /\ inst' = [inst EXCEPT ![i] = x]
      /\ retained' = Append(Without(retained, n), k)
  BY <1>0 DEF retainedLease
<1> HIDE DEF e, x
<1>4. /\ entries' \in Seq(Entry) /\ Len(entries') = Len(entries) /\ entries'[k] = e
      /\ \A m \in 1..Len(entries) : m # k => entries'[m] = entries[m]
  BY <1>0, <1>1, <1>3, ExceptSeq
<1>5. /\ retained' \in Seq(Nat) /\ Len(retained') = Len(retained)
      /\ \A j \in 1..Len(retained) : retained'[j] =
             retained[IF j < n THEN j ELSE IF j < Len(retained) THEN j + 1 ELSE n]
  <2>1. LET t == Append(Without(retained, n), retained[n]) IN
           /\ t \in Seq(Nat) /\ Len(t) = Len(retained)
           /\ \A j \in 1..Len(retained) :
                 t[j] = IF j < n THEN retained[j]
                        ELSE IF j < Len(retained) THEN retained[j + 1] ELSE retained[n]
    BY <1>0, Promoted
  <2> QED
    BY <1>3, <2>1
<1>6. /\ inst' \in [Instances -> Instance] /\ inst'[i] = x
      /\ \A j \in Instances \ {i} : inst'[j] = inst[j]
  BY <1>0, <1>2, <1>3
<1>7. \A m : Leasing(m)' = IF m = k THEN Leasing(m) \cup {i} ELSE Leasing(m) \ {i}
  BY <1>2, <1>6, LeaseMoves
<1>8. i \notin Leasing(k) /\ \A m \in 1..Len(entries) : i \notin Leasing(m)
  BY <1>0 DEF Leasing
<1>9. DOMAIN retained' = 1..Len(retained) /\ Entries' = 1..Len(entries)
  BY <1>4, <1>5, LenProperties DEF Entries
<1>10. CompiledCodeIsLeased'
  <2>1. ASSUME NEW m \in 1..Len(entries)
        PROVE  /\ entries'[m].refs = Cardinality(Leasing(m)')
               /\ entries'[m].open <=> ~entries'[m].retired \/ Leasing(m)' # {}
    <3>0. Leasing(m) \in SUBSET Instances
      BY DEF Leasing
    <3>1. CASE m = k
      <4>1. Leasing(k)' = Leasing(k) \cup {i} /\ i \notin Leasing(k)
        BY <1>7, <1>8
      <4>2. Cardinality(Leasing(k) \cup {i}) = Cardinality(Leasing(k)) + 1
        BY <3>0, <3>1, <4>1, Counts
      <4>3. entries'[k].open /\ ~entries'[k].retired /\ Leasing(k)' # {}
        BY <1>0, <1>1, <1>4, <4>1, CacheFacts DEF Entries
      <4>4. entries'[k].refs = Cardinality(Leasing(k)')
        BY <1>0, <1>1, <1>4, <4>1, <4>2
      <4> QED
        BY <3>1, <4>3, <4>4
    <3>2. CASE m # k
      <4>1. Leasing(m)' = Leasing(m)
        BY <1>7, <1>8, <3>2
      <4>2. entries'[m] = entries[m]
        BY <1>4, <3>2
      <4>3. /\ entries[m].refs = Cardinality(Leasing(m))
            /\ entries[m].open <=> ~entries[m].retired \/ Leasing(m) # {}
        BY CacheFacts DEF Entries
      <4> QED
        BY <4>1, <4>2, <4>3
    <3> QED
      BY <3>1, <3>2
  <2>2. \A m \in 1..Len(entries) : entries'[m].binary = entries[m].binary
    BY <1>1, <1>4
  <2>3. ASSUME NEW p \in 1..Len(retained), NEW q \in 1..Len(retained),
               entries'[retained'[p]].binary = entries'[retained'[q]].binary
        PROVE  p = q
    <3> DEFINE f(j) == IF j < n THEN j ELSE IF j < Len(retained) THEN j + 1 ELSE n
    <3>1. \A j \in 1..Len(retained) : f(j) \in 1..Len(retained)
      BY <1>0
    <3>4. ASSUME NEW a \in 1..Len(retained), NEW b \in 1..Len(retained), f(a) = f(b)
          PROVE  a = b
      <4>1. a \in Int /\ b \in Int /\ n \in Int /\ Len(retained) \in Int
        BY <1>0
      <4>2. 1 <= a /\ a <= Len(retained) /\ 1 <= b /\ b <= Len(retained) /\ 1 <= n
        BY <1>0
      <4> DEFINE L == Len(retained)
      <4>3. \A x1, y1, z1, w1 \in Int : (1 <= x1 /\ x1 <= w1 /\ 1 <= y1 /\ y1 <= w1 /\ 1 <= z1 /\ z1 <= w1
                /\ (IF x1 < z1 THEN x1 ELSE IF x1 < w1 THEN x1 + 1 ELSE z1)
                     = (IF y1 < z1 THEN y1 ELSE IF y1 < w1 THEN y1 + 1 ELSE z1)) => x1 = y1
        OBVIOUS
      <4>4. n <= L
        BY <1>0
      <4> QED
        BY <3>4, <4>1, <4>2, <4>3, <4>4
    <3>5. \A j \in 1..Len(retained) : retained'[j] = retained[f(j)]
      BY <1>5
    <3> HIDE DEF f
    <3>2. /\ f(p) \in 1..Len(retained) /\ f(q) \in 1..Len(retained)
          /\ retained'[p] = retained[f(p)] /\ retained'[q] = retained[f(q)]
      BY <3>1, <3>5
    <3>6. retained[f(p)] \in 1..Len(entries) /\ retained[f(q)] \in 1..Len(entries)
      BY <1>0, <3>2, CacheFacts DEF Entries
    <3>7. entries[retained[f(p)]].binary = entries[retained[f(q)]].binary
      BY <2>2, <2>3, <3>2, <3>6
    <3>3. f(p) = f(q)
      BY <1>0, <3>2, <3>7, CacheFacts
    <3> QED
      BY <3>3, <3>4
  <2> QED
    BY <1>9, <2>1, <2>3 DEF CompiledCodeIsLeased
<1>11. Cached'
  <2>1. Len(retained') <= RetainedLimit
    BY <1>5 DEF SInv, Cached
  <2>2. \A j \in 1..Len(retained) : retained'[j] \in 1..Len(entries)
    <3>1. \A j \in 1..Len(retained) : retained[j] \in 1..Len(entries)
      BY <1>0, CacheFacts DEF Entries
    <3>2. \A j \in 1..Len(retained) :
             (IF j < n THEN j ELSE IF j < Len(retained) THEN j + 1 ELSE n) \in 1..Len(retained)
      BY <1>0
    <3> QED
      BY <1>5, <3>1, <3>2
  <2>3. ASSUME NEW m \in 1..Len(entries)
        PROVE  ~entries'[m].retired <=> \E j \in 1..Len(retained) : retained'[j] = m
    <3>1. entries'[m].retired <=> entries[m].retired
      BY <1>1, <1>4
    <3>2. ~entries[m].retired <=> \E j \in 1..Len(retained) : retained[j] = m
      BY <1>0, CacheFacts DEF Entries
    <3>3. ASSUME NEW j \in 1..Len(retained) PROVE \E h \in 1..Len(retained) : retained'[h] = retained[j]
      <4>1. CASE j < n
        BY <1>0, <1>5, <4>1
      <4>2. CASE j = n
        <5>0. Len(retained) \in 1..Len(retained) /\ ~(Len(retained) < n) /\ ~(Len(retained) < Len(retained))
          BY <1>0
        <5>1. retained'[Len(retained)] = retained[n]
          BY <1>5, <5>0
        <5> QED
          BY <1>0, <4>2, <5>1
      <4>3. CASE j > n
        <5>0. j \in Int /\ n \in Int /\ 1 <= n /\ j <= Len(retained)
          BY <1>0
        <5>1. j - 1 \in 1..Len(retained) /\ ~(j - 1 < n) /\ j - 1 < Len(retained) /\ (j - 1) + 1 = j
          BY <1>0, <4>3, <5>0
        <5>2. retained'[j - 1] = retained[(j - 1) + 1]
          BY <1>5, <5>1
        <5> QED
          BY <5>1, <5>2
      <4> QED
        BY <1>0, <4>1, <4>2, <4>3
    <3>4. ASSUME NEW j \in 1..Len(retained) PROVE \E h \in 1..Len(retained) : retained'[j] = retained[h]
      <4>1. (IF j < n THEN j ELSE IF j < Len(retained) THEN j + 1 ELSE n) \in 1..Len(retained)
        BY <1>0
      <4> QED
        BY <1>5, <4>1
    <3>5. ASSUME NEW j \in 1..Len(retained), retained[j] = m
          PROVE  \E h \in 1..Len(retained) : retained'[h] = m
      BY <3>3, <3>5
    <3>6. ASSUME NEW j \in 1..Len(retained), retained'[j] = m
          PROVE  \E h \in 1..Len(retained) : retained[h] = m
      BY <3>4, <3>6
    <3> QED
      BY <3>1, <3>2, <3>5, <3>6
  <2>4. ASSUME NEW j \in Instances
        PROVE  /\ inst'[j].lease \in 1..Len(entries) \cup {0}
               /\ inst'[j].phase \in {"absent", "waiting", "compiling"} => inst'[j].lease = 0
               /\ inst'[j].phase = "initializing" => inst'[j].lease # 0
    <3>1. CASE j = i
      <4>1. k # 0
        BY <1>0
      <4> QED
        BY <1>0, <1>2, <1>6, <3>1, <4>1
    <3>2. CASE j # i
      BY <1>6, <3>2 DEF SInv, Cached, Entries
    <3> QED
      BY <3>1, <3>2
  <2> QED
    BY <1>9, <2>1, <2>2, <2>3, <2>4 DEF Cached
<1> QED
  BY <1>2, <1>4, <1>5, <1>6, <1>10, <1>11
\* A lease ends: code that is retired is closed by the last one.
LEMMA LeaseReleased ==
    ASSUME SInv, NEW i \in Instances, inst[i].lease # 0, releaseRetiredCode(inst[i].lease),
           retained' = retained, inst'[i].lease = 0, inst'[i].phase # "initializing",
           \A j \in Instances \ {i} : inst'[j] = inst[j]
    PROVE  Cached' /\ CompiledCodeIsLeased' /\ entries' \in Seq(Entry)
<1> PICK k : k = inst[i].lease
  OBVIOUS
<1>0. /\ entries \in Seq(Entry) /\ Len(entries) \in Nat /\ DOMAIN entries = 1..Len(entries)
      /\ k \in 1..Len(entries) /\ entries[k] \in Entry /\ k # 0
      /\ entries[k].refs = Cardinality(Leasing(k)) /\ i \in Leasing(k)
      /\ entries[k].open <=> ~entries[k].retired \/ Leasing(k) # {}
  <2>1. entries \in Seq(Entry) /\ Len(entries) \in Nat /\ DOMAIN entries = 1..Len(entries)
    BY CacheFacts
  <2>2. k \in Entries /\ k # 0
    BY DEF SInv, Cached
  <2>3. i \in Leasing(k)
    BY DEF Leasing
  <2> QED
    BY <2>1, <2>2, <2>3, CacheFacts DEF Entries
<1>1. Leasing(k) \in SUBSET Instances
  BY DEF Leasing
<1>2. /\ Cardinality(Leasing(k) \ {i}) = Cardinality(Leasing(k)) - 1
      /\ Cardinality(Leasing(k) \ {i}) \in Nat /\ Cardinality(Leasing(k)) \in Nat
      /\ Cardinality(Leasing(k) \ {i}) = 0 <=> Leasing(k) \ {i} = {}
  <2>1. Leasing(k) \ {i} \in SUBSET Instances
    BY <1>1
  <2> QED
    BY <1>0, <1>1, <2>1, Counts
<1>3. /\ entries' \in Seq(Entry) /\ Len(entries') = Len(entries)
      /\ entries'[k].binary = entries[k].binary /\ entries'[k].retired = entries[k].retired
      /\ entries'[k].refs = entries[k].refs - 1
      /\ entries'[k].open <=> entries[k].open /\ ~(entries[k].retired /\ entries[k].refs = 1)
      /\ \A m \in 1..Len(entries) : m # k => entries'[m] = entries[m]
  <2> DEFINE o == entries[k]
             w == o.open /\ ~(o.retired /\ o.refs = 1)
             e == [binary |-> o.binary, refs |-> o.refs - 1, retired |-> o.retired, open |-> w]
  <2>1. o.refs - 1 \in Nat /\ o \in Entry /\ o.retired \in BOOLEAN /\ o.binary \in {Binary[j] : j \in Instances}
    BY <1>0, <1>2 DEF Entry
  <2>2. w \in BOOLEAN
    OBVIOUS
  <2> HIDE DEF w
  <2>3. e \in Entry
    BY <2>1, <2>2 DEF Entry
  <2>4. [[o EXCEPT !.refs = o.refs - 1] EXCEPT !.open = w] = e
    <3> DEFINE a1 == o.binary
               a2 == o.refs
               a3 == o.retired
               a4 == o.open
    <3>1. o = [binary |-> a1, refs |-> a2, retired |-> a3, open |-> a4]
      BY <2>1 DEF Entry
    <3> HIDE DEF o, a1, a2, a3, a4
    <3> DEFINE x == [o EXCEPT !.refs = a2 - 1]
    <3>2. x = [binary |-> a1, refs |-> a2 - 1, retired |-> a3, open |-> a4]
      BY <3>1
    <3> HIDE DEF x
    <3>3. [x EXCEPT !.open = w] = [binary |-> a1, refs |-> a2 - 1, retired |-> a3, open |-> w]
      BY <3>2
    <3> QED
      BY <3>3 DEF x, a1, a2, a3
  <2>5. entries' = [entries EXCEPT ![k] = e]
    <3>1. entries' = [entries EXCEPT ![k] = [[o EXCEPT !.refs = o.refs - 1] EXCEPT !.open = w]]
      BY <1>0, <2>1 DEF releaseRetiredCode, w, Entry
    <3> QED
      BY <2>4, <3>1
  <2>6. e.binary = o.binary /\ e.retired = o.retired /\ e.refs = o.refs - 1 /\ e.open = w
    OBVIOUS
  <2> HIDE DEF e
  <2>7. /\ entries' \in Seq(Entry) /\ Len(entries') = Len(entries) /\ entries'[k] = e
        /\ \A m \in 1..Len(entries) : m # k => entries'[m] = entries[m]
    BY <1>0, <2>3, <2>5, ExceptSeq
  <2> QED
    BY <2>6, <2>7 DEF w
<1>4. \A m \in 1..Len(entries) : Leasing(m)' = IF m = k THEN Leasing(k) \ {i} ELSE Leasing(m)
  BY <1>0 DEF Leasing
<1>5. Entries' = 1..Len(entries)
  BY <1>3 DEF Entries
<1>6. CompiledCodeIsLeased'
  <2>1. ASSUME NEW m \in 1..Len(entries)
        PROVE  /\ entries'[m].refs = Cardinality(Leasing(m)')
               /\ entries'[m].open <=> ~entries'[m].retired \/ Leasing(m)' # {}
    <3>1. CASE m = k
      <4>1. Leasing(k)' = Leasing(k) \ {i}
        BY <1>0, <1>4
      <4>2. entries'[k].refs = Cardinality(Leasing(k)')
        BY <1>0, <1>2, <1>3, <4>1
      <4>3. entries[k].refs = 1 <=> Leasing(k)' = {}
        BY <1>0, <1>2, <4>1
      <4>4. Leasing(k) # {}
        BY <1>0
      <4> QED
        BY <1>0, <1>3, <3>1, <4>2, <4>3, <4>4
    <3>2. CASE m # k
      <4>1. Leasing(m)' = Leasing(m) /\ entries'[m] = entries[m]
        BY <1>3, <1>4, <3>2
      <4> QED
        BY <4>1, CacheFacts DEF Entries
    <3> QED
      BY <3>1, <3>2
  <2>2. \A m \in 1..Len(entries) : entries'[m].binary = entries[m].binary
    BY <1>3
  <2>3. \A n \in DOMAIN retained : retained[n] \in 1..Len(entries)
    BY CacheFacts DEF Entries
  <2>4. ASSUME NEW m \in DOMAIN retained', NEW n \in DOMAIN retained',
               entries'[retained'[m]].binary = entries'[retained'[n]].binary
        PROVE  m = n
    <3>1. m \in DOMAIN retained /\ n \in DOMAIN retained
      OBVIOUS
    <3>2. entries[retained[m]].binary = entries[retained[n]].binary
      BY <2>2, <2>3, <2>4, <3>1
    <3> QED
      BY <3>1, <3>2, CacheFacts
  <2> QED
    BY <1>5, <2>1, <2>4 DEF CompiledCodeIsLeased
<1>7. Cached'
  <2>1. \A m \in 1..Len(entries) : entries'[m].retired = entries[m].retired
    BY <1>3
  <2>2. \A j \in Instances :
           /\ inst'[j].lease \in 1..Len(entries) \cup {0}
           /\ inst'[j].phase \in {"absent", "waiting", "compiling"} => inst'[j].lease = 0
           /\ inst'[j].phase = "initializing" => inst'[j].lease # 0
    BY DEF SInv, Cached, Entries
  <2>3. \A m \in 1..Len(entries) : ~entries'[m].retired <=> \E n \in DOMAIN retained : retained[n] = m
    BY <2>1, CacheFacts DEF Entries
  <2> QED
    BY <1>5, <2>2, <2>3 DEF SInv, Cached, Entries
<1> QED
  BY <1>3, <1>6, <1>7
\* A sequence without its first d elements, d of them 0 or 1.
LEMMA Shifted ==
    ASSUME NEW S, NEW s \in Seq(S), NEW full \in BOOLEAN, full => s # <<>>
    PROVE  LET r == IF full THEN Tail(s) ELSE s
               d == IF full THEN 1 ELSE 0
           IN  /\ r \in Seq(S) /\ Len(r) = Len(s) - d /\ Len(s) \in Nat /\ Len(r) \in Nat
               /\ \A j \in 1..Len(r) : j + d \in 1..Len(s) /\ r[j] = s[j + d]
<1>1. Len(s) \in Nat
  OBVIOUS
<1>2. CASE full
  <2>1. Tail(s) \in Seq(S) /\ Len(Tail(s)) = Len(s) - 1 /\ Len(s) # 0
    BY <1>2
  <2>2. \A j \in 1..(Len(s) - 1) : Tail(s)[j] = s[j + 1]
    BY <1>2
  <2> QED
    BY <1>1, <1>2, <2>1, <2>2
<1>3. CASE ~full
  BY <1>1, <1>3
<1> QED
  BY <1>2, <1>3

\* The entries after an eviction.
LEMMA Evicted ==
    ASSUME SInv, NEW full \in BOOLEAN, full => retained # <<>>
    PROVE  LET old == IF full
                      THEN [entries EXCEPT ![Head(retained)].retired = TRUE,
                                           ![Head(retained)].open = entries[Head(retained)].refs > 0]
                      ELSE entries
           IN  /\ old \in Seq(Entry) /\ Len(old) = Len(entries)
               /\ \A m \in 1..Len(entries) :
                     /\ old[m].binary = entries[m].binary /\ old[m].refs = entries[m].refs
                     /\ ~old[m].retired <=> ~entries[m].retired /\ ~(full /\ m = retained[1])
                     /\ full /\ m = retained[1] => (old[m].open <=> entries[m].refs > 0)
                     /\ ~(full /\ m = retained[1]) => (old[m].open <=> entries[m].open)
<1>0. /\ entries \in Seq(Entry) /\ Len(entries) \in Nat /\ DOMAIN entries = 1..Len(entries)
      /\ retained \in Seq(Nat) /\ \A m \in 1..Len(entries) : entries[m] \in Entry
  BY CacheFacts DEF Entries
<1>1. CASE ~full
  BY <1>0, <1>1
<1>2. CASE full
  <2>1. PICK k : k = Head(retained)
    OBVIOUS
  <2>2. k = retained[1] /\ k \in 1..Len(entries)
    <3>1. Len(retained) # 0 /\ Len(retained) \in Nat /\ Head(retained) = retained[1]
      BY <1>0, <1>2
    <3>2. 1 \in DOMAIN retained
      BY <1>0, <3>1
    <3> QED
      BY <2>1, <3>1, <3>2, CacheFacts DEF Entries
  <2> DEFINE o == entries[k]
             w == o.refs > 0
             x == [o EXCEPT !.retired = TRUE]
             e == [binary |-> o.binary, refs |-> o.refs, retired |-> TRUE, open |-> w]
  <2>3. o \in Entry /\ o.refs \in Nat /\ o.binary \in {Binary[j] : j \in Instances} /\ w \in BOOLEAN
    BY <1>0, <2>2 DEF Entry
  <2>a. [entries EXCEPT ![k].retired = TRUE, ![k].open = entries[k].refs > 0]
           = [entries EXCEPT ![k] = [x EXCEPT !.open = w]]
    BY <1>0, <2>2
  <2> HIDE DEF w
  <2>5. e \in Entry
    BY <2>3 DEF Entry
  <2>6. [x EXCEPT !.open = w] = e
    <3> DEFINE a1 == o.binary
               a2 == o.refs
               a3 == o.retired
               a4 == o.open
               t == TRUE
               y == [o EXCEPT !.retired = t]
    <3>1. o = [binary |-> a1, refs |-> a2, retired |-> a3, open |-> a4]
      BY <2>3 DEF Entry
    <3> HIDE DEF o, a1, a2, a3, a4, t
    <3>2. y = [binary |-> a1, refs |-> a2, retired |-> t, open |-> a4]
      BY <3>1
    <3> HIDE DEF y
    <3>3. [y EXCEPT !.open = w] = [binary |-> a1, refs |-> a2, retired |-> t, open |-> w]
      BY <3>2
    <3> QED
      BY <3>3 DEF y, a1, a2, t
  <2> HIDE DEF x, e
  <2>7. e.binary = o.binary /\ e.retired /\ e.refs = o.refs /\ e.open = w
    BY DEF e
  <2> DEFINE old == [entries EXCEPT ![k] = e]
  <2>8. /\ old \in Seq(Entry) /\ Len(old) = Len(entries) /\ old[k] = e
        /\ \A m \in 1..Len(entries) : m # k => old[m] = entries[m]
    BY <1>0, <2>2, <2>5, ExceptSeq
  <2>9. old = [entries EXCEPT ![Head(retained)].retired = TRUE,
                              ![Head(retained)].open = entries[Head(retained)].refs > 0]
    BY <2>1, <2>6, <2>a
  <2> HIDE DEF old
  <2>10. \A m \in 1..Len(entries) :
            /\ old[m].binary = entries[m].binary /\ old[m].refs = entries[m].refs
            /\ ~old[m].retired <=> ~entries[m].retired /\ ~(m = retained[1])
            /\ m = retained[1] => (old[m].open <=> entries[m].refs > 0)
            /\ m # retained[1] => (old[m].open <=> entries[m].open)
    <3> TAKE m \in 1..Len(entries)
    <3>1. CASE m = k
      BY <2>2, <2>7, <2>8, <3>1 DEF w
    <3>2. CASE m # k
      BY <2>2, <2>8, <3>2
    <3> QED
      BY <3>1, <3>2
  <2> QED
    BY <1>2, <2>8, <2>9, <2>10
<1> QED
  BY <1>1, <1>2
\* What was compiled is retained and leased; nobody has its binary in the cache yet.
LEMMA LeaseGiven ==
    ASSUME SInv, NEW i \in Instances, inst[i].lease = 0, Matching(Binary[i]) = {},
           retainCompiledCode(i),
           inst' = [inst EXCEPT ![i].phase = "initializing", ![i].lease = Len(entries) + 1]
    PROVE  /\ Cached' /\ CompiledCodeIsLeased'
           /\ entries' \in Seq(Entry) /\ retained' \in Seq(Nat) /\ inst' \in [Instances -> Instance]
           /\ \A j \in Instances : inst'[j].guest = inst[j].guest
<1> DEFINE full == Len(retained) >= RetainedLimit
           d == IF full THEN 1 ELSE 0
           r == IF full THEN Tail(retained) ELSE retained
           old == IF full
                  THEN [entries EXCEPT ![Head(retained)].retired = TRUE,
                                       ![Head(retained)].open = entries[Head(retained)].refs > 0]
                  ELSE entries
           new == [binary |-> Binary[i], refs |-> 1, retired |-> FALSE, open |-> TRUE]
           gone(m) == full /\ m = retained[1]
<1>1. PICK N : N = Len(entries) + 1
  OBVIOUS
<1>2. /\ entries \in Seq(Entry) /\ retained \in Seq(Nat) /\ inst \in [Instances -> Instance]
      /\ Len(entries) \in Nat /\ Len(retained) \in Nat /\ N \in Nat /\ N # 0
      /\ DOMAIN entries = 1..Len(entries) /\ DOMAIN retained = 1..Len(retained)
      /\ Len(retained) <= RetainedLimit /\ RetainedLimit \in Nat \ {0}
  BY <1>1, CacheFacts, SandboxAssumption DEF SInv, Cached
<1>3. full \in BOOLEAN /\ (full => retained # <<>> /\ Len(retained) # 0)
  BY <1>2
<1>4. /\ r \in Seq(Nat) /\ Len(r) = Len(retained) - d /\ Len(r) \in Nat
      /\ \A j \in 1..Len(r) : j + d \in 1..Len(retained) /\ r[j] = retained[j + d]
  <2> HIDE DEF full
  <2> QED
    BY <1>2, <1>3, Shifted
<1>5. /\ old \in Seq(Entry) /\ Len(old) = Len(entries)
      /\ \A m \in 1..Len(entries) :
            /\ old[m].binary = entries[m].binary /\ old[m].refs = entries[m].refs
            /\ ~old[m].retired <=> ~entries[m].retired /\ ~gone(m)
            /\ gone(m) => (old[m].open <=> entries[m].refs > 0)
            /\ ~gone(m) => (old[m].open <=> entries[m].open)
  <2> HIDE DEF full
  <2> QED
    BY <1>3, Evicted
<1>6. new \in Entry /\ new.binary = Binary[i] /\ new.refs = 1 /\ ~new.retired /\ new.open
  BY DEF Entry
<1>7. entries' = Append(old, new) /\ retained' = Append(r, N)
  BY <1>1 DEF retainCompiledCode
<1>8. Len(r) + 1 <= RetainedLimit
  BY <1>2, <1>4
<1>9. d \in {0, 1} /\ (full <=> d = 1)
  OBVIOUS
<1> HIDE DEF full, d, r, old, new
<1>10. /\ entries' \in Seq(Entry) /\ Len(entries') = N /\ entries'[N] = new
       /\ \A m \in 1..Len(entries) : entries'[m] = old[m]
  BY <1>1, <1>2, <1>5, <1>6, <1>7, Appended
<1>11. /\ retained' \in Seq(Nat) /\ Len(retained') = Len(r) + 1 /\ retained'[Len(r) + 1] = N
       /\ \A j \in 1..Len(r) : retained'[j] = retained[j + d]
  BY <1>2, <1>4, <1>7, Appended
<1>12. /\ inst' \in [Instances -> Instance] /\ inst'[i].lease = N /\ inst'[i].phase = "initializing"
       /\ \A j \in Instances : inst'[j].guest = inst[j].guest
       /\ \A j \in Instances \ {i} : inst'[j] = inst[j]
  BY <1>1, <1>2 DEF Instance
<1>13. \A m \in 1..Len(entries) : Leasing(m)' = Leasing(m) /\ m # N /\ Leasing(m) \in SUBSET Instances
  <2>1. \A m \in 1..Len(entries) : m # N /\ m # 0
    BY <1>1, <1>2
  <2> QED
    BY <1>12, <2>1 DEF Leasing
<1>14. Leasing(N)' = {i}
  <2>1. \A j \in Instances : inst[j].lease # N
    BY <1>1, <1>2 DEF SInv, Cached, Entries
  <2> QED
    BY <1>12, <2>1 DEF Leasing
<1>15. Cardinality({i}) = 1
  BY FS_Singleton
<1>16. /\ Entries' = 1..N /\ DOMAIN retained' = 1..(Len(r) + 1)
       /\ \A m \in 1..N : m = N \/ m \in 1..Len(entries)
       /\ \A j \in 1..(Len(r) + 1) : j = Len(r) + 1 \/ j \in 1..Len(r)
       /\ 1..Len(entries) \subseteq 1..N /\ N \in 1..N
       /\ 1..Len(r) \subseteq 1..(Len(r) + 1) /\ Len(r) + 1 \in 1..(Len(r) + 1)
  BY <1>1, <1>2, <1>4, <1>10, <1>11, LenProperties DEF Entries
<1>17. \A j \in 1..Len(retained) : retained[j] \in 1..Len(entries) /\ entries[retained[j]].binary # Binary[i]
  BY <1>2, CacheFacts DEF Entries, Matching
\* Only the first is gone, and it is retained once.
<1>18. \A j \in 1..Len(r) : j + d \in 1..Len(retained) /\ ~gone(retained[j + d])
  <2>1. \A j \in 1..Len(r) : j + d \in 1..Len(retained)
    BY <1>4
  <2> SUFFICES ASSUME NEW j \in 1..Len(r), full, retained[j + d] = retained[1]
               PROVE  FALSE
    BY <2>1
  <2>2. 1 \in 1..Len(retained)
    BY <1>2, <1>3
  <2>3. j + d = 1
    BY <1>2, <2>1, <2>2, CacheFacts
  <2> QED
    BY <1>4, <1>9, <2>3
<1>19. CompiledCodeIsLeased'
  <2>1. ASSUME NEW m \in 1..N
        PROVE  /\ entries'[m].refs = Cardinality(Leasing(m)')
               /\ entries'[m].open <=> ~entries'[m].retired \/ Leasing(m)' # {}
    <3>1. CASE m = N
      BY <1>6, <1>10, <1>14, <1>15, <3>1
    <3>2. CASE m # N
      <4>1. m \in 1..Len(entries)
        BY <1>16, <3>2
      <4>2. entries'[m] = old[m] /\ Leasing(m)' = Leasing(m)
        BY <1>10, <1>13, <4>1
      <4>3. /\ entries[m].refs = Cardinality(Leasing(m))
            /\ entries[m].open <=> ~entries[m].retired \/ Leasing(m) # {}
        BY <4>1, CacheFacts DEF Entries
      <4>4. entries[m].refs > 0 <=> Leasing(m) # {}
        <5>1. Cardinality(Leasing(m)) \in Nat /\ (Cardinality(Leasing(m)) = 0 <=> Leasing(m) = {})
          BY <1>13, <4>1, Counts
        <5> QED
          BY <4>3, <5>1
      <4>5. entries'[m].refs = Cardinality(Leasing(m)')
        BY <1>5, <4>1, <4>2, <4>3
      <4>6. CASE gone(m)
        BY <1>5, <4>1, <4>2, <4>4, <4>5, <4>6
      <4>7. CASE ~gone(m)
        BY <1>5, <4>1, <4>2, <4>3, <4>5, <4>7
      <4> QED
        BY <4>6, <4>7
    <3> QED
      BY <3>1, <3>2
  <2>2. \A j \in 1..Len(r) : /\ entries'[retained'[j]].binary = entries[retained[j + d]].binary
                             /\ entries'[retained'[j]].binary # Binary[i]
    <3> TAKE j \in 1..Len(r)
    <3>1. retained[j + d] \in 1..Len(entries) /\ entries[retained[j + d]].binary # Binary[i]
      BY <1>17, <1>18
    <3>2. entries'[retained'[j]].binary = entries[retained[j + d]].binary
      <4>1. retained'[j] = retained[j + d]
        BY <1>11
      <4>2. entries'[retained[j + d]] = old[retained[j + d]]
        BY <1>10, <3>1
      <4>3. old[retained[j + d]].binary = entries[retained[j + d]].binary
        BY <1>5, <3>1
      <4> QED
        BY <4>1, <4>2, <4>3
    <3> QED
      BY <3>1, <3>2
  <2>3. entries'[retained'[Len(r) + 1]].binary = Binary[i]
    BY <1>6, <1>10, <1>11
  <2>4. ASSUME NEW p \in 1..(Len(r) + 1), NEW q \in 1..(Len(r) + 1),
               entries'[retained'[p]].binary = entries'[retained'[q]].binary
        PROVE  p = q
    <3>1. CASE p = Len(r) + 1 \/ q = Len(r) + 1
      BY <1>16, <2>2, <2>3, <2>4, <3>1
    <3>2. CASE p \in 1..Len(r) /\ q \in 1..Len(r)
      <4>1. /\ entries[retained[p + d]].binary = entries[retained[q + d]].binary
            /\ p + d \in DOMAIN retained /\ q + d \in DOMAIN retained
        BY <1>2, <1>4, <2>2, <2>4, <3>2
      <4>2. p + d = q + d
        BY <4>1, CacheFacts
      <4> QED
        BY <1>9, <3>2, <4>2
    <3> QED
      BY <1>16, <3>1, <3>2
  <2> QED
    BY <1>16, <2>1, <2>4 DEF CompiledCodeIsLeased
<1>20. Cached'
  <2>1. \A j \in 1..(Len(r) + 1) : retained'[j] \in 1..N
    BY <1>11, <1>16, <1>17, <1>18
  <2>2. ASSUME NEW m \in 1..N
        PROVE  ~entries'[m].retired <=> \E j \in 1..(Len(r) + 1) : retained'[j] = m
    <3>1. CASE m = N
      BY <1>6, <1>10, <1>11, <1>16, <3>1
    <3>2. CASE m # N
      <4>1. m \in 1..Len(entries)
        BY <1>16, <3>2
      <4>2. ~entries'[m].retired <=> ~entries[m].retired /\ ~gone(m)
        BY <1>5, <1>10, <4>1
      <4>3. ~entries[m].retired <=> \E j \in 1..Len(retained) : retained[j] = m
        BY <1>2, <4>1, CacheFacts DEF Entries
      <4>4. ASSUME NEW j \in 1..Len(retained), retained[j] = m, ~gone(m)
            PROVE  \E h \in 1..(Len(r) + 1) : retained'[h] = m
        <5>1. j - d \in 1..Len(r) /\ (j - d) + d = j
          <6>1. CASE full
            <7>1. j # 1 /\ j \in 1..Len(retained)
              BY <4>4, <6>1
            <7>2. d = 1 /\ Len(r) = Len(retained) - 1 /\ Len(retained) \in Nat
              BY <1>2, <1>4, <1>9, <6>1
            <7> QED
              BY <7>1, <7>2
          <6>2. CASE ~full
            <7>1. d = 0 /\ Len(r) = Len(retained) /\ Len(retained) \in Nat
              BY <1>2, <1>4, <1>9, <6>2
            <7> QED
              BY <4>4, <7>1
          <6> QED
            BY <6>1, <6>2
        <5> QED
          BY <1>11, <1>16, <4>4, <5>1
      <4>5. ASSUME NEW h \in 1..(Len(r) + 1), retained'[h] = m
            PROVE  (\E j \in 1..Len(retained) : retained[j] = m) /\ ~gone(m)
        <5>1. h \in 1..Len(r)
          BY <1>11, <1>16, <3>2, <4>5
        <5> QED
          BY <1>11, <1>18, <4>5, <5>1
      <4> QED
        BY <4>2, <4>3, <4>4, <4>5
    <3> QED
      BY <3>1, <3>2
  <2>3. ASSUME NEW j \in Instances
        PROVE  /\ inst'[j].lease \in 1..N \cup {0}
               /\ inst'[j].phase \in {"absent", "waiting", "compiling"} => inst'[j].lease = 0
               /\ inst'[j].phase = "initializing" => inst'[j].lease # 0
    <3>1. CASE j = i
      BY <1>2, <1>12, <1>16, <3>1
    <3>2. CASE j # i
      BY <1>12, <1>16, <3>2 DEF SInv, Cached, Entries
    <3> QED
      BY <3>1, <3>2
  <2> QED
    BY <1>8, <1>11, <1>16, <2>1, <2>2, <2>3 DEF Cached
<1> QED
  BY <1>10, <1>11, <1>12, <1>19, <1>20-----------------------------------------------------------------------------
(* Loading *)

\* What the invariant says of the types, and of who holds a gate.
LEMMA Types ==
    ASSUME SInv
    PROVE  /\ inst \in [Instances -> Instance] /\ call \in [Callers -> Call]
           /\ gate \in [Instances -> Callers \cup {"close", Nil}]
           /\ guests \in Nat /\ guests <= MaxGuests /\ MaxGuests \in Nat /\ spoilt \subseteq 1..guests
           /\ Nil \notin Callers /\ "close" \notin Callers /\ Nil # "close" /\ Nil \notin Instances
<1>1. guests \in 0..MaxGuests /\ MaxGuests \in Nat
  BY SandboxAssumption DEF SInv, Typed
<1>2. guests \in Nat /\ guests <= MaxGuests
  BY <1>1
<1> QED
  BY <1>1, <1>2, SandboxAssumption DEF SInv, Typed

\* A step that moves no caller, no guest and no gate of a caller.
LEMMA CallersAlone ==
    ASSUME SInv, call' = call, page' = page,
           \A i \in Instances : inst'[i].guest = inst[i].guest,
           \A i \in Instances, c \in Callers : gate'[i] = c <=> gate[i] = c
    PROVE  Admitted' /\ Reads'
<1>1. Admitted'
  <2> SUFFICES ASSUME NEW c \in Callers
               PROVE  /\ call[c].step \in {"gate", "ensure"} \cup InGuest => call[c].on \in Instances
                      /\ call[c].step \in {"ensure"} \cup InGuest =>
                            \A i \in Instances : gate'[i] = c <=> i = call[c].on
                      /\ call[c].step \in {"none", "gate", "render"} => \A i \in Instances : gate'[i] # c
                      /\ call[c].step \in InGuest => inst'[call[c].on].guest # 0
    BY DEF Admitted, Running, Guest, InGuest
  <2>1. /\ call[c].step \in {"gate", "ensure"} \cup InGuest => call[c].on \in Instances
        /\ call[c].step \in {"ensure"} \cup InGuest =>
              \A i \in Instances : gate[i] = c <=> i = call[c].on
        /\ call[c].step \in {"none", "gate", "render"} => \A i \in Instances : gate[i] # c
        /\ call[c].step \in InGuest => inst[call[c].on].guest # 0
    BY DEF SInv, Admitted, Running, Guest
  <2> QED
    BY <2>1
<1>2. Reads'
  BY DEF SInv, Reads
<1> QED
  BY <1>1, <1>2

LEMMA GuestsAlone ==
    ASSUME SInv, UNCHANGED <<guests, spoilt>>,
           \A i \in Instances : inst'[i].guest = inst[i].guest
    PROVE  Fresh'
  BY DEF SInv, Fresh

\* An instance goes to another phase, with its lease and guest.
LEMMA PhaseMoves ==
    ASSUME SInv, NEW i \in Instances,
           NEW p \in {"absent", "waiting", "compiling", "initializing", "loaded", "failed", "closed"},
           Phase(i, p)
    PROVE  /\ inst' \in [Instances -> Instance] /\ inst'[i].phase = p
           /\ \A j \in Instances \ {i} : inst'[j] = inst[j]
           /\ \A j \in Instances : inst'[j].lease = inst[j].lease /\ inst'[j].guest = inst[j].guest
<1>1. inst \in [Instances -> Instance]
  BY Types
<1>2. LET x == [inst[i] EXCEPT !.phase = p] IN
      x \in Instance /\ x.phase = p /\ x.lease = inst[i].lease /\ x.guest = inst[i].guest
  BY <1>1 DEF Instance
<1> QED
  BY <1>1, <1>2 DEF Phase

\* Load and compile: the phase, the cache and the gate of the compilation.
LEMMA LoadingTyped ==
    ASSUME SInv, CacheOnly, entries' \in Seq(Entry), retained' \in Seq(Nat),
           inst' \in [Instances -> Instance], compiling' \in Instances \cup {Nil}
    PROVE  Typed'
  BY DEF SInv, Typed, CacheOnly

LEMMA LoadKeeps ==
    ASSUME SInv, NEW i \in Instances, Load(i)
    PROVE  SInv'
<1>0. inst[i].phase = "absent" /\ inst[i].lease = 0 /\ entries \in Seq(Entry) /\ retained \in Seq(Nat)
      /\ compiling' = compiling /\ compiling \in Instances \cup {Nil} /\ CacheOnly
  BY DEF Load, SInv, Cached, Typed
<1>1. /\ Cached' /\ CompiledCodeIsLeased'
      /\ entries' \in Seq(Entry) /\ retained' \in Seq(Nat) /\ inst' \in [Instances -> Instance]
      /\ \A j \in Instances : inst'[j].guest = inst[j].guest
  <2>1. CASE \E n \in Matching(Binary[i]) : retainedLease(i, n)
    <3>1. PICK n \in Matching(Binary[i]) : retainedLease(i, n)
      BY <2>1
    <3>2. n \in DOMAIN retained
      BY DEF Matching
    <3> QED
      BY <1>0, <3>1, <3>2, LeaseTaken
  <2>2. CASE /\ \E p \in {"loaded", "waiting"} : Phase(i, p)
             /\ UNCHANGED <<retained, entries>>
    <3>1. PICK p \in {"loaded", "waiting"} : Phase(i, p)
      BY <2>2
    <3>2. /\ inst' \in [Instances -> Instance] /\ inst'[i].phase = p
          /\ \A j \in Instances \ {i} : inst'[j] = inst[j]
          /\ \A j \in Instances : inst'[j].lease = inst[j].lease /\ inst'[j].guest = inst[j].guest
      BY <3>1, PhaseMoves
    <3>3. \A j \in Instances :
             /\ inst'[j].phase \in {"absent", "waiting", "compiling"} => inst[j].lease = 0
             /\ inst'[j].phase = "initializing" => inst[j].lease # 0
      BY <1>0, <3>2 DEF SInv, Cached
    <3>4. Cached' /\ CompiledCodeIsLeased'
      BY <2>2, <3>2, <3>3, CacheAlone
    <3> QED
      BY <1>0, <2>2, <3>2, <3>4
  <2> QED
    BY <2>1, <2>2 DEF Load
<1>2. Typed'
  BY <1>0, <1>1, LoadingTyped
<1>3. Admitted' /\ Reads' /\ Fresh'
  BY <1>0, <1>1, CallersAlone, GuestsAlone DEF CacheOnly
<1> QED
  BY <1>1, <1>2, <1>3 DEF SInv

LEMMA AwaitCompilationKeeps ==
    ASSUME SInv, NEW i \in Instances, AwaitCompilation(i)
    PROVE  SInv'
<1>0. inst[i].lease = 0 /\ entries \in Seq(Entry) /\ retained \in Seq(Nat)
      /\ compiling' \in Instances \cup {Nil} /\ CacheOnly /\ UNCHANGED <<retained, entries>>
  BY DEF AwaitCompilation, SInv, Cached, Typed
<1>1. PICK p \in {"compiling", "failed"} : Phase(i, p)
  BY DEF AwaitCompilation
<1>2. /\ inst' \in [Instances -> Instance] /\ inst'[i].phase = p
      /\ \A j \in Instances \ {i} : inst'[j] = inst[j]
      /\ \A j \in Instances : inst'[j].lease = inst[j].lease /\ inst'[j].guest = inst[j].guest
  BY <1>1, PhaseMoves
<1>3. \A j \in Instances :
         /\ inst'[j].phase \in {"absent", "waiting", "compiling"} => inst[j].lease = 0
         /\ inst'[j].phase = "initializing" => inst[j].lease # 0
  BY <1>0, <1>2 DEF SInv, Cached
<1>4. Cached' /\ CompiledCodeIsLeased'
  BY <1>0, <1>2, <1>3, CacheAlone
<1>5. Typed'
  BY <1>0, <1>2, LoadingTyped
<1>6. Admitted' /\ Reads' /\ Fresh'
  BY <1>0, <1>2, CallersAlone, GuestsAlone DEF CacheOnly
<1> QED
  BY <1>4, <1>5, <1>6 DEF SInv

LEMMA CompileKeeps ==
    ASSUME SInv, NEW i \in Instances, compile(i)
    PROVE  SInv'
<1>0. inst[i].lease = 0 /\ entries \in Seq(Entry) /\ retained \in Seq(Nat)
      /\ compiling' \in Instances \cup {Nil} /\ CacheOnly
  BY DEF compile, SInv, Cached, Typed
<1>1. /\ Cached' /\ CompiledCodeIsLeased'
      /\ entries' \in Seq(Entry) /\ retained' \in Seq(Nat) /\ inst' \in [Instances -> Instance]
      /\ \A j \in Instances : inst'[j].guest = inst[j].guest
  <2>1. CASE \E n \in Matching(Binary[i]) : retainedLease(i, n)
    <3>1. PICK n \in Matching(Binary[i]) : retainedLease(i, n)
      BY <2>1
    <3>2. n \in DOMAIN retained
      BY DEF Matching
    <3> QED
      BY <1>0, <3>1, <3>2, LeaseTaken
  <2>2. CASE /\ Matching(Binary[i]) = {} /\ retainCompiledCode(i)
             /\ inst' = [inst EXCEPT ![i].phase = "initializing", ![i].lease = Len(entries) + 1]
    BY <1>0, <2>2, LeaseGiven
  <2>3. CASE Phase(i, "failed") /\ UNCHANGED <<retained, entries>>
    <3>2. /\ inst' \in [Instances -> Instance] /\ inst'[i].phase = "failed"
          /\ \A j \in Instances \ {i} : inst'[j] = inst[j]
          /\ \A j \in Instances : inst'[j].lease = inst[j].lease /\ inst'[j].guest = inst[j].guest
      BY <2>3, PhaseMoves
    <3>3. \A j \in Instances :
             /\ inst'[j].phase \in {"absent", "waiting", "compiling"} => inst[j].lease = 0
             /\ inst'[j].phase = "initializing" => inst[j].lease # 0
      BY <1>0, <3>2 DEF SInv, Cached
    <3>4. Cached' /\ CompiledCodeIsLeased'
      BY <2>3, <3>2, <3>3, CacheAlone
    <3> QED
      BY <1>0, <2>3, <3>2, <3>4
  <2> QED
    BY <2>1, <2>2, <2>3 DEF compile
<1>2. Typed'
  BY <1>0, <1>1, LoadingTyped
<1>3. Admitted' /\ Reads' /\ Fresh'
  BY <1>0, <1>1, CallersAlone, GuestsAlone DEF CacheOnly
<1> QED
  BY <1>1, <1>2, <1>3 DEF SInv
\* A new guest.
LEMMA GuestStarts ==
    ASSUME SInv, NEW i \in Instances, instantiate(i)
    PROVE  /\ inst' \in [Instances -> Instance] /\ guests' \in 0..MaxGuests /\ guests' = guests + 1
           /\ \A j \in Instances \ {i} : inst'[j] = inst[j]
           /\ inst'[i].phase = "loaded" /\ inst'[i].lease = inst[i].lease /\ inst'[i].guest = guests + 1
           /\ inst'[i].guest # 0 /\ spoilt \subseteq 1..guests'
           /\ spoilt' = spoilt => Fresh'
<1>0. /\ inst \in [Instances -> Instance] /\ guests \in Nat /\ MaxGuests \in Nat /\ guests < MaxGuests
      /\ spoilt \subseteq 1..guests /\ guests' = guests + 1
  BY Types DEF instantiate
<1>1. LET x == [inst[i] EXCEPT !.phase = "loaded", !.guest = guests + 1] IN
      x \in Instance /\ x.phase = "loaded" /\ x.lease = inst[i].lease /\ x.guest = guests + 1
  <2>1. guests + 1 \in Nat /\ inst[i] \in Instance
    BY <1>0
  <2> DEFINE g == guests + 1
             o == inst[i]
  <2> HIDE DEF g, o
  <2>2. LET x == [o EXCEPT !.phase = "loaded", !.guest = g] IN
        x \in Instance /\ x.phase = "loaded" /\ x.lease = o.lease /\ x.guest = g
    BY <2>1 DEF Instance, g, o
  <2> QED
    BY <2>2 DEF g, o
<1>2. /\ inst' \in [Instances -> Instance] /\ \A j \in Instances \ {i} : inst'[j] = inst[j]
      /\ inst'[i].phase = "loaded" /\ inst'[i].lease = inst[i].lease /\ inst'[i].guest = guests + 1
  BY <1>0, <1>1 DEF instantiate
<1>3. ASSUME spoilt' = spoilt PROVE Fresh'
  <2>1. /\ guests + 1 \notin spoilt /\ guests + 1 # 0 /\ guests + 1 \in 0..guests'
        /\ \A g \in 0..guests : g # guests + 1 /\ g \in 0..guests'
    BY <1>0
  <2>2. \A j \in Instances :
           /\ inst[j].guest \in 0..guests /\ inst[j].guest \notin spoilt
           /\ \A h \in Instances \ {j} : inst[j].guest # 0 => inst[j].guest # inst[h].guest
    BY DEF SInv, Fresh
  <2>3. ASSUME NEW j \in Instances
        PROVE  inst'[j].guest \in 0..guests' /\ inst'[j].guest \notin spoilt'
    <3>1. CASE j = i
      BY <1>2, <1>3, <2>1, <3>1
    <3>2. CASE j # i
      BY <1>2, <1>3, <2>1, <2>2, <3>2
    <3> QED
      BY <3>1, <3>2
  <2>4. ASSUME NEW j \in Instances, NEW h \in Instances \ {j}, inst'[j].guest # 0
        PROVE  inst'[j].guest # inst'[h].guest
    <3>1. CASE j = i
      BY <1>2, <2>1, <2>2, <3>1
    <3>2. CASE h = i
      BY <1>2, <2>1, <2>2, <3>2
    <3>3. CASE j # i /\ h # i
      BY <1>2, <2>2, <2>4, <3>3
    <3> QED
      BY <3>1, <3>2, <3>3
  <2> QED
    BY <2>3, <2>4 DEF Fresh
<1>4. guests' \in 0..MaxGuests /\ spoilt \subseteq 1..guests' /\ inst'[i].guest # 0
  BY <1>0, <1>2
<1> QED
  BY <1>0, <1>2, <1>3, <1>4

LEMMA InitializeKeeps ==
    ASSUME SInv, NEW i \in Instances, Initialize(i)
    PROVE  SInv'
<1>0. /\ inst[i].phase = "initializing" /\ inst[i].lease # 0
      /\ UNCHANGED <<retained, compiling, gate, spoilt, call, active, page, calls>>
      /\ inst \in [Instances -> Instance] /\ entries \in Seq(Entry)
      /\ spoilt \subseteq 1..guests
  BY Types DEF Initialize, SInv, Cached, Typed
<1>1. CASE instantiate(i) /\ UNCHANGED entries
  <2>1. /\ inst' \in [Instances -> Instance] /\ guests' \in 0..MaxGuests /\ guests' = guests + 1
        /\ \A j \in Instances \ {i} : inst'[j] = inst[j]
        /\ inst'[i].phase = "loaded" /\ inst'[i].lease = inst[i].lease
        /\ inst'[i].guest # 0 /\ spoilt \subseteq 1..guests' /\ Fresh'
    BY <1>0, <1>1, GuestStarts
  <2>2. Typed'
    BY <1>0, <1>1, <2>1 DEF SInv, Typed
  <2>3. \A j \in Instances :
           /\ inst'[j].lease = inst[j].lease
           /\ inst'[j].phase \in {"absent", "waiting", "compiling"} => inst[j].lease = 0
           /\ inst'[j].phase = "initializing" => inst[j].lease # 0
    BY <2>1 DEF SInv, Cached
  <2>4. Cached' /\ CompiledCodeIsLeased'
    BY <1>0, <1>1, <2>3, CacheAlone
  <2>5. Admitted'
    <3> SUFFICES ASSUME NEW c \in Callers
                 PROVE  /\ call[c].step \in {"gate", "ensure"} \cup InGuest => call[c].on \in Instances
                        /\ call[c].step \in {"ensure"} \cup InGuest =>
                              \A j \in Instances : gate[j] = c <=> j = call[c].on
                        /\ call[c].step \in {"none", "gate", "render"} => \A j \in Instances : gate[j] # c
                        /\ call[c].step \in InGuest => inst'[call[c].on].guest # 0
      BY <1>0 DEF Admitted, Running, Guest, InGuest
    <3> QED
      BY <2>1 DEF SInv, Admitted, Running, Guest
  <2>6. Reads'
    BY <1>0 DEF SInv, Reads
  <2> QED
    BY <2>1, <2>2, <2>4, <2>5, <2>6 DEF SInv
<1>2. CASE /\ releaseRetiredCode(inst[i].lease)
           /\ inst' = [inst EXCEPT ![i].phase = "failed", ![i].lease = 0]
           /\ UNCHANGED guests
  <2>1. LET x == [inst[i] EXCEPT !.phase = "failed", !.lease = 0] IN
        x \in Instance /\ x.phase = "failed" /\ x.lease = 0 /\ x.guest = inst[i].guest
    BY <1>0 DEF Instance
  <2>2. /\ inst' \in [Instances -> Instance] /\ \A j \in Instances \ {i} : inst'[j] = inst[j]
        /\ inst'[i].phase = "failed" /\ inst'[i].lease = 0
        /\ \A j \in Instances : inst'[j].guest = inst[j].guest
    BY <1>0, <1>2, <2>1
  <2>3. Cached' /\ CompiledCodeIsLeased' /\ entries' \in Seq(Entry)
    BY <1>0, <1>2, <2>2, LeaseReleased
  <2>4. Typed'
    BY <1>0, <1>2, <2>2, <2>3 DEF SInv, Typed
  <2>5. Admitted' /\ Reads' /\ Fresh'
    BY <1>0, <1>2, <2>2, CallersAlone, GuestsAlone
  <2> QED
    BY <2>3, <2>4, <2>5 DEF SInv
<1> QED
  BY <1>1, <1>2 DEF Initialize

LEMMA AwaitDrainKeeps ==
    ASSUME SInv, NEW i \in Instances, AwaitDrain(i)
    PROVE  SInv'
<1>0. /\ gate[i] = Nil /\ gate' = [gate EXCEPT ![i] = "close"]
      /\ UNCHANGED <<retained, entries, compiling, inst, guests, spoilt, call, active, page, calls>>
  BY DEF AwaitDrain
<1>1. /\ gate' \in [Instances -> Callers \cup {"close", Nil}]
      /\ \A j \in Instances, c \in Callers : gate'[j] = c <=> gate[j] = c
  BY <1>0, Types
<1>2. Typed'
  BY <1>0, <1>1 DEF SInv, Typed
<1>3. Cached' /\ CompiledCodeIsLeased'
  BY <1>0, CacheAlone DEF SInv, Cached
<1>4. Admitted' /\ Reads' /\ Fresh'
  BY <1>0, <1>1, CallersAlone, GuestsAlone
<1> QED
  BY <1>2, <1>3, <1>4 DEF SInv

LEMMA CloseKeeps ==
    ASSUME SInv, NEW i \in Instances, Close(i)
    PROVE  SInv'
<1> DEFINE x == [Absent EXCEPT !.phase = "closed"]
<1>0. /\ gate[i] = "close" /\ gate' = [gate EXCEPT ![i] = Nil]
      /\ inst' = [inst EXCEPT ![i] = x]
      /\ UNCHANGED <<retained, compiling, guests, spoilt, call, active, page, calls>>
      /\ inst \in [Instances -> Instance]
  BY Types DEF Close
<1>1. x \in Instance /\ x.phase = "closed" /\ x.lease = 0 /\ x.guest = 0
  BY DEF Instance, Absent
<1> HIDE DEF x
<1>2. /\ inst' \in [Instances -> Instance] /\ \A j \in Instances \ {i} : inst'[j] = inst[j]
      /\ inst'[i].phase = "closed" /\ inst'[i].lease = 0 /\ inst'[i].guest = 0
  BY <1>0, <1>1
<1>3. Cached' /\ CompiledCodeIsLeased' /\ entries' \in Seq(Entry)
  <2>1. CASE inst[i].lease = 0
    <3>1. entries' = entries /\ retained' = retained
      BY <1>0, <2>1 DEF Close
    <3>2. \A j \in Instances :
             /\ inst'[j].lease = inst[j].lease
             /\ inst'[j].phase \in {"absent", "waiting", "compiling"} => inst[j].lease = 0
             /\ inst'[j].phase = "initializing" => inst[j].lease # 0
      BY <1>2, <2>1 DEF SInv, Cached
    <3> QED
      BY <3>1, <3>2, CacheAlone DEF SInv, Typed
  <2>2. CASE inst[i].lease # 0
    <3>1. releaseRetiredCode(inst[i].lease)
      BY <2>2 DEF Close
    <3> QED
      BY <1>0, <1>2, <2>2, <3>1, LeaseReleased
  <2> QED
    BY <2>1, <2>2
<1>4. /\ gate' \in [Instances -> Callers \cup {"close", Nil}]
      /\ \A j \in Instances, c \in Callers : gate'[j] = c <=> gate[j] = c
  BY <1>0, Types
<1>5. Typed'
  BY <1>0, <1>2, <1>3, <1>4 DEF SInv, Typed
<1>6. Admitted'
  <2> SUFFICES ASSUME NEW c \in Callers
               PROVE  /\ call[c].step \in {"gate", "ensure"} \cup InGuest => call[c].on \in Instances
                      /\ call[c].step \in {"ensure"} \cup InGuest =>
                            \A j \in Instances : gate'[j] = c <=> j = call[c].on
                      /\ call[c].step \in {"none", "gate", "render"} => \A j \in Instances : gate'[j] # c
                      /\ call[c].step \in InGuest => inst'[call[c].on].guest # 0
    BY <1>0 DEF Admitted, Running, Guest, InGuest
  <2>1. /\ call[c].step \in {"gate", "ensure"} \cup InGuest => call[c].on \in Instances
        /\ call[c].step \in {"ensure"} \cup InGuest =>
              \A j \in Instances : gate[j] = c <=> j = call[c].on
        /\ call[c].step \in {"none", "gate", "render"} => \A j \in Instances : gate[j] # c
        /\ call[c].step \in InGuest => inst[call[c].on].guest # 0
    BY DEF SInv, Admitted, Running, Guest
  <2>2. call[c].step \in InGuest => call[c].on # i
    BY <1>0, <2>1, Types
  <2> QED
    BY <1>2, <1>4, <2>1, <2>2
<1>7. Fresh'
  BY <1>0, <1>2, Types DEF SInv, Fresh
<1>8. Reads'
  BY <1>0 DEF SInv, Reads
<1> QED
  BY <1>3, <1>5, <1>6, <1>7, <1>8 DEF SInv-----------------------------------------------------------------------------
(* Calling *)

\* What a caller stands at, and the instance it is on.
Stands(r, c) ==
    /\ r.step \in {"gate", "ensure"} \cup InGuest => r.on \in Instances
    /\ r.step \in {"ensure"} \cup InGuest => \A i \in Instances : gate[i] = c <=> i = r.on
    /\ r.step \in {"none", "gate", "render"} => \A i \in Instances : gate[i] # c
    /\ r.step \in InGuest => inst[r.on].guest # 0

LEMMA Standing ==
    ASSUME Admitted, NEW c \in Callers
    PROVE  Stands(call[c], c)
  BY DEF Admitted, Stands, Running, Guest

\* One caller goes on; the others keep their gates and their guests.
LEMMA AdmittedMoves ==
    ASSUME SInv, NEW c \in Callers, NEW r \in Call, call' = [call EXCEPT ![c] = r],
           \A d \in Callers \ {c}, i \in Instances : gate'[i] = d <=> gate[i] = d,
           \A d \in Callers \ {c} : call[d].step \in InGuest => inst'[call[d].on].guest # 0,
           r.step \in {"gate", "ensure"} \cup InGuest => r.on \in Instances,
           r.step \in {"ensure"} \cup InGuest => \A i \in Instances : gate'[i] = c <=> i = r.on,
           r.step \in {"none", "gate", "render"} => \A i \in Instances : gate'[i] # c,
           r.step \in InGuest => inst'[r.on].guest # 0
    PROVE  /\ call' \in [Callers -> Call] /\ call'[c] = r
           /\ \A d \in Callers \ {c} : call'[d] = call[d]
           /\ Admitted'
<1>1. /\ call' \in [Callers -> Call] /\ call'[c] = r
      /\ \A d \in Callers \ {c} : call'[d] = call[d]
  BY Types
<1>2. ASSUME NEW d \in Callers
      PROVE  /\ call'[d].step \in {"gate", "ensure"} \cup InGuest => call'[d].on \in Instances
             /\ call'[d].step \in {"ensure"} \cup InGuest =>
                   \A i \in Instances : gate'[i] = d <=> i = call'[d].on
             /\ call'[d].step \in {"none", "gate", "render"} => \A i \in Instances : gate'[i] # d
             /\ call'[d].step \in InGuest => inst'[call'[d].on].guest # 0
  <2>1. CASE d = c
    BY <1>1, <2>1
  <2>2. CASE d # c
    <3>1. call'[d] = call[d]
      BY <1>1, <2>2
    <3>2. /\ call[d].step \in {"gate", "ensure"} \cup InGuest => call[d].on \in Instances
          /\ call[d].step \in {"ensure"} \cup InGuest => \A i \in Instances : gate[i] = d <=> i = call[d].on
          /\ call[d].step \in {"none", "gate", "render"} => \A i \in Instances : gate[i] # d
      BY Standing DEF SInv, Stands
    <3> QED
      BY <2>2, <3>1, <3>2
  <2> QED
    BY <2>1, <2>2
<1> QED
  BY <1>1, <1>2 DEF Admitted, Running, Guest, InGuest

\* A step of one caller that leaves the instances alone.
LEMMA CallerStep ==
    ASSUME SInv, NEW c \in Callers, NEW r \in Call, call' = [call EXCEPT ![c] = r],
           InstancesOnly, UNCHANGED <<inst, guests, spoilt>>,
           gate' \in [Instances -> Callers \cup {"close", Nil}], calls' \in 0..MaxCalls,
           active' \subseteq Callers, IsFiniteSet(active'), Cardinality(active') <= HTTPLimit,
           \/ /\ page' = page /\ r.expected \in 0..page.version
              /\ r.step = "update" /\ r.expected = page.version => r.meta = page.meta
           \/ /\ page'.version = page.version + 1 /\ page.version <= MaxEdits
              /\ page'.meta \in 1..page'.version /\ page' \in Page
              /\ r.expected = 0 /\ r.step # "update",
           \A d \in Callers \ {c}, i \in Instances : gate'[i] = d <=> gate[i] = d,
           r.step \in {"gate", "ensure"} \cup InGuest => r.on \in Instances,
           r.step \in {"ensure"} \cup InGuest => \A i \in Instances : gate'[i] = c <=> i = r.on,
           r.step \in {"none", "gate", "render"} => \A i \in Instances : gate'[i] # c,
           r.step \in InGuest => inst[r.on].guest # 0
    PROVE  SInv'
<1>1. \A d \in Callers \ {c} : call[d].step \in InGuest => inst'[call[d].on].guest # 0
  BY Standing DEF SInv, Stands
<1>2. /\ call' \in [Callers -> Call] /\ call'[c] = r
      /\ \A d \in Callers \ {c} : call'[d] = call[d]
      /\ Admitted'
  <2>1. r.step \in InGuest => inst'[r.on].guest # 0
    OBVIOUS
  <2> QED
    BY <1>1, <2>1, AdmittedMoves
<1>3. /\ page.version \in 1..(MaxEdits + 1) /\ page.meta \in 1..page.version /\ MaxEdits \in Nat
      /\ page \in Page
  BY SandboxAssumption DEF SInv, Typed
<1>4. /\ page'.version \in 1..(MaxEdits + 1) /\ page'.meta \in 1..page'.version /\ page' \in Page
      /\ \A v \in 0..page.version : v \in 0..page'.version /\ (v = page'.version => page' = page)
      /\ 0 \in 0..page'.version
  BY <1>3
<1>5. Typed'
  BY <1>2, <1>4 DEF SInv, Typed, InstancesOnly
<1>6. Cached' /\ CompiledCodeIsLeased'
  BY CacheAlone DEF InstancesOnly, SInv, Cached
<1>7. Fresh'
  BY GuestsAlone
<1>8. Reads'
  <2>1. ASSUME NEW d \in Callers
        PROVE  /\ call'[d].expected \in 0..page'.version
               /\ call'[d].step = "update" /\ call'[d].expected = page'.version => call'[d].meta = page'.meta
    <3>1. CASE d = c
      BY <1>2, <1>4, <3>1
    <3>2. CASE d # c
      <4>1. call'[d] = call[d] /\ call[d].expected \in 0..page.version
        BY <1>2, <3>2 DEF SInv, Reads
      <4>2. call[d].step = "update" /\ call[d].expected = page.version => call[d].meta = page.meta
        BY DEF SInv, Reads
      <4> QED
        BY <1>4, <4>1, <4>2
    <3> QED
      BY <3>1, <3>2
  <2> QED
    BY <2>1 DEF Reads
<1> QED
  BY <1>2, <1>5, <1>6, <1>7, <1>8 DEF SInv

\* The records a caller goes on with.
LEMMA Calls ==
    /\ NoCall \in Call /\ Quota \in Nat /\ 0 \in 0..Quota /\ Quota \in 0..Quota
    /\ NoCall.step = "none" /\ NoCall.expected = 0 /\ NoCall.meta = 0 /\ NoCall.on = Nil
    /\ \A c : Over(c) \in Call /\ Over(c).step \in {"none", "render"} /\ Over(c).expected = 0
    /\ LET r == [NoCall EXCEPT !.step = "render"] IN r \in Call /\ r.step = "render" /\ r.expected = 0
<1>1. Quota \in Nat /\ 0 \in 0..Quota /\ Quota \in 0..Quota
  BY SandboxAssumption
<1>2. /\ NoCall \in Call /\ NoCall.step = "none" /\ NoCall.expected = 0
      /\ NoCall.meta = 0 /\ NoCall.on = Nil
  BY <1>1 DEF Call, NoCall
<1>3. LET r == [NoCall EXCEPT !.step = "render"] IN r \in Call /\ r.step = "render" /\ r.expected = 0
  BY <1>2 DEF Call
<1>4. \A c : Over(c) \in Call /\ Over(c).step \in {"none", "render"} /\ Over(c).expected = 0
  BY <1>2, <1>3 DEF Over
<1> QED
  BY <1>1, <1>2, <1>3, <1>4

\* What stays typed.
LEMMA Standards ==
    ASSUME SInv
    PROVE  /\ gate \in [Instances -> Callers \cup {"close", Nil}] /\ calls \in 0..MaxCalls
           /\ active \subseteq Callers /\ IsFiniteSet(active) /\ Cardinality(active) <= HTTPLimit
           /\ \A c \in Callers : call[c] \in Call /\ call[c].expected \in 0..page.version
           /\ page.version \in 1..(MaxEdits + 1) /\ page.meta \in 1..page.version
           /\ MaxEdits \in Nat /\ page.version \in Nat /\ page.meta \in Nat /\ page \in Page
<1>1. page.version \in 1..(MaxEdits + 1) /\ page.meta \in 1..page.version /\ MaxEdits \in Nat
  BY SandboxAssumption DEF SInv, Typed
<1>2. page.version \in Nat /\ page.meta \in Nat
  BY <1>1
<1> QED
  BY <1>1, <1>2 DEF SInv, Typed, Reads
LEMMA AcquireKeeps ==
    ASSUME SInv, NEW c \in Callers, acquireInvocationGate(c)
    PROVE  SInv'
<1> DEFINE r == [call[c] EXCEPT !.step = "ensure"]
<1>0. /\ call[c].step = "gate" /\ gate[call[c].on] = Nil
      /\ gate' = [gate EXCEPT ![call[c].on] = c] /\ call' = [call EXCEPT ![c] = r]
      /\ InstancesOnly /\ UNCHANGED <<inst, guests, spoilt, active, page, calls>>
  BY DEF acquireInvocationGate, Step
<1>1. call[c].on \in Instances /\ \A i \in Instances : gate[i] # c
  BY <1>0, Standing DEF SInv, Stands
<1>2. r \in Call /\ r.step = "ensure" /\ r.on = call[c].on /\ r.expected = call[c].expected
  <2>1. call[c] \in Call
    BY Standards
  <2> QED
    BY <2>1 DEF Call
<1> HIDE DEF r
<1>3. /\ gate' \in [Instances -> Callers \cup {"close", Nil}]
      /\ \A d \in Callers \ {c}, i \in Instances : gate'[i] = d <=> gate[i] = d
      /\ \A i \in Instances : gate'[i] = c <=> i = r.on
  BY <1>0, <1>1, <1>2, Types
<1> QED
  BY <1>0, <1>1, <1>2, <1>3, Standards, CallerStep DEF InGuest

LEMMA GiveUpKeeps ==
    ASSUME SInv, NEW c \in Callers, GiveUpGate(c)
    PROVE  SInv'
<1>0. /\ call[c].step = "gate" /\ call' = [call EXCEPT ![c] = Over(c)]
      /\ InstancesOnly /\ UNCHANGED <<gate, inst, guests, spoilt, active, page, calls>>
  BY DEF GiveUpGate
<1>1. \A i \in Instances : gate[i] # c
  BY <1>0, Standing DEF SInv, Stands
<1>2. Over(c) \in Call /\ Over(c).step \in {"none", "render"} /\ Over(c).expected = 0 /\ 0 \in 0..page.version
  BY Calls, Standards
<1> QED
  BY <1>0, <1>1, <1>2, Standards, CallerStep DEF InGuest

LEMMA RenderedKeeps ==
    ASSUME SInv, NEW c \in Callers, Rendered(c)
    PROVE  SInv'
<1>0. /\ call[c].step = "render" /\ call' = [call EXCEPT ![c] = NoCall]
      /\ InstancesOnly /\ UNCHANGED <<gate, inst, guests, spoilt, active, page, calls>>
  BY DEF Rendered
<1>1. \A i \in Instances : gate[i] # c
  BY <1>0, Standing DEF SInv, Stands
<1>2. NoCall \in Call /\ NoCall.step = "none" /\ NoCall.expected = 0 /\ 0 \in 0..page.version
  BY Calls, Standards
<1> QED
  BY <1>0, <1>1, <1>2, Standards, CallerStep DEF InGuest

LEMMA InvokeKeeps ==
    ASSUME SInv, NEW c \in Callers, NEW i \in Instances, NEW stage, invoke(c, i, stage)
    PROVE  SInv'
<1> DEFINE b == call[c].step = "render"
           r == [NoCall EXCEPT !.step = "gate", !.on = i, !.stage = stage,
                               !.remaining = Quota, !.nested = b]
<1>0. /\ calls < MaxCalls /\ calls' = calls + 1 /\ call[c].step \in {"none", "render"}
      /\ call' = [call EXCEPT ![c] = r] /\ stage \in Modules[i]
      /\ InstancesOnly /\ UNCHANGED <<gate, inst, guests, spoilt, active, page>>
  BY DEF invoke
<1>1. \A j \in Instances : gate[j] # c
  BY <1>0, Standing DEF SInv, Stands
<1>2. stage \in RenderStages \cup OwnStages /\ b \in BOOLEAN
  BY <1>0, SandboxAssumption
<1> HIDE DEF b
<1>3. r \in Call /\ r.step = "gate" /\ r.on = i /\ r.expected = 0
  BY <1>2, Calls DEF Call
<1> HIDE DEF r
<1>4. calls' \in 0..MaxCalls /\ 0 \in 0..page.version
  <2>1. calls \in 0..MaxCalls /\ MaxCalls \in Nat
    BY Standards, SandboxAssumption
  <2> QED
    BY <1>0, <2>1, Standards
<1> QED
  BY <1>0, <1>1, <1>3, <1>4, Standards, CallerStep DEF InGuest

LEMMA ContributionKeeps ==
    ASSUME SInv, NEW c \in Callers, NEW i \in Instances, Contribution(c, i)
    PROVE  SInv'
<1>1. PICK stage : invoke(c, i, stage)
  BY DEF Contribution, PreprocessContent, Preprocess, Highlight, Macro, Widget, WidgetCommand,
         RunAdminAction, Export, Changed
<1> QED
  BY <1>1, InvokeKeeps

\* The gate of the call's instance is left: it is nobody's now.
LEMMA GateLeft ==
    ASSUME SInv, NEW c \in Callers, call[c].step \in {"ensure"} \cup InGuest, LeaveGate(c)
    PROVE  /\ gate' \in [Instances -> Callers \cup {"close", Nil}]
           /\ \A d \in Callers \ {c}, i \in Instances : gate'[i] = d <=> gate[i] = d
           /\ \A i \in Instances : gate'[i] # c
<1>1. call[c].on \in Instances /\ \A i \in Instances : gate[i] = c <=> i = call[c].on
  BY Standing DEF SInv, Stands
<1> QED
  BY <1>1, Types DEF LeaveGate

\* The caller in the guest, and nobody else, has the gate of its instance.
LEMMA AloneInGuest ==
    ASSUME SInv, NEW c \in Callers, call[c].step \in {"ensure"} \cup InGuest
    PROVE  /\ call[c].on \in Instances /\ gate[call[c].on] = c
           /\ \A d \in Callers \ {c} : call[d].step \in InGuest => call[d].on # call[c].on
<1>1. call[c].on \in Instances /\ gate[call[c].on] = c
  BY Standing DEF SInv, Stands
<1>2. ASSUME NEW d \in Callers \ {c}, call[d].step \in InGuest
      PROVE  call[d].on # call[c].on
  <2>1. call[d].on \in Instances /\ gate[call[d].on] = d
    BY <1>2, Standing DEF SInv, Stands
  <2> QED
    BY <1>1, <2>1
<1> QED
  BY <1>1, <1>2

LEMMA FailKeeps ==
    ASSUME SInv, NEW c \in Callers, Running(c), FailInvocation(c)
    PROVE  SInv'
<1>1. PICK i : i = call[c].on
  OBVIOUS
<1>2. PICK g : g = inst[i].guest
  OBVIOUS
<1>3. /\ i \in Instances /\ gate[i] = c /\ g # 0 /\ call[c].step \in InGuest
      /\ \A d \in Callers \ {c} : call[d].step \in InGuest => call[d].on \in Instances \ {i}
  BY <1>1, <1>2, AloneInGuest, Standing DEF SInv, Stands, Running, InGuest
<1>4. /\ spoilt' = spoilt \cup {g} /\ inst' = [inst EXCEPT ![i].guest = 0] /\ LeaveGate(c)
      /\ active' = active \ {c} /\ call' = [call EXCEPT ![c] = Over(c)]
      /\ InstancesOnly /\ UNCHANGED <<guests, page, calls>>
  BY <1>1, <1>2 DEF FailInvocation, discardInvocationModule, Guest
<1>5. /\ inst \in [Instances -> Instance] /\ guests \in Nat /\ spoilt \subseteq 1..guests
      /\ g \in 0..guests /\ call \in [Callers -> Call]
  BY <1>2, <1>3, Types DEF SInv, Fresh
<1>6. LET x == [inst[i] EXCEPT !.guest = 0] IN
      x \in Instance /\ x.phase = inst[i].phase /\ x.lease = inst[i].lease /\ x.guest = 0
  BY <1>3, <1>5 DEF Instance
<1>7. /\ inst' \in [Instances -> Instance] /\ inst'[i].guest = 0
      /\ \A j \in Instances \ {i} : inst'[j] = inst[j]
      /\ \A j \in Instances : inst'[j].lease = inst[j].lease /\ inst'[j].phase = inst[j].phase
  BY <1>3, <1>4, <1>5, <1>6
<1>8. Over(c) \in Call /\ Over(c).step \in {"none", "render"} /\ Over(c).expected = 0 /\ 0 \in 0..page.version
  BY Calls, Standards
<1>9. /\ gate' \in [Instances -> Callers \cup {"close", Nil}]
      /\ \A d \in Callers \ {c}, j \in Instances : gate'[j] = d <=> gate[j] = d
      /\ \A j \in Instances : gate'[j] # c
  BY <1>3, <1>4, GateLeft DEF InGuest
<1>10. /\ call' \in [Callers -> Call] /\ call'[c] = Over(c)
       /\ \A d \in Callers \ {c} : call'[d] = call[d]
       /\ Admitted'
  <2>1. \A d \in Callers \ {c} : call[d].step \in InGuest => inst'[call[d].on].guest # 0
    BY <1>3, <1>7, Standing DEF SInv, Stands
  <2> QED
    BY <1>4, <1>8, <1>9, <2>1, AdmittedMoves DEF InGuest
<1>11. Fresh'
  <2>1. \A j \in Instances :
           /\ inst[j].guest \in 0..guests /\ inst[j].guest \notin spoilt
           /\ \A h \in Instances \ {j} : inst[j].guest # 0 => inst[j].guest # inst[h].guest
    BY DEF SInv, Fresh
  <2>2. 0 \notin spoilt /\ 0 \in 0..guests
    BY <1>5
  <2>3. ASSUME NEW j \in Instances
        PROVE  inst'[j].guest \in 0..guests /\ inst'[j].guest \notin spoilt'
    <3>1. CASE j = i
      BY <1>3, <1>4, <1>7, <2>2, <3>1
    <3>2. CASE j # i
      BY <1>2, <1>3, <1>4, <1>7, <2>1, <3>2
    <3> QED
      BY <3>1, <3>2
  <2>4. ASSUME NEW j \in Instances, NEW h \in Instances \ {j}, inst'[j].guest # 0
        PROVE  inst'[j].guest # inst'[h].guest
    BY <1>7, <2>1, <2>4
  <2> QED
    BY <1>4, <2>3, <2>4 DEF Fresh
<1>12. /\ active' \subseteq Callers /\ IsFiniteSet(active') /\ Cardinality(active') <= HTTPLimit
  <2>1. active' \subseteq active /\ IsFiniteSet(active) /\ HTTPLimit \in Nat
    BY <1>4, Standards, SandboxAssumption
  <2>2. IsFiniteSet(active') /\ Cardinality(active') <= Cardinality(active)
    BY <2>1, FS_Subset
  <2>3. Cardinality(active') \in Nat /\ Cardinality(active) \in Nat
    BY <2>1, <2>2, FS_CardinalityType
  <2> QED
    BY <2>1, <2>2, <2>3, Standards
<1>13. spoilt' \subseteq 1..guests
  BY <1>3, <1>4, <1>5
<1>14. Typed'
  BY <1>4, <1>7, <1>9, <1>10, <1>12, <1>13 DEF SInv, Typed, InstancesOnly
<1>15. Cached' /\ CompiledCodeIsLeased'
  BY <1>4, <1>7, CacheAlone DEF InstancesOnly, SInv, Cached
<1>16. Reads'
  BY <1>4, <1>8, <1>10 DEF SInv, Reads
<1> QED
  BY <1>10, <1>11, <1>14, <1>15, <1>16 DEF SInv
LEMMA EnsureKeeps ==
    ASSUME SInv, NEW c \in Callers, ensureInvocationModule(c)
    PROVE  SInv'
<1>1. PICK i : i = call[c].on
  OBVIOUS
<1>2. /\ call[c].step = "ensure" /\ InstancesOnly /\ UNCHANGED <<spoilt, active, page, calls>>
      /\ i \in Instances /\ \A j \in Instances : gate[j] = c <=> j = i
      /\ \A d \in Callers \ {c} : call[d].step \in InGuest => call[d].on \in Instances \ {i}
  BY <1>1, AloneInGuest, Standing DEF ensureInvocationModule, SInv, Stands, InGuest
<1> DEFINE r == [call[c] EXCEPT !.step = "execute"]
<1>3. r \in Call /\ r.step = "execute" /\ r.on = i /\ r.expected = call[c].expected
  <2>1. call[c] \in Call
    BY Standards
  <2> QED
    BY <1>1, <2>1 DEF Call
<1>4. CASE inst[i].guest # 0 /\ Step(c, "execute") /\ UNCHANGED <<gate, inst, guests>>
  <2>1. call' = [call EXCEPT ![c] = r]
    BY <1>4 DEF Step
  <2> HIDE DEF r
  <2> QED
    BY <1>2, <1>3, <1>4, <2>1, Standards, CallerStep DEF InGuest
<1>5. CASE inst[i].lease # 0 /\ instantiate(i) /\ Step(c, "execute") /\ UNCHANGED gate
  <2>1. call' = [call EXCEPT ![c] = r]
    BY <1>5 DEF Step
  <2> HIDE DEF r
  <2>2. /\ inst' \in [Instances -> Instance] /\ guests' \in 0..MaxGuests /\ guests' = guests + 1
        /\ \A j \in Instances \ {i} : inst'[j] = inst[j]
        /\ inst'[i].phase = "loaded" /\ inst'[i].lease = inst[i].lease
        /\ inst'[i].guest # 0 /\ spoilt \subseteq 1..guests' /\ Fresh'
    BY <1>2, <1>5, GuestStarts
  <2>3. /\ call' \in [Callers -> Call] /\ call'[c] = r
        /\ \A d \in Callers \ {c} : call'[d] = call[d]
        /\ Admitted'
    <3>1. \A d \in Callers \ {c} : call[d].step \in InGuest => inst'[call[d].on].guest # 0
      BY <1>2, <2>2, Standing DEF SInv, Stands
    <3> QED
      BY <1>2, <1>3, <1>5, <2>1, <2>2, <3>1, AdmittedMoves DEF InGuest
  <2>4. Typed'
    BY <1>2, <1>5, <2>2, <2>3 DEF SInv, Typed, InstancesOnly
  <2>5. Cached' /\ CompiledCodeIsLeased'
    <3>1. \A j \in Instances :
             /\ inst'[j].lease = inst[j].lease
             /\ inst'[j].phase \in {"absent", "waiting", "compiling"} => inst[j].lease = 0
             /\ inst'[j].phase = "initializing" => inst[j].lease # 0
      BY <2>2 DEF SInv, Cached
    <3> QED
      BY <1>2, <3>1, CacheAlone DEF InstancesOnly
  <2>6. Reads'
    BY <1>2, <1>3, <2>3, Standards DEF SInv, Reads
  <2> QED
    BY <2>2, <2>3, <2>4, <2>5, <2>6 DEF SInv
<1>6. CASE LeaveGate(c) /\ call' = [call EXCEPT ![c] = Over(c)] /\ UNCHANGED <<inst, guests>>
  <2>1. Over(c) \in Call /\ Over(c).step \in {"none", "render"} /\ Over(c).expected = 0 /\ 0 \in 0..page.version
    BY Calls, Standards
  <2>2. /\ gate' \in [Instances -> Callers \cup {"close", Nil}]
        /\ \A d \in Callers \ {c}, j \in Instances : gate'[j] = d <=> gate[j] = d
        /\ \A j \in Instances : gate'[j] # c
    BY <1>2, <1>6, GateLeft
  <2> QED
    BY <1>2, <1>6, <2>1, <2>2, Standards, CallerStep DEF InGuest
<1> QED
  BY <1>1, <1>4, <1>5, <1>6 DEF ensureInvocationModule

LEMMA AnsweredKeeps ==
    ASSUME SInv, NEW c \in Callers, NEW a, Answered(c, a)
    PROVE  SInv'
<1>0. call[c].step = "execute" /\ Running(c)
  BY DEF Answered, Running, InGuest
<1>1. CASE FailInvocation(c)
  BY <1>0, <1>1, FailKeeps
<1>2. CASE ~FailInvocation(c)
  <2> DEFINE r == IF "markdown" \in a.parts /\ ~call[c].nested
                  THEN [NoCall EXCEPT !.step = "render"] ELSE Over(c)
  <2>1. /\ call' = [call EXCEPT ![c] = r] /\ LeaveGate(c)
        /\ InstancesOnly /\ UNCHANGED <<inst, guests, spoilt, active, page, calls>>
    BY <1>2 DEF Answered
  <2>2. r \in Call /\ r.step \in {"none", "render"} /\ r.expected = 0 /\ 0 \in 0..page.version
    BY Calls, Standards
  <2> HIDE DEF r
  <2>3. /\ gate' \in [Instances -> Callers \cup {"close", Nil}]
        /\ \A d \in Callers \ {c}, j \in Instances : gate'[j] = d <=> gate[j] = d
        /\ \A j \in Instances : gate'[j] # c
    BY <1>0, <2>1, GateLeft DEF InGuest
  <2> QED
    BY <2>1, <2>2, <2>3, Standards, CallerStep DEF InGuest
<1> QED
  BY <1>1, <1>2

\* A call into the host counts.
LEMMA Counted ==
    ASSUME SInv, NEW c \in Callers, NEW m, authorizeCapabilityCall(c, m)
    PROVE  /\ call[c].step = "execute" /\ call[c] \in Call
           /\ call[c].remaining - 1 \in 0..Quota
           /\ call[c].on \in Instances /\ inst[call[c].on].guest # 0
           /\ \A i \in Instances : gate[i] = c <=> i = call[c].on
<1>1. call[c].step = "execute" /\ call[c].remaining > 0 /\ call[c] \in Call /\ Quota \in Nat
  BY Standards, Calls DEF authorizeCapabilityCall
<1>2. call[c].remaining \in 0..Quota
  BY <1>1 DEF Call
<1>3. call[c].remaining - 1 \in 0..Quota
  BY <1>1, <1>2
<1> QED
  BY <1>1, <1>3, Standing DEF SInv, Stands, InGuest

LEMMA HostCallKeeps ==
    ASSUME SInv, NEW c \in Callers, hostCall(c)
    PROVE  SInv'
<1> DEFINE v == call[c].remaining - 1
           r == [call[c] EXCEPT !.remaining = v]
<1>0. /\ \E m : authorizeCapabilityCall(c, m)
      /\ call' = [call EXCEPT ![c] = r]
      /\ InstancesOnly /\ UNCHANGED <<gate, inst, guests, spoilt, active, page, calls>>
  BY DEF hostCall
<1>1. /\ call[c].step = "execute" /\ call[c] \in Call /\ v \in 0..Quota
      /\ call[c].on \in Instances /\ inst[call[c].on].guest # 0
      /\ \A i \in Instances : gate[i] = c <=> i = call[c].on
  BY <1>0, Counted
<1> HIDE DEF v
<1>2. r \in Call /\ r.step = "execute" /\ r.on = call[c].on /\ r.expected = call[c].expected
  BY <1>1 DEF Call
<1> HIDE DEF r
<1> QED
  BY <1>0, <1>1, <1>2, Standards, CallerStep DEF InGuest

LEMMA HTTPCallKeeps ==
    ASSUME SInv, NEW c \in Callers, httpCall(c)
    PROVE  SInv'
<1> DEFINE free == Cardinality(active) < HTTPLimit
           v == call[c].remaining - 1
           s == IF free THEN "http" ELSE "execute"
           r == [call[c] EXCEPT !.remaining = v, !.step = s]
<1>0. /\ authorizeCapabilityCall(c, "http.do")
      /\ active' = IF free THEN active \cup {c} ELSE active
      /\ InstancesOnly /\ UNCHANGED <<gate, inst, guests, spoilt, page, calls>>
  BY DEF httpCall
<1>1. /\ call[c].step = "execute" /\ call[c] \in Call /\ v \in 0..Quota
      /\ call[c].on \in Instances /\ inst[call[c].on].guest # 0
      /\ \A i \in Instances : gate[i] = c <=> i = call[c].on
  BY <1>0, Counted
<1>2. call' = [call EXCEPT ![c] = r]
  BY <1>1, Types DEF httpCall, Call
<1>3. s \in {"execute", "http"}
  OBVIOUS
<1>4. /\ active' \subseteq Callers /\ IsFiniteSet(active') /\ Cardinality(active') <= HTTPLimit
  <2>1. /\ active \subseteq Callers /\ IsFiniteSet(active) /\ Cardinality(active) <= HTTPLimit
        /\ HTTPLimit \in Nat /\ Cardinality(active) \in Nat
    BY Standards, SandboxAssumption, FS_CardinalityType
  <2>2. /\ IsFiniteSet(active \cup {c})
        /\ Cardinality(active \cup {c}) = IF c \in active THEN Cardinality(active) ELSE Cardinality(active) + 1
    BY <2>1, FS_AddElement
  <2> QED
    BY <1>0, <2>1, <2>2
<1> HIDE DEF v, s, free
<1>5. r \in Call /\ r.step = s /\ r.on = call[c].on /\ r.expected = call[c].expected
  BY <1>1, <1>3 DEF Call
<1> HIDE DEF r
<1> QED
  BY <1>0, <1>1, <1>2, <1>3, <1>4, <1>5, Standards, CallerStep DEF InGuest

LEMMA ResponseKeeps ==
    ASSUME SInv, NEW c \in Callers, readPluginHTTPResponse(c)
    PROVE  SInv'
<1> DEFINE r == [call[c] EXCEPT !.step = "execute"]
<1>0. /\ call[c].step = "http" /\ active' = active \ {c} /\ call' = [call EXCEPT ![c] = r]
      /\ InstancesOnly /\ UNCHANGED <<gate, inst, guests, spoilt, page, calls>>
  BY DEF readPluginHTTPResponse, Step
<1>1. /\ call[c].on \in Instances /\ inst[call[c].on].guest # 0
      /\ \A i \in Instances : gate[i] = c <=> i = call[c].on
  BY <1>0, Standing DEF SInv, Stands, InGuest
<1>2. r \in Call /\ r.step = "execute" /\ r.on = call[c].on /\ r.expected = call[c].expected
  <2>1. call[c] \in Call
    BY Standards
  <2> QED
    BY <2>1 DEF Call
<1> HIDE DEF r
<1>3. /\ active' \subseteq Callers /\ IsFiniteSet(active') /\ Cardinality(active') <= HTTPLimit
  <2>1. active' \subseteq active /\ IsFiniteSet(active) /\ HTTPLimit \in Nat
    BY <1>0, Standards, SandboxAssumption
  <2>2. IsFiniteSet(active') /\ Cardinality(active') <= Cardinality(active)
    BY <2>1, FS_Subset
  <2>3. Cardinality(active') \in Nat /\ Cardinality(active) \in Nat
    BY <2>1, <2>2, FS_CardinalityType
  <2> QED
    BY <2>1, <2>2, <2>3, Standards
<1> QED
  BY <1>0, <1>1, <1>2, <1>3, Standards, CallerStep DEF InGuest

\* The metadata are read when the host loads the rest of the page.
LEMMA UpdateContentKeeps ==
    ASSUME SInv, NEW c \in Callers, NEW e \in 1..page.version, UpdateContent(c, e)
    PROVE  SInv'
<1> DEFINE v == call[c].remaining - 1
           m == page.meta
           g == page.tags
           r == [call[c] EXCEPT !.step = "update", !.remaining = v, !.expected = e, !.meta = m, !.tags = g]
<1>0. /\ authorizeCapabilityCall(c, "pages.update-content")
      /\ InstancesOnly /\ UNCHANGED <<gate, inst, guests, spoilt, active, page, calls>>
  BY DEF UpdateContent
<1>1. /\ call[c].step = "execute" /\ call[c] \in Call /\ v \in 0..Quota
      /\ call[c].on \in Instances /\ inst[call[c].on].guest # 0
      /\ \A i \in Instances : gate[i] = c <=> i = call[c].on
  BY <1>0, Counted
<1>2. call' = [call EXCEPT ![c] = r]
  BY <1>1, Types DEF UpdateContent, Call
<1>3. m \in Nat /\ e \in Nat /\ e \in 0..page.version /\ g \in BOOLEAN
  BY Standards DEF Page
<1> HIDE DEF v, m, g
<1>4. r \in Call /\ r.step = "update" /\ r.on = call[c].on /\ r.expected = e /\ r.meta = m
  BY <1>1, <1>3 DEF Call
<1> HIDE DEF r
<1>5. r.expected \in 0..page.version /\ r.meta = page.meta
  BY <1>3, <1>4 DEF m
<1> QED
  BY <1>0, <1>1, <1>2, <1>4, <1>5, Standards, CallerStep DEF InGuest

LEMMA SaveContentKeeps ==
    ASSUME SInv, NEW c \in Callers, SaveContent(c)
    PROVE  SInv'
<1> DEFINE r == [call[c] EXCEPT !.step = "execute", !.expected = 0, !.meta = 0, !.tags = FALSE]
<1>0. /\ call[c].step = "update" /\ call[c] \in Call
      /\ InstancesOnly /\ UNCHANGED <<gate, inst, guests, spoilt, active, calls>>
  BY Standards DEF SaveContent
<1>1. /\ call[c].on \in Instances /\ inst[call[c].on].guest # 0
      /\ \A i \in Instances : gate[i] = c <=> i = call[c].on
  BY <1>0, Standing DEF SInv, Stands, InGuest
<1>2. call' = [call EXCEPT ![c] = r]
  BY <1>0, Types DEF SaveContent, Call
<1>3. r \in Call /\ r.step = "execute" /\ r.on = call[c].on /\ r.expected = 0
  BY <1>0 DEF Call
<1> HIDE DEF r
<1>4. \/ page' = page
      \/ /\ page'.version = page.version + 1 /\ page.version <= MaxEdits
         /\ page'.meta \in 1..page'.version /\ page' \in Page
  <2>1. CASE page.version = call[c].expected
    <3>1. call[c].meta = page.meta
      BY <1>0, <2>1 DEF SInv, Reads
    <3>2. /\ page' = [version |-> page.version + 1, meta |-> page.meta, tags |-> call[c].tags]
          /\ page.version <= MaxEdits /\ call[c].tags \in BOOLEAN
      BY <1>0, <2>1, <3>1 DEF SaveContent, Call
    <3>3. page'.version = page.version + 1 /\ page'.meta = page.meta /\ page' \in Page
      BY <3>2, Standards DEF Page
    <3> QED
      BY <3>2, <3>3, Standards
  <2>2. CASE page.version # call[c].expected
    BY <2>2 DEF SaveContent
  <2> QED
    BY <2>1, <2>2
<1>5. 0 \in 0..page.version
  BY Standards
<1> QED
  BY <1>0, <1>1, <1>2, <1>3, <1>4, <1>5, Standards, CallerStep DEF InGuest

LEMMA EditPageKeeps ==
    ASSUME SInv, NEW meta \in BOOLEAN, NEW tags \in BOOLEAN, EditPage(meta, tags)
    PROVE  SInv'
<1>1. /\ page.version <= MaxEdits /\ page'.version = page.version + 1 /\ page' \in Page
      /\ page'.meta = page.version + 1 \/ page'.meta = page.meta
      /\ UNCHANGED <<retained, entries, compiling, inst, gate, guests, spoilt, call, active, calls>>
  BY Standards DEF EditPage, PageOnly, Page
<1>2. /\ page'.version \in 1..(MaxEdits + 1) /\ page'.meta \in 1..page'.version
      /\ \A v \in 0..page.version : v \in 0..page'.version /\ v # page'.version
  BY <1>1, Standards
<1>3. Typed'
  BY <1>1, <1>2 DEF SInv, Typed
<1>4. Cached' /\ CompiledCodeIsLeased'
  BY <1>1, CacheAlone DEF SInv, Cached
<1>5. Admitted'
  BY <1>1 DEF SInv, Admitted, Running, Guest
<1>6. Fresh'
  BY <1>1, GuestsAlone
<1>7. Reads'
  BY <1>1, <1>2 DEF SInv, Reads
<1> QED
  BY <1>3, <1>4, <1>5, <1>6, <1>7 DEF SInv

LEMMA BulkAddPageTagKeeps ==
    ASSUME SInv, BulkAddPageTag
    PROVE  SInv'
<1>1. /\ page' = [page EXCEPT !.tags = TRUE]
      /\ UNCHANGED <<retained, entries, compiling, inst, gate, guests, spoilt, call, active, calls>>
  BY DEF BulkAddPageTag, PageOnly
<1>2. page'.version = page.version /\ page'.meta = page.meta /\ page' \in Page
  BY <1>1, Standards DEF Page
<1>3. Typed'
  BY <1>1, <1>2 DEF SInv, Typed
<1>4. Cached' /\ CompiledCodeIsLeased'
  BY <1>1, CacheAlone DEF SInv, Cached
<1>5. Admitted'
  BY <1>1 DEF SInv, Admitted, Running, Guest
<1>6. Fresh'
  BY <1>1, GuestsAlone
<1>7. Reads'
  BY <1>1, <1>2 DEF SInv, Reads
<1> QED
  BY <1>3, <1>4, <1>5, <1>6, <1>7 DEF SInv

-----------------------------------------------------------------------------
(* The invariant and the theorems *)

LEMMA Initially == Init => SInv
<1> SUFFICES ASSUME Init PROVE SInv
  OBVIOUS
<1>0. /\ retained = <<>> /\ entries = <<>> /\ compiling = Nil
      /\ inst = [i \in Instances |-> Absent] /\ gate = [i \in Instances |-> Nil]
      /\ guests = 0 /\ spoilt = {} /\ call = [c \in Callers |-> NoCall] /\ active = {}
      /\ page = [version |-> 1, meta |-> 1, tags |-> FALSE] /\ calls = 0
      /\ {HTTPLimit, MaxGuests, MaxCalls, MaxEdits, RetainedLimit} \subseteq Nat
      /\ Nil \notin Callers
  BY SandboxAssumption DEF Init
<1>1. Absent \in Instance /\ Absent.phase = "absent" /\ Absent.lease = 0 /\ Absent.guest = 0
  BY DEF Absent, Instance
<1>2. /\ Entries = {} /\ DOMAIN retained = {} /\ Len(retained) = 0
  BY <1>0 DEF Entries
<1>3. IsFiniteSet(active) /\ Cardinality(active) = 0
  BY <1>0, FS_EmptySet
<1>4. NoCall \in Call /\ NoCall.step = "none" /\ NoCall.expected = 0
  BY Calls
<1> HIDE DEF Absent, NoCall
<1>5. Typed
  <2>1. page.version \in 1..(MaxEdits + 1) /\ page.meta \in 1..page.version /\ page \in Page
    BY <1>0 DEF Page
  <2>2. entries \in Seq(Entry) /\ retained \in Seq(Nat)
    BY <1>0
  <2>3. guests \in 0..MaxGuests /\ calls \in 0..MaxCalls /\ spoilt \subseteq 1..guests
    BY <1>0
  <2>4. active \subseteq Callers /\ Cardinality(active) <= HTTPLimit
    BY <1>0, <1>3
  <2> QED
    BY <1>0, <1>1, <1>3, <1>4, <2>1, <2>2, <2>3, <2>4 DEF Typed
<1>6. Cached /\ CompiledCodeIsLeased
  BY <1>0, <1>1, <1>2 DEF Cached, CompiledCodeIsLeased
<1>7. Admitted /\ Fresh /\ Reads
  BY <1>0, <1>1, <1>4 DEF Admitted, Fresh, Reads, Running, Guest, InGuest
<1> QED
  BY <1>5, <1>6, <1>7 DEF SInv

LEMMA LoadingKeeps ==
    ASSUME SInv, NEW i \in Instances, Loading(i)
    PROVE  SInv'
<1>1. CASE Load(i)
  BY <1>1, LoadKeeps
<1>2. CASE AwaitCompilation(i)
  BY <1>2, AwaitCompilationKeeps
<1>3. CASE compile(i)
  BY <1>3, CompileKeeps
<1>4. CASE Initialize(i)
  BY <1>4, InitializeKeeps
<1>5. CASE AwaitDrain(i)
  BY <1>5, AwaitDrainKeeps
<1>6. CASE Close(i)
  BY <1>6, CloseKeeps
<1> QED
  BY <1>1, <1>2, <1>3, <1>4, <1>5, <1>6 DEF Loading

LEMMA CallingKeeps ==
    ASSUME SInv, NEW c \in Callers, Calling(c)
    PROVE  SInv'
<1>1. CASE \E i \in Instances : Contribution(c, i)
  BY <1>1, ContributionKeeps
<1>2. CASE acquireInvocationGate(c)
  BY <1>2, AcquireKeeps
<1>3. CASE GiveUpGate(c)
  BY <1>3, GiveUpKeeps
<1>4. CASE ensureInvocationModule(c)
  BY <1>4, EnsureKeeps
<1>5. CASE \E r \in Answers : Answered(c, r)
  BY <1>5, AnsweredKeeps
<1>6. CASE CutOff(c)
  BY <1>6, FailKeeps DEF CutOff
<1>7. CASE Rendered(c)
  BY <1>7, RenderedKeeps
<1>8. CASE hostCall(c)
  BY <1>8, HostCallKeeps
<1>9. CASE httpCall(c)
  BY <1>9, HTTPCallKeeps
<1>10. CASE readPluginHTTPResponse(c)
  BY <1>10, ResponseKeeps
<1>11. CASE \E v \in 1..page.version : UpdateContent(c, v)
  BY <1>11, UpdateContentKeeps
<1>12. CASE SaveContent(c)
  BY <1>12, SaveContentKeeps
<1> QED
  BY <1>1, <1>2, <1>3, <1>4, <1>5, <1>6, <1>7, <1>8, <1>9, <1>10, <1>11, <1>12 DEF Calling

LEMMA StepKeeps ==
    ASSUME SInv, [Next]_vars
    PROVE  SInv'
<1>1. CASE UNCHANGED vars
  <2>1. Typed'
    BY <1>1 DEF vars, SInv, Typed
  <2>2. Cached' /\ CompiledCodeIsLeased'
    BY <1>1, CacheAlone DEF vars, SInv, Cached
  <2>3. Admitted' /\ Reads' /\ Fresh'
    BY <1>1, CallersAlone, GuestsAlone DEF vars
  <2> QED
    BY <2>1, <2>2, <2>3 DEF SInv
<1>2. CASE \E i \in Instances : Loading(i)
  BY <1>2, LoadingKeeps
<1>3. CASE \E c \in Callers : Calling(c)
  BY <1>3, CallingKeeps
<1>4. CASE \E meta, tags \in BOOLEAN : EditPage(meta, tags)
  BY <1>4, EditPageKeeps
<1>5. CASE BulkAddPageTag
  BY <1>5, BulkAddPageTagKeeps
<1> QED
  BY <1>1, <1>2, <1>3, <1>4, <1>5 DEF Next

\* The invariant holds of every run.
THEOREM Invariance == Spec => []SInv
<1>1. Init => SInv
  BY Initially
<1>2. SInv /\ [Next]_vars => SInv'
  BY StepKeeps
<1> QED
  BY <1>1, <1>2, PTL DEF Spec

\* Every variable keeps its range: an entry has no more leases than there are instances,
\* and what is not retired is what is retained.
THEOREM TypeCorrectness == Spec => []TypeOK
<1>1. SInv => TypeOK
  <2> SUFFICES ASSUME SInv PROVE TypeOK
    OBVIOUS
  <2>1. \A k \in Entries : entries[k].refs \in 0..Cardinality(Instances)
    <3> SUFFICES ASSUME NEW k \in Entries PROVE entries[k].refs \in 0..Cardinality(Instances)
      OBVIOUS
    <3>1. Leasing(k) \in SUBSET Instances /\ IsFiniteSet(Instances)
      BY SandboxAssumption DEF Leasing
    <3>2. /\ Cardinality(Leasing(k)) <= Cardinality(Instances) /\ IsFiniteSet(Leasing(k))
      BY <3>1, FS_Subset
    <3>3. Cardinality(Leasing(k)) \in Nat /\ Cardinality(Instances) \in Nat
      BY <3>1, <3>2, FS_CardinalityType
    <3>4. entries[k].refs = Cardinality(Leasing(k))
      BY CacheFacts
    <3> QED
      BY <3>2, <3>3, <3>4
  <2>2. \A i \in Instances :
           /\ inst[i].phase \in {"absent", "waiting", "compiling", "initializing", "loaded", "failed", "closed"}
           /\ inst[i].lease \in Entries \cup {0}
           /\ inst[i].guest \in 0..guests
    BY DEF SInv, Typed, Cached, Fresh, Instance
  <2>3. \A c \in Callers : call[c].remaining \in 0..Quota /\ call[c].expected \in 0..page.version
    BY DEF SInv, Typed, Reads, Call
  <2> QED
    BY <2>1, <2>2, <2>3 DEF TypeOK, SInv, Typed, Cached, Page
<1> QED
  BY <1>1, Invariance, PTL

\* Compiled code is open exactly as long as it is retained or leased, every lease is
\* counted, and no binary is retained twice (cache.go), for any number of instances,
\* binaries and places in the cache.
THEOREM CodeOutlivesItsLeases == Spec => []CompiledCodeIsLeased
<1>1. SInv => CompiledCodeIsLeased
  BY DEF SInv
<1> QED
  BY <1>1, Invariance, PTL

\* A guest runs one call at a time, on behalf of the caller with its gate, and none after
\* one in it went wrong; nobody waits for a gate while holding one (Instance, invoke).
THEOREM OneCallAtATime == Spec => []GuestsTakeTurns
<1>1. SInv => GuestsTakeTurns
  <2> SUFFICES ASSUME SInv, NEW c \in Callers
               PROVE  /\ Running(c) => gate[call[c].on] = c /\ Guest(c) # 0 /\ Guest(c) \notin spoilt
                      /\ call[c].step \in {"none", "gate", "render"} => \A i \in Instances : gate[i] # c
    BY DEF GuestsTakeTurns
  <2> QED
    BY DEF SInv, Admitted, Fresh, Running, Guest, InGuest
<1> QED
  BY <1>1, Invariance, PTL

\* What a plugin writes replaces the version its guest had in mind, with the metadata of
\* that version (UpdateContent, Save), whatever was saved between.
THEOREM WritesReplaceWhatWasRead == Spec => UpdateReplacesWhatWasRead
<1>1. ASSUME SInv, [Next]_vars, NEW c \in Callers,
             call[c].step = "update", call'[c].step = "execute", page' # page
      PROVE  page.version = call[c].expected /\ page'.meta = page.meta
  <2>1. SaveContent(c)
    <3>1. ASSUME call' = call PROVE FALSE
      BY <1>1, <3>1
    <3>2. ~UNCHANGED vars /\ ~BulkAddPageTag /\ ~\E meta, tags \in BOOLEAN : EditPage(meta, tags)
      BY <3>1 DEF vars, EditPage, BulkAddPageTag, PageOnly
    <3>3. ~\E i \in Instances : Loading(i)
      BY <3>1 DEF Loading, Load, AwaitCompilation, compile, Initialize, AwaitDrain, Close, CacheOnly
    <3>4. PICK d \in Callers : Calling(d)
      BY <1>1, <3>2, <3>3 DEF Next
    <3>5. ASSUME page' = page PROVE FALSE
      BY <1>1, <3>5
    <3>6. SaveContent(d)
      <4>1. ~\E i \in Instances : Contribution(d, i)
        BY <3>5 DEF Contribution, PreprocessContent, Preprocess, Highlight, Macro, Widget,
                    WidgetCommand, RunAdminAction, Export, Changed, invoke
      <4>2. ~acquireInvocationGate(d) /\ ~GiveUpGate(d) /\ ~ensureInvocationModule(d)
        BY <3>5 DEF acquireInvocationGate, GiveUpGate, ensureInvocationModule
      <4>3. ~(\E r \in Answers : Answered(d, r)) /\ ~CutOff(d) /\ ~Rendered(d)
        BY <3>5 DEF Answered, CutOff, FailInvocation, Rendered
      <4>4. ~hostCall(d) /\ ~httpCall(d) /\ ~readPluginHTTPResponse(d)
        BY <3>5 DEF hostCall, httpCall, readPluginHTTPResponse
      <4>5. ~\E v \in 1..page.version : UpdateContent(d, v)
        BY <3>5 DEF UpdateContent
      <4> QED
        BY <3>4, <4>1, <4>2, <4>3, <4>4, <4>5 DEF Calling
    <3>7. d = c
      <4>1. \A e \in Callers \ {d} : call'[e] = call[e]
        <5> DEFINE r == [call[d] EXCEPT !.step = "execute", !.expected = 0, !.meta = 0, !.tags = FALSE]
        <5>1. call' = [call EXCEPT ![d] = r] /\ call \in [Callers -> Call]
          <6>1. call[d] \in Call /\ call \in [Callers -> Call]
            BY <1>1, Types
          <6> QED
            BY <3>6, <6>1 DEF SaveContent, Call
        <5> HIDE DEF r
        <5> QED
          BY <5>1
      <4> QED
        BY <1>1, <4>1
    <3> QED
      BY <3>6, <3>7
  <2>2. /\ page.version = call[c].expected
        /\ page' = [version |-> page.version + 1, meta |-> call[c].meta, tags |-> call[c].tags]
    BY <1>1, <2>1 DEF SaveContent
  <2>3. call[c].meta = page.meta
    BY <1>1, <2>2 DEF SInv, Reads
  <2>4. page'.meta = call[c].meta
    BY <2>2
  <2> QED
    BY <2>2, <2>3, <2>4
<1>2. SInv /\ [Next]_vars =>
         [\A c \in Callers : call[c].step = "update" /\ call'[c].step = "execute" /\ page' # page =>
             page.version = call[c].expected /\ page'.meta = page.meta]_vars
  BY <1>1
<1> QED
  BY <1>2, Invariance, PTL DEF Spec, UpdateReplacesWhatWasRead

-----------------------------------------------------------------------------
(* What is configured for a plugin: PluginSettings.                         *)

\* The keys administrators write records and groups to.
Managed == {GroupKey} \cup RecordKeys

\* A record or group that is accepted again as it is, with its secret encrypted.
SoundValues ==
    {v \in [plain : Raw \cup {Default}, secret : {BlankCipher, Cipher("word")}] :
        /\ v.plain \in normalizeConfigurationValue(FieldType, v.plain)
        /\ Required => v.secret # BlankCipher}

Pending == [step : {"idle", "next", "write", "commit"}, server : Servers \cup {None},
            old : RecordKeys \cup {None}, key : Keys \cup {None}, form : {None},
            value : SoundValues \cup [Features -> BOOLEAN] \cup {[own |-> TRUE], None},
            left : SUBSET Features]

\* What is stored is sound, whoever wrote it.
StoredSound ==
    /\ DOMAIN stored = Keys
    /\ IsFiniteSet(Occupied) /\ Cardinality(Occupied) <= MaxKeys
    /\ \A k \in Managed : stored[k] # None => stored[k] \in SoundValues

\* A request that request has a sound value for its key, and a rename another key.
Writable(p) ==
    /\ p.step = "next" => p.old = None
    /\ p.step \in {"write", "commit"} =>
          /\ p.key \in Keys
          /\ p.key \in Managed => p.value \in SoundValues
          /\ p.old # None => p.key \in RecordKeys /\ p.key # p.old

\* Whoever is about to commit has the lock, and what it checked under the lock still holds.
Checked(r) ==
    /\ lock = r <=> request[r].step = "commit"
    /\ request[r].step = "commit" =>
        /\ request[r].old = None => Cardinality(Occupied \ {request[r].key}) < MaxKeys
        /\ request[r].old # None =>
              /\ Cardinality(Occupied \ {request[r].old}) < MaxKeys
              /\ request[r].key \notin Occupied

\* A manager is locked by a request of its server that stores features.
Held(s) ==
    mutex[s] # None =>
        /\ request[mutex[s]].step # "idle" /\ request[mutex[s]].old = None
        /\ request[mutex[s]].server = s

RequestsSound ==
    /\ request \in [Requests -> Pending] /\ None \notin Requests
    /\ lock \in Requests \cup {None}
    /\ mutex \in [Servers -> Requests \cup {None}]
    /\ \A r \in Requests : Writable(request[r]) /\ Checked(r)
    /\ \A s \in Servers : Held(s)

WInv == StoredSound /\ RequestsSound

LEMMA KeysApart ==
    /\ GroupKey \in Keys /\ RecordKeys \subseteq Keys
    /\ FeatureKeys \subseteq Keys /\ Managed \subseteq Keys
    /\ GroupKey \notin RecordKeys
    /\ \A k \in Keys : ~administratorManagedSetting(k) => k \notin Managed
    /\ \A f \in Features : FeatureKey(f) \notin Managed
    /\ \A n \in Names : RecordKey(n) \in RecordKeys
    /\ \A m, n \in Names : RecordKey(m) = RecordKey(n) => m = n
  BY DEF GroupKey, RecordKey, FeatureKey, RecordKeys,
     FeatureKeys, Keys, Managed, administratorManagedSetting

\* Normalising is idempotent.
LEMMA NormalIsNormal ==
    ASSUME NEW raw \in Raw \cup {Default}, NEW p \in normalizeConfigurationValue(FieldType, raw)
    PROVE  p \in Raw \cup {Default} /\ p \in normalizeConfigurationValue(FieldType, p)
<1> DEFINE w == normalizeConfigurationWhitespace(FieldType, raw)
<1>1. validateConfigurationText(FieldType, raw) /\ p \in validateConfigurationType(FieldType, w)
  BY DEF normalizeConfigurationValue
<1>2. /\ w \in Raw \cup {Default} /\ normalizeConfigurationWhitespace(FieldType, w) = w
      /\ validateConfigurationText(FieldType, w)
  BY <1>1 DEF normalizeConfigurationWhitespace, Raw, validateConfigurationText
<1> HIDE DEF w
<1>3. CASE FieldType = "colour"
  BY <1>1, <1>2, <1>3 DEF validateConfigurationType, normalizeConfigurationValue,
     Raw, normalizeConfigurationWhitespace, validateConfigurationText
<1>4. CASE FieldType # "colour"
  <2>1. p = w
    BY <1>1, <1>4 DEF validateConfigurationType
  <2> QED
    BY <1>1, <1>2, <2>1 DEF normalizeConfigurationValue
<1> QED
  BY <1>3, <1>4

\* What a submission is stored as.
Plains(submitted, creating) ==
    normalizeConfigurationValue(FieldType, IF creating /\ submitted.plain = "" THEN Default ELSE submitted.plain)

Secrets(submitted, previous) ==
    IF validateConfigurationText("secret", submitted.secret)
    THEN encryptConfigurationSecrets(submitted.secret, previous) ELSE {}

LEMMA StoredAs ==
    ASSUME NEW submitted, NEW previous, NEW creating
    PROVE  normalize(submitted, previous, creating) =
              {[plain |-> p, secret |-> s] : p \in Plains(submitted, creating), s \in Secrets(submitted, previous)}
  BY DEF normalize, Plains, Secrets

\* It is sound.
LEMMA NormalizedIsSound ==
    ASSUME NEW submitted \in Forms, NEW previous, previous = None \/ previous \in SoundValues,
           NEW creating \in BOOLEAN, NEW v \in normalize(submitted, previous, creating)
    PROVE  v \in SoundValues
<1> DEFINE raw == IF creating /\ submitted.plain = "" THEN Default ELSE submitted.plain
<1>1. raw \in Raw \cup {Default} /\ submitted.secret \in {"", "word", "control"}
  BY DEF Forms
<1>2. PICK p \in Plains(submitted, creating), s \in Secrets(submitted, previous) : v = [plain |-> p, secret |-> s]
  BY StoredAs
<1>3. p \in Raw \cup {Default} /\ p \in normalizeConfigurationValue(FieldType, p)
  BY <1>1, <1>2, NormalIsNormal DEF Plains
<1>4. submitted.secret \in {"", "word"} /\ s \in encryptConfigurationSecrets(submitted.secret, previous)
  BY <1>1, <1>2 DEF Secrets, validateConfigurationText
<1>5. Secret(previous) \in {BlankCipher, Cipher("word")}
  BY DEF Secret, SoundValues
<1>6. Cipher("word") # BlankCipher
  BY DEF Cipher, BlankCipher
<1>7. s \in {BlankCipher, Cipher("word")} /\ (Required => s # BlankCipher)
  BY <1>4, <1>5, <1>6 DEF encryptConfigurationSecrets, requiredConfigurationValueMissing
<1> QED
  BY <1>2, <1>3, <1>7 DEF SoundValues

-----------------------------------------------------------------------------
LEMMA ValuesInitSound ==
    ASSUME ValuesInit
    PROVE  WInv
<1>1. Occupied = {}
  BY DEF ValuesInit, Occupied
<1>2. StoredSound
  <2>1. /\ IsFiniteSet(Occupied) /\ Cardinality(Occupied) = 0
    BY <1>1, FS_EmptySet
  <2> QED
    BY <2>1, KeysApart, SettingsAssumption DEF StoredSound, ValuesInit
<1>3. RequestsSound
  BY SettingsAssumption DEF RequestsSound, ValuesInit, NoRequest, Pending,
     Writable, Checked, Held
<1> QED
  BY <1>2, <1>3 DEF WInv

LEMMA StoredStays ==
    ASSUME WInv, UNCHANGED stored
    PROVE  StoredSound' /\ Occupied' = Occupied
  BY DEF WInv, StoredSound, Occupied

\* One request changes, without the lock of the values.
LEMMA RequestMoves ==
    ASSUME WInv, UNCHANGED <<stored, lock>>, NEW r \in Requests, NEW p \in Pending, Writable(p),
           p.step # "commit", request[r].step # "commit",
           request' \in [Requests -> Pending], request'[r] = p,
           \A q \in Requests : q # r => request'[q] = request[q],
           mutex' \in [Servers -> Requests \cup {None}],
           \A s \in Servers : mutex'[s] # None =>
               \/ mutex'[s] = mutex[s] /\ mutex[s] # r
               \/ mutex'[s] = r /\ p.step # "idle" /\ p.old = None /\ p.server = s
    PROVE  WInv'
<1>1. Occupied' = Occupied /\ StoredSound'
  BY StoredStays
<1>2. \A q \in Requests : Writable(request[q])'
  BY DEF WInv, RequestsSound, Writable
<1>3. \A q \in Requests : Checked(q)'
  <2> SUFFICES ASSUME NEW q \in Requests PROVE Checked(q)'
    OBVIOUS
  <2>1. Checked(q) /\ Checked(r)
    BY DEF WInv, RequestsSound
  <2>2. CASE q = r
    BY <2>1, <2>2 DEF Checked
  <2>3. CASE q # r
    <3>1. request'[q] = request[q] /\ lock' = lock
      BY <2>3
    <3> QED
      BY <1>1, <2>1, <3>1 DEF Checked
  <2> QED
    BY <2>2, <2>3
<1>4. \A s \in Servers : Held(s)'
  BY DEF WInv, RequestsSound, Held
<1> QED
  BY <1>1, <1>2, <1>3, <1>4 DEF WInv, RequestsSound

\* A request that begins.
LEMMA Begins ==
    ASSUME WInv, NEW r \in Requests, request[r] = NoRequest,
           NEW p \in Pending, Writable(p), p.step \in {"next", "write"},
           UNCHANGED <<stored, lock>>, Begin(r, p),
           \/ UNCHANGED mutex
           \/ p.old = None /\ \E s \in Servers : p.server = s /\ mutex' = [mutex EXCEPT ![s] = r]
    PROVE  WInv'
<1>1. request[r].step = "idle"
  BY DEF NoRequest
<1>2. /\ request' \in [Requests -> Pending] /\ request'[r] = p
      /\ \A q \in Requests : q # r => request'[q] = request[q]
  BY DEF Begin, WInv, RequestsSound
<1>3. \A s \in Servers : mutex[s] # r
  BY <1>1 DEF WInv, RequestsSound, Held
<1>4. /\ mutex' \in [Servers -> Requests \cup {None}]
      /\ \A s \in Servers : mutex'[s] # None =>
            \/ mutex'[s] = mutex[s] /\ mutex[s] # r
            \/ mutex'[s] = r /\ p.step # "idle" /\ p.old = None /\ p.server = s
  <2>1. CASE UNCHANGED mutex
    BY <1>3, <2>1 DEF WInv, RequestsSound
  <2>2. ASSUME NEW s \in Servers, p.old = None, p.server = s, mutex' = [mutex EXCEPT ![s] = r]
        PROVE  <1>4!1 /\ <1>4!2
    BY <1>3, <2>2 DEF WInv, RequestsSound
  <2> QED
    BY <2>1, <2>2
<1> QED
  BY <1>1, <1>2, <1>4, RequestMoves

\* Requests that begin, field by field.
LEMMA FeatureRequest ==
    ASSUME NEW s, NEW v, NEW p, p = [NoRequest EXCEPT !.step = "next", !.server = s, !.value = v, !.left = Features]
    PROVE  p = [step |-> "next", server |-> s, old |-> None, key |-> None, form |-> None,
                value |-> v, left |-> Features]
<1>1. /\ p.step = "next" /\ p.server = s /\ p.old = None /\ p.key = None /\ p.form = None
      /\ p.value = v /\ p.left = Features
  BY DEF NoRequest
<1> QED
  BY <1>1 DEF NoRequest

LEMMA WriteRequest ==
    ASSUME NEW k, NEW v, NEW p, p = [NoRequest EXCEPT !.step = "write", !.key = k, !.value = v]
    PROVE  p = [step |-> "write", server |-> None, old |-> None, key |-> k, form |-> None,
                value |-> v, left |-> {}]
<1>1. /\ p.step = "write" /\ p.server = None /\ p.old = None /\ p.key = k /\ p.form = None
      /\ p.value = v /\ p.left = {}
  BY DEF NoRequest
<1> QED
  BY <1>1 DEF NoRequest

LEMMA RecordRequest ==
    ASSUME NEW k, NEW v, NEW o, NEW p,
           p = [NoRequest EXCEPT !.step = "write", !.key = k, !.value = v, !.old = o]
    PROVE  p = [step |-> "write", server |-> None, old |-> o, key |-> k, form |-> None,
                value |-> v, left |-> {}]
<1>1. /\ p.step = "write" /\ p.server = None /\ p.old = o /\ p.key = k /\ p.form = None
      /\ p.value = v /\ p.left = {}
  BY DEF NoRequest
<1> QED
  BY <1>1 DEF NoRequest

LEMMA FeaturesKeep ==
    ASSUME WInv, NEW r \in Requests, request[r] = NoRequest, NEW s \in Servers,
           NEW settings \in [Features -> BOOLEAN], UpdateSettings(r, s, settings)
    PROVE  WInv'
<1> DEFINE p == [step |-> "next", server |-> s, old |-> None, key |-> None, form |-> None,
                 value |-> settings, left |-> Features]
<1>1. [NoRequest EXCEPT !.step = "next", !.server = s, !.value = settings, !.left = Features] = p
  BY FeatureRequest
<1>2. p \in Pending /\ Writable(p)
  BY DEF Pending, Writable
<1>3. /\ Begin(r, p) /\ mutex' = [mutex EXCEPT ![s] = r]
      /\ UNCHANGED <<stored, lock>>
  BY <1>1 DEF UpdateSettings
<1>4. p.old = None /\ p.server = s /\ p.step = "next"
  OBVIOUS
<1> HIDE DEF p
<1> QED
  BY <1>2, <1>3, <1>4, Begins

LEMMA WritesBegin ==
    ASSUME WInv, NEW r \in Requests, request[r] = NoRequest,
           NEW k \in Keys, NEW value \in SoundValues \cup {[own |-> TRUE]},
           NEW old \in RecordKeys \cup {None},
           k \in Managed => value \in SoundValues, old # None => k \in RecordKeys /\ k # old,
           Begin(r, [step |-> "write", server |-> None, old |-> old, key |-> k, form |-> None,
                              value |-> value, left |-> {}]),
           UNCHANGED <<stored, lock, mutex>>
    PROVE  WInv'
<1> DEFINE p == [step |-> "write", server |-> None, old |-> old, key |-> k, form |-> None,
                 value |-> value, left |-> {}]
<1>1. p \in Pending /\ Writable(p) /\ p.step = "write" /\ Begin(r, p)
  BY DEF Pending, Writable
<1> HIDE DEF p
<1> QED
  BY <1>1, Begins

LEMMA GroupKeeps ==
    ASSUME WInv, NEW r \in Requests, request[r] = NoRequest, NEW submitted \in Forms,
           SaveSettingGroup(r, submitted)
    PROVE  WInv'
<1>1. PICK value \in normalize(submitted, stored[GroupKey], FALSE) :
          Begin(r, [NoRequest EXCEPT !.step = "write", !.key = GroupKey, !.value = value])
  BY DEF SaveSettingGroup
<1>2. stored[GroupKey] = None \/ stored[GroupKey] \in SoundValues
  BY DEF WInv, StoredSound, Managed
<1>3. value \in SoundValues
  BY <1>2, NormalizedIsSound
<1>4. GroupKey \in Keys
  BY KeysApart
<1>5. [NoRequest EXCEPT !.step = "write", !.key = GroupKey, !.value = value] =
          [step |-> "write", server |-> None, old |-> None, key |-> GroupKey, form |-> None,
           value |-> value, left |-> {}]
  BY WriteRequest
<1>6. UNCHANGED <<stored, lock, mutex>>
  BY DEF SaveSettingGroup
<1> QED
  BY <1>1, <1>3, <1>4, <1>5, <1>6, WritesBegin

LEMMA RecordKeeps ==
    ASSUME WInv, NEW r \in Requests, request[r] = NoRequest, NEW submitted \in Forms,
           NEW original \in Names \cup {None}, NEW name \in Names,
           SaveResourceRecord(r, original, name, submitted)
    PROVE  WInv'
<1> DEFINE previous == IF original = None THEN None ELSE stored[RecordKey(original)]
           old == IF original \in {None, name} THEN None ELSE RecordKey(original)
<1>1. PICK value \in normalize(submitted, previous, original = None) :
          Begin(r, [NoRequest EXCEPT !.step = "write", !.key = RecordKey(name),
                                !.value = value, !.old = old])
  BY DEF SaveResourceRecord
<1>2. previous = None \/ previous \in SoundValues
  BY KeysApart DEF WInv, StoredSound, Managed
<1>3. value \in SoundValues
  <2>1. (original = None) \in BOOLEAN
    OBVIOUS
  <2> HIDE DEF previous
  <2> QED
    BY <1>2, <2>1, NormalizedIsSound
<1>4. /\ RecordKey(name) \in Keys /\ RecordKey(name) \in RecordKeys
      /\ old \in RecordKeys \cup {None}
      /\ old # None => RecordKey(name) # old
  BY KeysApart
<1>5. [NoRequest EXCEPT !.step = "write", !.key = RecordKey(name), !.value = value, !.old = old] =
          [step |-> "write", server |-> None, old |-> old, key |-> RecordKey(name), form |-> None,
           value |-> value, left |-> {}]
  BY RecordRequest
<1>6. UNCHANGED <<stored, lock, mutex>>
  BY DEF SaveResourceRecord
<1> HIDE DEF old
<1> QED
  BY <1>1, <1>3, <1>4, <1>5, <1>6, WritesBegin

LEMMA OwnKeyKeeps ==
    ASSUME WInv, NEW r \in Requests, request[r] = NoRequest, NEW k \in Keys,
           storageCall(r, k)
    PROVE  WInv'
<1>1. [NoRequest EXCEPT !.step = "write", !.key = k, !.value = [own |-> TRUE]] =
          [step |-> "write", server |-> None, old |-> None, key |-> k, form |-> None,
           value |-> [own |-> TRUE], left |-> {}]
  BY WriteRequest
<1>2. k \notin Managed
  BY KeysApart DEF storageCall
<1> QED
  BY <1>1, <1>2, WritesBegin DEF storageCall

\* Counting with one key more or less.
LEMMA OneMore ==
    ASSUME NEW S, IsFiniteSet(S), NEW x, NEW T, T \subseteq S \cup {x}, Cardinality(S) < MaxKeys, MaxKeys \in Nat
    PROVE  IsFiniteSet(T) /\ Cardinality(T) <= MaxKeys
<1>1. /\ IsFiniteSet(S \cup {x}) /\ Cardinality(S) \in Nat /\ Cardinality(S \cup {x}) \in Nat
      /\ Cardinality(S \cup {x}) <= Cardinality(S) + 1
  BY FS_AddElement, FS_CardinalityType
<1>2. IsFiniteSet(T) /\ Cardinality(T) \in Nat /\ Cardinality(T) <= Cardinality(S \cup {x})
  BY <1>1, FS_Subset, FS_CardinalityType
<1> QED
  BY <1>1, <1>2

LEMMA Fewer ==
    ASSUME NEW S, IsFiniteSet(S), NEW T \in SUBSET S, Cardinality(S) < MaxKeys \/ Cardinality(S) <= MaxKeys,
           MaxKeys \in Nat
    PROVE  /\ IsFiniteSet(T) /\ Cardinality(T) <= MaxKeys
           /\ Cardinality(S) < MaxKeys => Cardinality(T) < MaxKeys
<1>1. /\ IsFiniteSet(T) /\ Cardinality(T) \in Nat /\ Cardinality(S) \in Nat
      /\ Cardinality(T) <= Cardinality(S)
  BY FS_Subset, FS_CardinalityType
<1> QED
  BY <1>1

LEMMA NextFeatureKeeps ==
    ASSUME WInv, NEW r \in Requests, NEW f \in Features, persistFeatureSettings(r, f)
    PROVE  WInv'
<1>1. /\ request[r] \in Pending /\ request[r].step = "next" /\ UNCHANGED <<stored, lock, mutex>>
      /\ DOMAIN request = Requests
  BY DEF persistFeatureSettings, WInv, RequestsSound
<1>2. PICK p : p = [step |-> "write", server |-> request[r].server, old |-> request[r].old,
                    key |-> FeatureKey(f), form |-> None, value |-> request[r].value,
                    left |-> request[r].left \ {f}]
  OBVIOUS
<1>3. request'[r] = p
  <2>1. /\ request'[r].step = "write" /\ request'[r].server = request[r].server /\ request'[r].old = request[r].old
        /\ request'[r].key = FeatureKey(f) /\ request'[r].form = request[r].form
        /\ request'[r].value = request[r].value /\ request'[r].left = request[r].left \ {f}
    BY <1>1 DEF persistFeatureSettings, Pending
  <2>2. request'[r] = [step |-> request'[r].step, server |-> request'[r].server, old |-> request'[r].old,
                      key |-> request'[r].key, form |-> request'[r].form, value |-> request'[r].value,
                      left |-> request'[r].left]
    BY <1>1 DEF persistFeatureSettings, Pending
  <2> QED
    BY <1>1, <1>2, <2>1, <2>2 DEF Pending
<1>4. /\ p.step = "write" /\ p.key = FeatureKey(f) /\ p.old = request[r].old /\ p.server = request[r].server
  BY <1>2
<1>5. FeatureKey(f) \in Keys /\ FeatureKey(f) \notin Managed
  BY KeysApart DEF FeatureKeys
<1>6. p \in Pending
  BY <1>1, <1>2, <1>5 DEF Pending
<1>7. request[r].old = None
  BY <1>1 DEF WInv, RequestsSound, Writable
<1>8. Writable(p)
  BY <1>4, <1>5, <1>7 DEF Writable
<1>9. /\ \A q \in Requests : q # r => request'[q] = request[q]
      /\ request' \in [Requests -> Pending]
  <2>1. \E x : request' = [request EXCEPT ![r] = x]
    BY DEF persistFeatureSettings
  <2> QED
    BY <1>3, <1>6, <2>1 DEF WInv, RequestsSound
<1>10. /\ mutex' \in [Servers -> Requests \cup {None}]
       /\ \A s \in Servers : mutex'[s] # None =>
             \/ mutex'[s] = mutex[s] /\ mutex[s] # r
             \/ mutex'[s] = r /\ p.step # "idle" /\ p.old = None /\ p.server = s
  BY <1>1, <1>4, <1>7 DEF WInv, RequestsSound, Held
<1> QED
  BY <1>1, <1>3, <1>4, <1>6, <1>8, <1>9, <1>10, RequestMoves

LEMMA FeaturesSavedKeeps ==
    ASSUME WInv, NEW r \in Requests, FeaturesSaved(r)
    PROVE  WInv'
<1>1. /\ request[r].step = "next" /\ UNCHANGED <<stored, lock>>
      /\ mutex' = [mutex EXCEPT ![request[r].server] = None]
      /\ request' = [request EXCEPT ![r] = NoRequest]
  BY DEF FeaturesSaved
<1>2. NoRequest \in Pending /\ NoRequest.step = "idle" /\ Writable(NoRequest)
  BY DEF NoRequest, Pending, Writable
<1>3. /\ request' \in [Requests -> Pending] /\ request'[r] = NoRequest
      /\ \A q \in Requests : q # r => request'[q] = request[q]
      /\ mutex' \in [Servers -> Requests \cup {None}]
  BY <1>1, <1>2 DEF WInv, RequestsSound
<1>4. \A s \in Servers : mutex'[s] # None => mutex'[s] = mutex[s] /\ mutex[s] # r
  BY <1>1 DEF WInv, RequestsSound, Held
<1> QED
  BY <1>1, <1>2, <1>3, <1>4, RequestMoves

LEMMA FailureKeeps ==
    ASSUME WInv, NEW r \in Requests, WriteFails(r)
    PROVE  WInv'
<1>1. /\ request[r].step = "write" /\ UNCHANGED <<stored, lock>>
      /\ mutex' = [s \in Servers |-> IF mutex[s] = r THEN None ELSE mutex[s]]
      /\ request' = [request EXCEPT ![r] = NoRequest]
  BY DEF WriteFails, Fail
<1>2. NoRequest \in Pending /\ NoRequest.step = "idle" /\ Writable(NoRequest)
  BY DEF NoRequest, Pending, Writable
<1>3. /\ request' \in [Requests -> Pending] /\ request'[r] = NoRequest
      /\ \A q \in Requests : q # r => request'[q] = request[q]
      /\ mutex' \in [Servers -> Requests \cup {None}]
  BY <1>1, <1>2 DEF WInv, RequestsSound
<1>4. \A s \in Servers : mutex'[s] # None => mutex'[s] = mutex[s] /\ mutex[s] # r
  BY <1>1 DEF WInv, RequestsSound, Held
<1> QED
  BY <1>1, <1>2, <1>3, <1>4, RequestMoves

LEMMA LockKeeps ==
    ASSUME WInv, NEW r \in Requests, lockPluginValues(r)
    PROVE  WInv'
<1>1. /\ request[r].step = "write" /\ lock = None /\ lock' = r /\ UNCHANGED <<stored, mutex>>
      /\ request' = [request EXCEPT ![r].step = "commit"] /\ mayWrite(r)
      /\ request \in [Requests -> Pending] /\ request[r] \in Pending
  BY DEF lockPluginValues, WInv, RequestsSound
<1>2. /\ request'[r] \in Pending /\ request'[r].step = "commit" /\ request'[r].old = request[r].old
      /\ request'[r].key = request[r].key /\ request'[r].value = request[r].value
      /\ request'[r].server = request[r].server
  BY <1>1 DEF Pending
<1>3. request' \in [Requests -> Pending] /\ \A q \in Requests : q # r => request'[q] = request[q]
  BY <1>1, <1>2
<1>4. StoredSound' /\ Occupied' = Occupied
  BY <1>1, StoredStays
<1>5. \A q \in Requests : Writable(request[q])'
  BY <1>1, <1>2, <1>3 DEF WInv, RequestsSound, Writable
<1>6. \A q \in Requests : Checked(q)'
  <2>1. Checked(r)'
    <3>1. /\ request[r].old = None => Cardinality(Occupied \ {request[r].key}) < MaxKeys
          /\ request[r].old # None => /\ Cardinality(Occupied \ {request[r].old}) < MaxKeys
                                     /\ stored[request[r].key] = None
      BY <1>1 DEF mayWrite, withinQuota
    <3>2. request[r].old # None => request[r].key \notin Occupied
      BY <3>1 DEF Occupied
    <3> QED
      BY <1>1, <1>2, <1>4, <3>1, <3>2 DEF Checked
  <2>2. ASSUME NEW q \in Requests, q # r PROVE Checked(q)'
    <3>1. Checked(q) /\ request'[q] = request[q] /\ None \notin Requests
      BY <1>3, <2>2 DEF WInv, RequestsSound
    <3>2. request[q].step # "commit"
      BY <1>1, <3>1 DEF Checked
    <3> QED
      BY <1>1, <2>2, <3>1, <3>2 DEF Checked
  <2> QED
    BY <2>1, <2>2
<1>7. \A s \in Servers : Held(s)'
  BY <1>1, <1>2, <1>3 DEF WInv, RequestsSound, Held
<1> QED
  BY <1>1, <1>3, <1>4, <1>5, <1>6, <1>7 DEF WInv, RequestsSound

\* What a commit stores: a sound value, and one more key at most.
LEMMA CommitIs ==
    ASSUME WInv,
           NEW r \in Requests, CommitValue(r)
    PROVE  /\ StoredSound' /\ lock = r
           /\ request[r].old # None =>
                 /\ request[r].key \notin Occupied
                 /\ Occupied' = (Occupied \ {request[r].old}) \cup {request[r].key}
<1> DEFINE k == request[r].key
           old == request[r].old
<1>1. /\ request[r].step = "commit" /\ Writable(request[r]) /\ Checked(r) /\ request[r] \in Pending
      /\ stored' = IF old = None THEN Insert(r) ELSE movePluginValue(r)
      /\ StoredSound
  BY DEF CommitValue, WInv, RequestsSound
<1>2. /\ k \in Keys /\ lock = r /\ old \in RecordKeys \cup {None}
      /\ k \in Managed => request[r].value \in SoundValues
      /\ old # None => k \in RecordKeys /\ k # old
  BY <1>1 DEF Writable, Checked, Pending
<1>3. k \in Managed => ValueOf(r) = request[r].value
  BY <1>2, KeysApart DEF ValueOf, FeatureKeys
<1>4. DOMAIN stored = Keys
  BY <1>1 DEF StoredSound
<1>5. /\ Insert(r)[k] = ValueOf(r) /\ DOMAIN Insert(r) = Keys
      /\ \A j \in Keys : j # k => Insert(r)[j] = stored[j]
  BY <1>2, <1>4 DEF Insert
<1>6. /\ DOMAIN stored' = Keys /\ stored'[k] = ValueOf(r)
      /\ \A j \in Keys : j # k => stored'[j] = IF old # None /\ j = old THEN None ELSE stored[j]
  <2>1. CASE old = None
    BY <1>1, <1>5, <2>1
  <2>2. CASE old # None
    BY <1>1, <1>2, <1>5, <2>2 DEF movePluginValue
  <2> QED
    BY <2>1, <2>2
<1> DEFINE Rest == Occupied \ {IF old = None THEN k ELSE old}
<1>7. Occupied' \subseteq Rest \cup {k}
  BY <1>6, <1>2 DEF Occupied
<1>8. IsFiniteSet(Occupied') /\ Cardinality(Occupied') <= MaxKeys
  <2>1. IsFiniteSet(Rest)
    BY <1>1, FS_Subset DEF StoredSound
  <2>2. Cardinality(Rest) < MaxKeys
    BY <1>1 DEF Checked
  <2>3. MaxKeys \in Nat
    BY SettingsAssumption
  <2> HIDE DEF Rest
  <2> QED
    BY <1>7, <2>1, <2>2, <2>3, OneMore
<1>9. \A j \in Managed : stored'[j] # None => stored'[j] \in SoundValues
  <2> SUFFICES ASSUME NEW j \in Managed, stored'[j] # None PROVE stored'[j] \in SoundValues
    OBVIOUS
  <2>1. j \in Keys
    BY KeysApart
  <2>2. CASE j = k
    BY <1>2, <1>3, <1>6, <2>2
  <2>3. CASE j # k
    BY <1>1, <1>6, <2>1, <2>3 DEF StoredSound
  <2> QED
    BY <2>2, <2>3
<1>10. ASSUME old # None
       PROVE  /\ k \notin Occupied
              /\ Occupied' = (Occupied \ {old}) \cup {k}
  <2>1. k \in Managed /\ k # old /\ k \notin Occupied
    BY <1>1, <1>2, <1>10 DEF Managed, Checked
  <2>2. stored'[k] # None
    <3>1. None \notin SoundValues
      BY ValueAssumption DEF SoundValues
    <3> QED
      BY <1>2, <1>3, <1>6, <2>1, <3>1
  <2>3. /\ \A j \in Keys : j # k => stored'[j] = IF j = old THEN None ELSE stored[j]
        /\ k \in Keys
    BY <1>2, <1>6, <1>10
  <2> HIDE DEF k, old
  <2>4. \A j : j \in Occupied' <=> j \in (Occupied \ {old}) \cup {k}
    BY <2>1, <2>2, <2>3 DEF Occupied
  <2> QED
    BY <2>1, <2>4
<1> QED
  BY <1>2, <1>6, <1>8, <1>9, <1>10 DEF StoredSound

LEMMA CommitKeeps ==
    ASSUME WInv,
           NEW r \in Requests, CommitValue(r)
    PROVE  WInv'
<1>1. StoredSound' /\ lock = r
  BY CommitIs
<1>2. /\ request[r].step = "commit" /\ lock' = None /\ UNCHANGED mutex
      /\ request \in [Requests -> Pending] /\ request[r] \in Pending /\ Writable(request[r])
      /\ request' = [request EXCEPT ![r] = IF Storing(r)
                                         THEN [request[r] EXCEPT !.step = "next", !.key = None]
                                         ELSE NoRequest]
  BY DEF CommitValue, WInv, RequestsSound
<1>3. \A q \in Requests : q # r => request'[q] = request[q] /\ request[q].step # "commit"
  BY <1>1, <1>2 DEF WInv, RequestsSound, Checked
<1>4. CASE Storing(r)
  <2>1. request[r].old = None
    BY <1>4 DEF Storing, WInv, RequestsSound, Held
  <2>2. request'[r] = [request[r] EXCEPT !.step = "next", !.key = None]
    BY <1>2, <1>4
  <2>3. /\ request'[r] \in Pending /\ request'[r].step = "next" /\ request'[r].old = None
        /\ request'[r].server = request[r].server
    BY <1>2, <2>1, <2>2 DEF Pending
  <2>4. request' \in [Requests -> Pending]
    BY <1>2, <2>2, <2>3
  <2>5. \A q \in Requests : Writable(request[q])' /\ Checked(q)'
    BY <1>2, <1>3, <2>3 DEF WInv, RequestsSound, Writable, Checked
  <2>6. \A s \in Servers : Held(s)'
    BY <1>2, <1>3, <2>3 DEF WInv, RequestsSound, Held
  <2> QED
    BY <1>1, <1>2, <2>4, <2>5, <2>6 DEF WInv, RequestsSound
<1>5. CASE ~Storing(r)
  <2>1. NoRequest \in Pending /\ NoRequest.step = "idle"
    BY DEF NoRequest, Pending
  <2>2. request'[r] = NoRequest /\ request' \in [Requests -> Pending]
    BY <1>2, <1>5, <2>1
  <2>3. \A q \in Requests : Writable(request[q])' /\ Checked(q)'
    BY <1>2, <1>3, <2>1, <2>2 DEF WInv, RequestsSound, Writable, Checked
  <2>4. \A s \in Servers : Held(s)'
    BY <1>2, <1>3, <1>5 DEF WInv, RequestsSound, Held, Storing
  <2> QED
    BY <1>1, <1>2, <2>2, <2>3, <2>4 DEF WInv, RequestsSound
<1> QED
  BY <1>4, <1>5

LEMMA DeleteKeeps ==
    ASSUME WInv, NEW n \in Names, DeleteResourceRecord(n)
    PROVE  WInv'
<1>1. /\ stored' = [stored EXCEPT ![RecordKey(n)] = None]
      /\ UNCHANGED <<lock, mutex, request>> /\ StoredSound /\ RequestsSound
      /\ MaxKeys \in Nat
  BY SettingsAssumption DEF DeleteResourceRecord, WInv
<1>2. RecordKey(n) \in Keys /\ DOMAIN stored = Keys
  BY <1>1, KeysApart DEF StoredSound
<1>3. Occupied' \subseteq Occupied
  BY <1>1, <1>2 DEF Occupied
<1>4. StoredSound'
  <2>1. IsFiniteSet(Occupied') /\ Cardinality(Occupied') <= MaxKeys
    BY <1>1, <1>3, Fewer DEF StoredSound
  <2> QED
    BY <1>1, <1>2, <2>1, KeysApart DEF StoredSound
<1>5. \A r \in Requests : Checked(r)'
  <2> SUFFICES ASSUME NEW r \in Requests PROVE Checked(r)'
    OBVIOUS
  <2>1. Checked(r) /\ IsFiniteSet(Occupied)
    BY <1>1 DEF RequestsSound, StoredSound
  <2>2. \A k : Cardinality(Occupied \ {k}) < MaxKeys =>
                  Cardinality(Occupied' \ {k}) < MaxKeys
    <3> SUFFICES ASSUME NEW k, Cardinality(Occupied \ {k}) < MaxKeys
                 PROVE  Cardinality(Occupied' \ {k}) < MaxKeys
      OBVIOUS
    <3>1. IsFiniteSet(Occupied \ {k}) /\ Occupied' \ {k} \subseteq Occupied \ {k}
      BY <1>3, <2>1, FS_Subset
    <3> QED
      BY <1>1, <3>1, Fewer
  <2> QED
    BY <1>1, <1>3, <2>1, <2>2 DEF Checked
<1>6. \A r \in Requests : Writable(request[r])'
  BY <1>1 DEF RequestsSound, Writable
<1>7. \A s \in Servers : Held(s)'
  BY <1>1 DEF RequestsSound, Held
<1> QED
  BY <1>1, <1>4, <1>5, <1>6, <1>7 DEF WInv, RequestsSound

LEMMA RestartKeeps ==
    ASSUME WInv, NEW s \in Servers, Restart(s)
    PROVE  WInv'
<1>1. /\ UNCHANGED stored /\ mutex' = [mutex EXCEPT ![s] = None]
      /\ request' = [r \in Requests |-> IF r = mutex[s] THEN NoRequest ELSE request[r]]
      /\ lock' = IF lock = mutex[s] THEN None ELSE lock
  BY DEF Restart
<1>2. NoRequest \in Pending /\ NoRequest.step = "idle" /\ Writable(NoRequest)
  BY DEF NoRequest, Pending, Writable
<1>3. StoredSound' /\ Occupied' = Occupied
  BY <1>1, StoredStays
<1>4. /\ request' \in [Requests -> Pending] /\ lock' \in Requests \cup {None}
      /\ mutex' \in [Servers -> Requests \cup {None}]
  BY <1>1, <1>2 DEF WInv, RequestsSound
<1>5. \A r \in Requests : Writable(request[r])'
  BY <1>1, <1>2 DEF WInv, RequestsSound, Writable
<1>6. \A r \in Requests : Checked(r)'
  <2> SUFFICES ASSUME NEW r \in Requests PROVE Checked(r)'
    OBVIOUS
  <2>1. Checked(r) /\ None \notin Requests
    BY DEF WInv, RequestsSound
  <2>2. CASE r = mutex[s]
    BY <1>1, <1>2, <2>1, <2>2 DEF Checked
  <2>3. CASE r # mutex[s]
    <3>1. request'[r] = request[r] /\ (lock' = r <=> lock = r)
      BY <1>1, <2>1, <2>3
    <3> QED
      BY <1>3, <2>1, <3>1 DEF Checked
  <2> QED
    BY <2>2, <2>3
<1>7. \A t \in Servers : Held(t)'
  BY <1>1 DEF WInv, RequestsSound, Held
<1> QED
  BY <1>3, <1>4, <1>5, <1>6, <1>7 DEF WInv, RequestsSound

LEMMA ValuesStepSound ==
    ASSUME WInv,
           [ValuesNext]_(valueVars)
    PROVE  WInv'
<1>1. ASSUME NEW r \in Requests, request[r] = NoRequest,
             \/ \E s \in Servers, settings \in [Features -> BOOLEAN] : UpdateSettings(r, s, settings)
             \/ \E f \in Forms :
                   \/ SaveSettingGroup(r, f)
                   \/ \E o \in Names \cup {None}, n \in Names : SaveResourceRecord(r, o, n, f)
             \/ \E k \in Keys : storageCall(r, k)
      PROVE  WInv'
  BY <1>1, FeaturesKeep, GroupKeeps, RecordKeeps, OwnKeyKeeps
<1>2. ASSUME NEW r \in Requests,
             \/ \E f \in Features : persistFeatureSettings(r, f)
             \/ FeaturesSaved(r) \/ WriteFails(r)
             \/ lockPluginValues(r) \/ CommitValue(r)
      PROVE  WInv'
  BY <1>2, NextFeatureKeeps, FeaturesSavedKeeps, FailureKeeps, LockKeeps, CommitKeeps
<1>3. ASSUME NEW n \in Names, DeleteResourceRecord(n) PROVE WInv'
  BY <1>3, DeleteKeeps
<1>4. ASSUME NEW s \in Servers, Restart(s) PROVE WInv'
  BY <1>4, RestartKeeps
<1>5. CASE UNCHANGED valueVars
  <2>1. UNCHANGED <<stored, lock, mutex, request>>
    BY <1>5 DEF valueVars
  <2>2. StoredSound' /\ Occupied' = Occupied
    BY <2>1, StoredStays
  <2> QED
    BY <2>1, <2>2 DEF WInv, RequestsSound, Writable, Checked, Held
<1> QED
  BY <1>1, <1>2, <1>3, <1>4, <1>5 DEF ValuesNext

THEOREM ValuesInvariance == ValuesSpec => []WInv
<1>1. ValuesInit => WInv
  BY ValuesInitSound
<1>2. WInv /\ [ValuesNext]_(valueVars) => WInv'
  BY ValuesStepSound
<1> QED
  BY <1>1, <1>2, PTL DEF ValuesSpec

\* A plugin never has more keys than its quota, however many servers write at once, and
\* whatever is stored is accepted again as it is, with its secret encrypted and, if it is
\* required, there (normalizeResourceRecord, validatePluginValueQuota).
THEOREM StoredStaysSound == ValuesSpec => []StoredIsSound
<1>1. WInv => StoredIsSound
  <2> SUFFICES ASSUME WInv PROVE StoredIsSound
    OBVIOUS
  <2>1. WithinQuota
    BY DEF WithinQuota, WInv, StoredSound
  <2>2. BlankCipher[1] = "cipher" /\ Cipher("word")[1] = "cipher" /\ Cipher("word")[2] = "word"
    BY DEF BlankCipher, Cipher
  <2>3. StoredIsNormal
    BY <2>2 DEF StoredIsNormal, WInv, StoredSound, Managed, SoundValues, MaskResourceSecrets
  <2>4. Required /\ stored[GroupKey] # None => ReadDeclaredSetting("secret") # ""
    BY <2>2 DEF WInv, StoredSound, Managed, SoundValues, ReadDeclaredSetting
  <2> QED
    BY <2>1, <2>3, <2>4 DEF StoredIsSound
<1> QED
  BY <1>1, ValuesInvariance, PTL

\* A rename never lands on a key another request took in between, and gives up no other
\* (movePluginValue, validatePluginValueMove).
THEOREM RenamesKeepTheRest == ValuesSpec => RenamesLoseNothing
<1> DEFINE A == \A r \in Requests :
          request[r].old # None /\ request[r].step = "commit" /\ request'[r].step = "idle" =>
              /\ request[r].key \notin Occupied
              /\ Occupied' = (Occupied \ {request[r].old}) \cup {request[r].key}
<1>1. WInv /\ [ValuesNext]_(valueVars) => [A]_(valueVars)
  <2> SUFFICES ASSUME WInv, ValuesNext, NEW r \in Requests,
                      request[r].old # None, request[r].step = "commit", request'[r].step = "idle"
               PROVE  /\ request[r].key \notin Occupied
                      /\ Occupied' = (Occupied \ {request[r].old}) \cup {request[r].key}
    OBVIOUS
  <2>1. CommitValue(r)
    <3>1. request \in [Requests -> Pending] /\ request'[r] # request[r]
      BY DEF WInv, RequestsSound
    <3>2. ASSUME NEW q \in Requests, NEW x, request' = [request EXCEPT ![q] = x]
          PROVE  q = r
      BY <3>1, <3>2
    <3>3. ASSUME NEW q \in Requests, request[q] = NoRequest,
                 \/ \E s \in Servers, settings \in [Features -> BOOLEAN] : UpdateSettings(q, s, settings)
                 \/ \E f \in Forms :
                       \/ SaveSettingGroup(q, f)
                       \/ \E o \in Names \cup {None}, n \in Names : SaveResourceRecord(q, o, n, f)
                 \/ \E k \in Keys : storageCall(q, k)
          PROVE  FALSE
      <4>1. \E x : request' = [request EXCEPT ![q] = x]
        BY <3>3 DEF UpdateSettings, SaveSettingGroup, SaveResourceRecord,
           storageCall, Begin
      <4>2. q = r
        BY <3>2, <4>1
      <4> QED
        BY <3>3, <4>2 DEF NoRequest
    <3>4. ASSUME NEW q \in Requests,
                 \/ \E f \in Features : persistFeatureSettings(q, f)
                 \/ FeaturesSaved(q) \/ WriteFails(q) \/ lockPluginValues(q)
          PROVE  FALSE
      <4>1. request[q].step # "commit" /\ \E x : request' = [request EXCEPT ![q] = x]
        BY <3>4 DEF persistFeatureSettings, FeaturesSaved, WriteFails,
           lockPluginValues, Fail
      <4> QED
        BY <3>2, <4>1
    <3>5. ASSUME NEW q \in Requests, CommitValue(q) PROVE q = r
      BY <3>2, <3>5 DEF CommitValue
    <3>6. ASSUME NEW n \in Names, DeleteResourceRecord(n) PROVE FALSE
      BY <3>1, <3>6 DEF DeleteResourceRecord
    <3>7. ASSUME NEW s \in Servers, Restart(s) PROVE FALSE
      <4>1. request'[r] = IF r = mutex[s] THEN NoRequest ELSE request[r]
        BY <3>7 DEF Restart
      <4>2. r # mutex[s]
        BY DEF WInv, RequestsSound, Held
      <4> QED
        BY <3>1, <4>1, <4>2
    <3> QED
      BY <3>3, <3>4, <3>5, <3>6, <3>7 DEF ValuesNext
  <2> QED
    BY <2>1, CommitIs
<1> QED
  BY <1>1, ValuesInvariance, PTL DEF RenamesLoseNothing, ValuesSpec

-----------------------------------------------------------------------------
(* The headers of the PDF service: ApplicationSettings.                    *)

Fields == {"step", "shown", "inputs", "rows", "url", "gone", "value"}

\* A header as its administrator means it.
Meant(h) == [name |-> h.name, sensitive |-> h.sensitive, plain |-> decryptPDFHeader(h)]

\* A number is given once, and a row never changes: a row that was shown under a
\* number is the one that has it, if there still is one.
SameRows(S, R) == \A g \in S, h \in R : g.id = h.id => g = h

RowsNumbered(R) == \A h \in R : h.id \in Nat /\ 0 < h.id /\ h.id < nextId

Remembered(f) ==
    /\ DOMAIN f = Fields
    /\ RowsNumbered(f.shown) /\ SameRows(f.shown, f.shown) /\ SameRows(f.shown, headers)

\* What is about to be stored is what the form says of the rows it showed.
AsTyped(f) ==
    f.step \in {"save", "delete", "insert"} =>
        /\ IsFiniteSet(f.rows) /\ Cardinality(f.rows) = Cardinality(f.inputs)
        /\ {Meant(h) : h \in f.rows} = {Resolved(i, f.shown) : i \in f.inputs}

\* Who has the row of the settings is the only one to replace the headers.
Alone(c) ==
    /\ rowLock = c <=> form[c].step \in {"delete", "insert"}
    /\ form[c].step = "insert" => form[c].gone = headers

HeadersKnown ==
    /\ nextId \in Nat \ {0} /\ "pdfURL" \in DOMAIN row
    /\ RowsNumbered(headers) /\ SameRows(headers, headers)

HInv ==
    /\ HeadersKnown /\ DOMAIN form = Requests
    /\ \A c \in Requests : Remembered(form[c]) /\ AsTyped(form[c]) /\ Alone(c)

\* The image of a finite set under a one-to-one map has its size.
LEMMA OneToOne ==
    ASSUME NEW S, IsFiniteSet(S), NEW f, DOMAIN f = S,
           \A a, b \in S : f[a] = f[b] => a = b
    PROVE  IsFiniteSet({f[a] : a \in S}) /\ Cardinality({f[a] : a \in S}) = Cardinality(S)
<1> DEFINE T == {f[a] : a \in S}
           g == [a \in S |-> f[a]]
<1>1. g \in [S -> T] /\ (\A a, b \in S : g[a] = g[b] => a = b) /\ \A t \in T : \E a \in S : g[a] = t
  OBVIOUS
<1>2. g \in Bijection(S, T)
  BY <1>1 DEF Bijection, Injection, Surjection, IsInjective
<1>3. ExistsBijection(S, T)
  BY <1>2 DEF ExistsBijection
<1> QED
  BY <1>3, FS_Bijection

\* Of an input, whichever of the rows are read again: the same as of the rows shown.
LEMMA ResolvedSame ==
    ASSUME NEW shown, NEW current, NEW i,
           SameRows(shown, shown), SameRows(shown, current), SameRows(current, current),
           RowsNumbered(shown), RowsNumbered(current),
           i.id = 0 \/ ((\E h \in shown : h.id = i.id) /\ \E h \in current : h.id = i.id)
    PROVE  Resolved(i, current) = Resolved(i, shown)
<1>1. CASE i.id = 0
  <2>1. (~\E h \in shown : h.id = i.id) /\ ~\E h \in current : h.id = i.id
    BY <1>1 DEF RowsNumbered
  <2> QED
    BY <2>1 DEF Resolved
<1>2. CASE i.id # 0
  <2>1. PICK g \in shown : g.id = i.id
    BY <1>2
  <2>2. PICK h \in current : h.id = i.id
    BY <1>2
  <2>3. g = h
    BY <2>1, <2>2 DEF SameRows
  <2>4. \A x \in shown : x.id = i.id => x = g
    BY <2>1 DEF SameRows
  <2>5. \A x \in current : x.id = i.id => x = g
    BY <2>2, <2>3 DEF SameRows
  <2>6. (CHOOSE x \in shown : x.id = i.id) = g
    BY <2>1, <2>4
  <2>7. (CHOOSE x \in current : x.id = i.id) = g
    BY <2>2, <2>3, <2>5
  <2>8. (\E x \in shown : x.id = i.id /\ x.sensitive) <=> \E x \in current : x.id = i.id /\ x.sensitive
    BY <2>1, <2>2, <2>3, <2>4, <2>5
  <2> QED
    BY <2>6, <2>7, <2>8 DEF Resolved
<1> QED
  BY <1>1, <1>2

\* A form has few inputs, each for a row it shows or for a new one.
LEMMA FormInputs ==
    ASSUME NEW shown, NEW inputs \in FormsFor(shown)
    PROVE  /\ IsFiniteSet(inputs)
           /\ \A i \in inputs : i.id = 0 \/ \E h \in shown : h.id = i.id
<1> DEFINE new == [id |-> 0, name |-> CHOOSE n \in HeaderNames \ Reserved : TRUE, value |-> "w", sensitive |-> FALSE]
<1>1. new.id = 0
  OBVIOUS
<1> HIDE DEF new
<1>2. \/ inputs = {} \/ inputs = {new}
      \/ \E i \in Inputs({h.id : h \in shown}) : inputs = {i} \/ inputs = {i, new}
  BY DEF FormsFor, new
<1>3. \A i \in Inputs({h.id : h \in shown}) : \E h \in shown : h.id = i.id
  BY DEF Inputs
<1>4. ASSUME NEW a, NEW b PROVE IsFiniteSet({a}) /\ IsFiniteSet({a, b})
  <2>1. IsFiniteSet({a})
    BY FS_Singleton
  <2>2. IsFiniteSet({a} \cup {b})
    BY <2>1, FS_AddElement
  <2>3. {a} \cup {b} = {a, b}
    OBVIOUS
  <2> QED
    BY <2>1, <2>2, <2>3
<1>5. IsFiniteSet(inputs)
  BY <1>2, <1>4, FS_EmptySet
<1> QED
  BY <1>1, <1>2, <1>3, <1>5

\* What is stored for a form has a row for each of its inputs, as it was typed.
LEMMA PreparedAsTyped ==
    ASSUME NEW shown, NEW inputs \in FormsFor(shown), NEW existing,
           SameRows(shown, shown), SameRows(shown, existing), SameRows(existing, existing),
           RowsNumbered(shown), RowsNumbered(existing),
           NEW resolved \in resolvePDFHeaderInputs(inputs, existing),
           NEW rows \in preparePDFHeadersForStorage(resolved)
    PROVE  /\ IsFiniteSet(rows) /\ Cardinality(rows) = Cardinality(inputs)
           /\ {Meant(h) : h \in rows} = {Resolved(i, shown) : i \in inputs}
<1> DEFINE Stored(h) == [name |-> h.name, sensitive |-> h.sensitive,
                         value |-> IF h.sensitive THEN Cipher(h.plain) ELSE Plain(h.plain)]
           typed == [i \in inputs |-> Stored(Resolved(i, existing))]
<1>1. IsFiniteSet(inputs) /\ \A i \in inputs : i.id = 0 \/ \E h \in shown : h.id = i.id
  BY FormInputs
<1>2. /\ resolved = {Resolved(i, existing) : i \in inputs}
      /\ \A i \in inputs : i.id # 0 => existingPDFHeader(i.id, existing) # {}
      /\ \A i, j \in inputs : i # j => Fold[i.name] # Fold[j.name]
  <2>1. resolvePDFHeaderInputs(inputs, existing) # {}
    OBVIOUS
  <2> QED
    BY <2>1 DEF resolvePDFHeaderInputs
<1>3. rows = {Stored(h) : h \in resolved}
  <2>1. preparePDFHeadersForStorage(resolved) # {}
    OBVIOUS
  <2> QED
    BY <2>1 DEF preparePDFHeadersForStorage
<1>4. \A i \in inputs : i.id = 0 \/ ((\E h \in shown : h.id = i.id) /\ \E h \in existing : h.id = i.id)
  BY <1>1, <1>2 DEF existingPDFHeader
<1>5. \A i \in inputs : Resolved(i, existing) = Resolved(i, shown)
  BY <1>4, ResolvedSame
<1>6. \A i \in inputs : Resolved(i, existing).name = i.name
  BY DEF Resolved
<1>7. \A i \in inputs : Stored(Resolved(i, existing)).name = i.name
  BY <1>6
<1>8. \A i \in inputs : Meant(Stored(Resolved(i, existing))) = Resolved(i, existing)
  <2> TAKE i \in inputs
  <2> DEFINE p == IF i.value = "" /\ \E h \in existing : h.id = i.id /\ h.sensitive
                  THEN decryptPDFHeader(CHOOSE h \in existing : h.id = i.id) ELSE i.value
  <2>1. Resolved(i, existing) = [name |-> i.name, sensitive |-> i.sensitive, plain |-> p]
    BY DEF Resolved
  <2> HIDE DEF p
  <2>2. Stored(Resolved(i, existing)) =
          [name |-> i.name, sensitive |-> i.sensitive, value |-> IF i.sensitive THEN Cipher(p) ELSE Plain(p)]
    BY <2>1
  <2>3. Cipher(p)[2] = p /\ Plain(p)[2] = p
    BY DEF Cipher, Plain
  <2>4. (IF i.sensitive THEN Cipher(p) ELSE Plain(p))[2] = p
    BY <2>3
  <2> QED
    BY <2>1, <2>2, <2>4 DEF Meant, decryptPDFHeader
<1> HIDE DEF Stored
<1>9. DOMAIN typed = inputs /\ rows = {typed[i] : i \in inputs}
  BY <1>2, <1>3
<1>10. \A i, j \in inputs : typed[i] = typed[j] => i = j
  BY <1>2, <1>7
<1>11. \A i \in inputs : Meant(typed[i]) = Resolved(i, shown)
  BY <1>5, <1>8
<1> HIDE DEF typed
<1>12. IsFiniteSet(rows) /\ Cardinality(rows) = Cardinality(inputs)
  BY <1>1, <1>9, <1>10, OneToOne
<1> QED
  BY <1>9, <1>11, <1>12

\* The sequence has a number of its own for each row.
LEMMA NumbersFound ==
    ASSUME NEW rows, IsFiniteSet(rows), nextId \in Nat
    PROVE  /\ Numbered(rows) \in [rows -> nextId..(nextId + Cardinality(rows) - 1)]
           /\ \A a, b \in rows : a # b => Numbered(rows)[a] # Numbered(rows)[b]
<1> DEFINE n == Cardinality(rows)
<1>1. n \in Nat /\ ExistsBijection(1..n, rows)
  BY FS_CardinalityType
<1> HIDE DEF n
<1>2. PICK g : g \in Bijection(1..n, rows)
  BY <1>1 DEF ExistsBijection
<1>3. g \in [1..n -> rows] /\ \A r \in rows : \E k \in 1..n : g[k] = r
  BY <1>2 DEF Bijection, Injection, Surjection
<1> DEFINE f == [r \in rows |-> nextId + (CHOOSE k \in 1..n : g[k] = r) - 1]
<1>4. \A r \in rows : (CHOOSE k \in 1..n : g[k] = r) \in 1..n /\ g[CHOOSE k \in 1..n : g[k] = r] = r
  BY <1>3
<1>5. f \in [rows -> nextId..(nextId + n - 1)]
  BY <1>1, <1>4
<1>6. \A a, b \in rows : a # b => f[a] # f[b]
  <2> SUFFICES ASSUME NEW a \in rows, NEW b \in rows, f[a] = f[b] PROVE a = b
    OBVIOUS
  <2>1. (CHOOSE k \in 1..n : g[k] = a) = (CHOOSE k \in 1..n : g[k] = b)
    BY <1>1, <1>4
  <2> QED
    BY <1>4, <2>1
<1> HIDE DEF f
<1> QED
  BY <1>5, <1>6 DEF Numbered, n


LEMMA OneFormMoves ==
    ASSUME HInv, NEW c \in Requests, headers' = headers, nextId' = nextId,
           "pdfURL" \in DOMAIN row', DOMAIN form' = Requests,
           \A d \in Requests \ {c} : form'[d] = form[d],
           \/ rowLock' = rowLock
           \/ rowLock = c /\ rowLock' = None
           \/ rowLock = None /\ rowLock' = c,
           Remembered(form'[c]), AsTyped(form'[c]), Alone(c)'
    PROVE  HInv'
<1>1. HeadersKnown'
  BY DEF HInv, HeadersKnown, RowsNumbered
<1>2. ASSUME NEW d \in Requests PROVE Remembered(form[d])' /\ AsTyped(form[d])' /\ Alone(d)'
  <2>1. Remembered(form'[d]) /\ AsTyped(form'[d])
    BY DEF HInv
  <2>2. Remembered(form[d])' /\ AsTyped(form[d])'
    BY <2>1 DEF Remembered, AsTyped, RowsNumbered
  <2>3. CASE d = c
    BY <2>2, <2>3
  <2>4. CASE d # c
    <3>1. form'[d] = form[d] /\ Alone(d) /\ None \notin Requests
      BY <2>4, SettingsAssumption DEF HInv
    <3>2. rowLock' = d <=> rowLock = d
      BY <2>4, <3>1
    <3> QED
      BY <2>2, <3>1, <3>2 DEF Alone
  <2> QED
    BY <2>3, <2>4
<1> QED
  BY <1>1, <1>2 DEF HInv

\* What each request's own form becomes.
LEMMA OwnForm ==
    ASSUME HInv, NEW c \in Requests
    PROVE  /\ Remembered(form[c]) /\ AsTyped(form[c]) /\ Alone(c)
           /\ DOMAIN form[c] = Fields /\ DOMAIN form = Requests
           /\ None \notin Requests
  BY SettingsAssumption DEF HInv, Remembered

LEMMA BlankForm ==
    /\ Remembered(NoForm) /\ AsTyped(NoForm) /\ NoForm.step = "idle" /\ NoForm.shown = {}
    /\ DOMAIN NoForm = Fields
  BY DEF NoForm, Remembered, AsTyped, RowsNumbered, SameRows, Fields

\* A form that is opened.
LEMMA OpenKeeps ==
    ASSUME HInv, NEW c \in Requests, form[c] = NoForm, NEW f, Open(c, f),
           headers' = headers, nextId' = nextId, row' = row, rowLock' = rowLock,
           DOMAIN f = Fields, f.step \notin {"save", "delete", "insert"},
           f.shown \in {{}, headers}
    PROVE  HInv'
<1>1. /\ DOMAIN form' = Requests /\ form'[c] = f /\ \A d \in Requests \ {c} : form'[d] = form[d]
  BY OwnForm DEF Open
<1>2. Remembered(f)
  BY DEF Remembered, RowsNumbered, SameRows, HInv, HeadersKnown
<1>3. AsTyped(f)
  BY DEF AsTyped
<1>4. Alone(c)'
  <2>1. form[c].step = "idle"
    BY BlankForm
  <2> QED
    BY <1>1, <2>1, OwnForm DEF Alone
<1> QED
  BY <1>1, <1>2, <1>3, <1>4, OneFormMoves DEF HInv, HeadersKnown

LEMMA EditsKeep ==
    ASSUME HInv, NEW c \in Requests, form[c] = NoForm,
           \/ EditPDFSettings(c)
           \/ \E b \in BOOLEAN : EditApplicationSettings(c, b)
           \/ \E t \in Contributions, loaded \in SUBSET Contributions, p \in {"default", "moved"} :
                 EditEditorToolbar(c, loaded, [u \in {t} |-> p])
           \/ \E loaded, visible \in SUBSET Contributions : \E enabled, presented \in SUBSET loaded :
                 EditPreferences(c, loaded, enabled, presented, visible)
    PROVE  HInv' /\ headers' = headers /\ row' = row
<1> DEFINE Opened(f) == /\ DOMAIN f = Fields /\ f.shown \in {{}, headers}
                        /\ f.step \notin {"save", "delete", "insert"}
<1>1. CASE EditPDFSettings(c)
  <2>1. Opened([NoForm EXCEPT !.step = "pdf", !.shown = headers])
    BY DEF NoForm, Fields
  <2> QED
    BY <1>1, <2>1, OpenKeeps DEF EditPDFSettings
<1>2. ASSUME NEW s \in {"app", "toolbar", "prefs"}, NEW v PROVE Opened([NoForm EXCEPT !.step = s, !.value = v])
  BY DEF NoForm, Fields
<1> HIDE DEF Opened
<1>3. ASSUME NEW s \in {"app", "toolbar", "prefs"}, NEW v, Open(c, [NoForm EXCEPT !.step = s, !.value = v]),
             headers' = headers, nextId' = nextId, row' = row, rowLock' = rowLock
      PROVE  HInv'
  <2> DEFINE f == [NoForm EXCEPT !.step = s, !.value = v]
  <2>1. Opened(f)
    BY <1>2
  <2>2. Open(c, f)
    BY <1>3
  <2> HIDE DEF f
  <2> QED
    BY <1>3, <2>1, <2>2, OpenKeeps DEF Opened
<1>4. ASSUME NEW b \in BOOLEAN, EditApplicationSettings(c, b) PROVE HInv'
  BY <1>3, <1>4 DEF EditApplicationSettings
<1>5. ASSUME NEW t \in Contributions, NEW loaded \in SUBSET Contributions, NEW p \in {"default", "moved"},
             EditEditorToolbar(c, loaded, [u \in {t} |-> p])
      PROVE  HInv'
  BY <1>3, <1>5 DEF EditEditorToolbar
<1>6. ASSUME NEW loaded \in SUBSET Contributions, NEW visible \in SUBSET Contributions,
             NEW enabled \in SUBSET loaded, NEW presented \in SUBSET loaded,
             EditPreferences(c, loaded, enabled, presented, visible)
      PROVE  HInv'
  BY <1>3, <1>6 DEF EditPreferences
<1>7. headers' = headers /\ row' = row
  BY DEF EditPDFSettings, EditApplicationSettings, EditEditorToolbar, EditPreferences
<1>8. CASE \E b \in BOOLEAN : EditApplicationSettings(c, b)
  BY <1>4, <1>7, <1>8
<1>9. CASE \E t \in Contributions, loaded \in SUBSET Contributions, p \in {"default", "moved"} :
              EditEditorToolbar(c, loaded, [u \in {t} |-> p])
  BY <1>5, <1>7, <1>9
<1>10. CASE \E loaded, visible \in SUBSET Contributions : \E enabled, presented \in SUBSET loaded :
              EditPreferences(c, loaded, enabled, presented, visible)
  BY <1>6, <1>7, <1>10
<1> QED
  BY <1>1, <1>7, <1>8, <1>9, <1>10

\* A form that is closed, saved or not.
LEMMA ClosedFormKeeps ==
    ASSUME HInv, NEW c \in Requests, form' = [form EXCEPT ![c] = NoForm],
           headers' = headers, nextId' = nextId, "pdfURL" \in DOMAIN row',
           rowLock' = IF rowLock = c THEN None ELSE rowLock
    PROVE  HInv'
<1>1. DOMAIN form' = Requests /\ form'[c] = NoForm /\ \A d \in Requests \ {c} : form'[d] = form[d]
  BY OwnForm
<1>2. Alone(c)'
  BY <1>1, BlankForm, OwnForm DEF Alone
<1> QED
  BY <1>1, <1>2, BlankForm, OneFormMoves

LEMMA OtherSavesKeep ==
    ASSUME HInv, NEW c \in Requests,
           SaveApplicationSettings(c) \/ SaveEditorToolbarOverrides(c) \/ SavePreferences(c) \/ GiveUp(c)
    PROVE  HInv' /\ headers' = headers /\ row'.pdfURL = row.pdfURL
<1>0. "pdfURL" \in DOMAIN row
  BY OwnForm DEF HInv, HeadersKnown
<1>1. /\ form' = [form EXCEPT ![c] = NoForm] /\ headers' = headers /\ nextId' = nextId
      /\ "pdfURL" \in DOMAIN row' /\ row'.pdfURL = row.pdfURL
  BY <1>0 DEF SaveApplicationSettings, SaveEditorToolbarOverrides, SavePreferences, GiveUp
<1>2. rowLock' = IF rowLock = c THEN None ELSE rowLock
  <2>1. CASE GiveUp(c)
    BY <2>1 DEF GiveUp
  <2>2. CASE SaveApplicationSettings(c) \/ SaveEditorToolbarOverrides(c) \/ SavePreferences(c)
    <3>1. form[c].step \in {"app", "toolbar", "prefs"} /\ rowLock' = rowLock
      BY <2>2 DEF SaveApplicationSettings, SaveEditorToolbarOverrides, SavePreferences
    <3> QED
      BY <3>1, OwnForm DEF Alone
  <2> QED
    BY <2>1, <2>2
<1> QED
  BY <1>1, <1>2, ClosedFormKeeps

\* The fields of a form that is submitted, and of one whose rows are being replaced.
LEMMA FormSubmitted ==
    ASSUME HInv, NEW c \in Requests, NEW i, NEW r, NEW u,
           form' = [form EXCEPT ![c].step = "save", ![c].inputs = i, ![c].rows = r, ![c].url = u]
    PROVE  /\ DOMAIN form' = Requests /\ \A d \in Requests \ {c} : form'[d] = form[d]
           /\ DOMAIN form'[c] = Fields /\ form'[c].shown = form[c].shown
           /\ form'[c].step = "save" /\ form'[c].inputs = i /\ form'[c].rows = r
  BY OwnForm DEF Fields

LEMMA FormReplaces ==
    ASSUME HInv, NEW c \in Requests, NEW s, NEW g,
           \/ form' = [form EXCEPT ![c].step = s] /\ g = form[c].gone
           \/ form' = [form EXCEPT ![c].step = s, ![c].gone = g]
    PROVE  /\ DOMAIN form' = Requests /\ \A d \in Requests \ {c} : form'[d] = form[d]
           /\ DOMAIN form'[c] = Fields /\ form'[c].shown = form[c].shown
           /\ form'[c].inputs = form[c].inputs /\ form'[c].rows = form[c].rows
           /\ form'[c].step = s /\ form'[c].gone = g
  BY OwnForm DEF Fields

LEMMA SavePDFSettingsKeeps ==
    ASSUME HInv, NEW c \in Requests, form[c].step = "pdf",
           NEW inputs \in FormsFor(form[c].shown), NEW url \in URLs, SavePDFSettings(c, inputs, url)
    PROVE  HInv'
<1>1. PICK resolved \in resolvePDFHeaderInputs(inputs, headers) :
           \E rows \in preparePDFHeadersForStorage(resolved) :
             form' = [form EXCEPT ![c].step = "save", ![c].inputs = inputs, ![c].rows = rows, ![c].url = url]
  BY DEF SavePDFSettings
<1>2. PICK rows \in preparePDFHeadersForStorage(resolved) :
             form' = [form EXCEPT ![c].step = "save", ![c].inputs = inputs, ![c].rows = rows, ![c].url = url]
  BY <1>1
<1>3. /\ DOMAIN form' = Requests /\ \A d \in Requests \ {c} : form'[d] = form[d]
      /\ DOMAIN form'[c] = Fields /\ form'[c].shown = form[c].shown
      /\ form'[c].step = "save" /\ form'[c].inputs = inputs /\ form'[c].rows = rows
  BY <1>2, FormSubmitted
<1>4. /\ SameRows(form[c].shown, form[c].shown) /\ SameRows(form[c].shown, headers)
      /\ SameRows(headers, headers) /\ RowsNumbered(form[c].shown) /\ RowsNumbered(headers)
  BY DEF HInv, HeadersKnown, Remembered
<1>5. /\ IsFiniteSet(rows) /\ Cardinality(rows) = Cardinality(inputs)
      /\ {Meant(h) : h \in rows} = {Resolved(i, form[c].shown) : i \in inputs}
  BY <1>4, PreparedAsTyped
<1>6. Remembered(form'[c]) /\ AsTyped(form'[c])
  BY <1>3, <1>4, <1>5 DEF Remembered, AsTyped
<1>7. UNCHANGED <<row, rowLock, headers, nextId>> /\ "pdfURL" \in DOMAIN row
  BY DEF SavePDFSettings, HInv, HeadersKnown
<1>8. Alone(c)'
  BY <1>3, <1>7, OwnForm DEF Alone
<1> QED
  BY <1>3, <1>6, <1>7, <1>8, OneFormMoves

LEMMA ReplacingKeeps ==
    ASSUME HInv, NEW c \in Requests, UpdatePDFURL(c) \/ DeletePDFHeaders(c)
    PROVE  HInv' /\ headers' = headers /\ row' = row
<1>0. Remembered(form[c]) /\ AsTyped(form[c]) /\ Alone(c) /\ None \notin Requests /\ "pdfURL" \in DOMAIN row
  BY OwnForm DEF HInv, HeadersKnown
<1>1. PICK s \in {"delete", "insert"}, g \in {form[c].gone, headers} :
        /\ \/ form' = [form EXCEPT ![c].step = s] /\ g = form[c].gone
           \/ form' = [form EXCEPT ![c].step = s, ![c].gone = g]
        /\ s = "insert" => g = headers
        /\ form[c].step \in {"save", "delete"}
  BY DEF UpdatePDFURL, DeletePDFHeaders
<1>2. /\ DOMAIN form' = Requests /\ \A d \in Requests \ {c} : form'[d] = form[d]
      /\ DOMAIN form'[c] = Fields /\ form'[c].shown = form[c].shown
      /\ form'[c].step = s /\ form'[c].inputs = form[c].inputs /\ form'[c].rows = form[c].rows
      /\ form'[c].gone = g
  BY <1>1, FormReplaces
<1>3. /\ UNCHANGED <<row, headers, nextId>> /\ rowLock' = c
      /\ (rowLock' = rowLock \/ rowLock = None)
  BY <1>0 DEF UpdatePDFURL, DeletePDFHeaders, Alone
<1>4. Remembered(form'[c]) /\ AsTyped(form'[c])
  BY <1>0, <1>1, <1>2 DEF Remembered, AsTyped
<1>5. Alone(c)'
  BY <1>1, <1>2, <1>3 DEF Alone
<1> QED
  BY <1>0, <1>2, <1>3, <1>4, <1>5, OneFormMoves

\* The rows that replace the headers: numbered, as typed, and nobody knows their numbers.
LEMMA InsertPDFHeadersKeeps ==
    ASSUME HInv, NEW c \in Requests, InsertPDFHeaders(c)
    PROVE  /\ HInv' /\ form[c].step = "insert" /\ row'.pdfURL = form[c].url
           /\ Cardinality(headers') = Cardinality(form[c].inputs)
           /\ {Meant(h) : h \in headers'} = {Resolved(i, form[c].shown) : i \in form[c].inputs}
<1> DEFINE rows == form[c].rows
           id == Numbered(rows)
           n == Cardinality(rows)
           made == [h \in rows |-> [id |-> id[h], name |-> h.name, value |-> h.value, sensitive |-> h.sensitive]]
<1>1. /\ form[c].step = "insert" /\ rowLock = c /\ form[c].gone = headers
      /\ IsFiniteSet(rows) /\ n = Cardinality(form[c].inputs)
      /\ {Meant(h) : h \in rows} = {Resolved(i, form[c].shown) : i \in form[c].inputs}
  BY OwnForm DEF InsertPDFHeaders, Alone, AsTyped
<1>2. /\ headers' = {made[h] : h \in rows} /\ nextId' = nextId + n
      /\ row' = [row EXCEPT !.pdfURL = form[c].url]
      /\ rowLock' = None /\ form' = [form EXCEPT ![c] = NoForm]
  <2>1. headers' = (headers \ form[c].gone) \cup
              {[id |-> id[h], name |-> h.name, value |-> h.value, sensitive |-> h.sensitive] : h \in rows}
    BY DEF InsertPDFHeaders
  <2>2. headers' = {made[h] : h \in rows}
    BY <1>1, <2>1
  <2> QED
    BY <2>2 DEF InsertPDFHeaders
<1>3. nextId \in Nat \ {0} /\ "pdfURL" \in DOMAIN row /\ n \in Nat
  BY <1>1, FS_CardinalityType DEF HInv, HeadersKnown
<1>4. /\ \A h \in rows : id[h] \in nextId..(nextId + n - 1)
      /\ \A a, b \in rows : id[a] = id[b] => a = b
  <2>1. /\ id \in [rows -> nextId..(nextId + Cardinality(rows) - 1)]
        /\ \A a, b \in rows : a # b => id[a] # id[b]
    BY <1>1, <1>3, NumbersFound
  <2> QED
    BY <2>1
<1> HIDE DEF id
<1>5. /\ DOMAIN made = rows
      /\ \A h \in rows : made[h].id = id[h] /\ Meant(made[h]) = Meant(h)
  BY DEF Meant, decryptPDFHeader
<1> HIDE DEF made, n
<1>6. \A a, b \in rows : made[a] = made[b] => a = b
  BY <1>4, <1>5
<1>7. Cardinality(headers') = Cardinality(form[c].inputs)
  <2> HIDE DEF rows
  <2>1. Cardinality({made[h] : h \in rows}) = Cardinality(rows)
    BY <1>1, <1>5, <1>6, OneToOne
  <2> QED
    BY <1>1, <1>2, <2>1 DEF n
<1>8. {Meant(h) : h \in headers'} = {Meant(h) : h \in rows}
  BY <1>2, <1>5
<1>9. \A h \in headers' : h.id \in Nat /\ nextId <= h.id /\ 0 < h.id /\ h.id < nextId'
  BY <1>2, <1>3, <1>4, <1>5
<1>10. \A g, h \in headers' : g.id = h.id => g = h
  BY <1>2, <1>4, <1>5
<1>11. nextId' \in Nat \ {0} /\ nextId <= nextId'
  BY <1>2, <1>3
<1>12. HeadersKnown'
  BY <1>2, <1>3, <1>9, <1>10, <1>11 DEF HeadersKnown, RowsNumbered, SameRows
<1>13. DOMAIN form' = Requests /\ form'[c] = NoForm /\ \A d \in Requests \ {c} : form'[d] = form[d]
  BY <1>2, OwnForm
<1>14. ASSUME NEW d \in Requests PROVE Remembered(form[d])' /\ AsTyped(form[d])' /\ Alone(d)'
  <2>1. CASE d = c
    <3>1. form'[d] = NoForm
      BY <1>13, <2>1
    <3>2. Remembered(form[d])'
      BY <3>1, BlankForm DEF Remembered, RowsNumbered, SameRows
    <3>3. AsTyped(form[d])'
      BY <3>1, BlankForm DEF AsTyped
    <3>4. Alone(d)'
      BY <1>2, <3>1, BlankForm, OwnForm DEF Alone
    <3> QED
      BY <3>2, <3>3, <3>4
  <2>2. CASE d # c
    <3>1. form'[d] = form[d] /\ Remembered(form[d]) /\ AsTyped(form[d]) /\ Alone(d) /\ None \notin Requests
      BY <1>13, <2>2, OwnForm
    <3>2. \A g \in form[d].shown : g.id \in Nat /\ 0 < g.id /\ g.id < nextId
      BY <3>1 DEF Remembered, RowsNumbered
    <3>3. \A g \in form[d].shown : g.id \in Nat /\ 0 < g.id /\ g.id < nextId'
      BY <1>3, <1>11, <3>2
    <3>4. \A g \in form[d].shown, h \in headers' : g.id # h.id
      BY <1>3, <1>9, <3>2
    <3>5. Remembered(form[d])'
      BY <3>1, <3>3, <3>4 DEF Remembered, RowsNumbered, SameRows
    <3>6. AsTyped(form[d])'
      BY <3>1 DEF AsTyped
    <3>7. form[d].step \notin {"delete", "insert"}
      BY <1>1, <2>2, <3>1 DEF Alone
    <3>8. Alone(d)'
      BY <1>2, <3>1, <3>7 DEF Alone
    <3> QED
      BY <3>5, <3>6, <3>8
  <2> QED
    BY <2>1, <2>2
<1>15. HInv'
  BY <1>12, <1>13, <1>14 DEF HInv
<1>16. row'.pdfURL = form[c].url
  BY <1>2, <1>3
<1> QED
  BY <1>1, <1>7, <1>8, <1>15, <1>16

LEMMA ConfigurationKeeps ==
    ASSUME HInv, UNCHANGED <<row, rowLock, headers, nextId, form>>
           \/ (UNCHANGED <<rowLock, headers, nextId, form>> /\ \E u : row' = [row EXCEPT !.logo = u])
    PROVE  HInv' /\ headers' = headers /\ row'.pdfURL = row.pdfURL
<1>1. /\ "pdfURL" \in DOMAIN row' /\ row'.pdfURL = row.pdfURL
      /\ UNCHANGED <<rowLock, headers, nextId, form>>
  BY DEF HInv, HeadersKnown
<1>2. HeadersKnown'
  BY <1>1 DEF HInv, HeadersKnown, RowsNumbered, SameRows
<1>3. ASSUME NEW d \in Requests PROVE Remembered(form[d])' /\ AsTyped(form[d])' /\ Alone(d)'
  BY <1>1, <1>3, OwnForm DEF Remembered, AsTyped, Alone, RowsNumbered, SameRows
<1> QED
  BY <1>1, <1>2, <1>3 DEF HInv

\* What a step may do to the headers and their URL.
OneForm ==
    <<headers, row.pdfURL>>' # <<headers, row.pdfURL>> =>
        \E c \in Requests :
           /\ form[c].step = "insert"
           /\ row'.pdfURL = form[c].url
           /\ Cardinality(headers') = Cardinality(form[c].inputs)
           /\ {Meant(h) : h \in headers'} = {Resolved(i, form[c].shown) : i \in form[c].inputs}

LEMMA ConfigurationStep ==
    ASSUME HInv, [ConfigurationNext]_configurationVars
    PROVE  HInv' /\ OneForm
<1>1. CASE UNCHANGED appVars
  BY <1>1, ConfigurationKeeps DEF appVars, OneForm
<1>2. ASSUME ApplicationNext PROVE HInv' /\ OneForm
  <2>1. ASSUME NEW c \in Requests, form[c] = NoForm,
               \/ EditPDFSettings(c)
               \/ \E b \in BOOLEAN : EditApplicationSettings(c, b)
               \/ \E t \in Contributions, loaded \in SUBSET Contributions, p \in {"default", "moved"} :
                     EditEditorToolbar(c, loaded, [u \in {t} |-> p])
               \/ \E loaded, visible \in SUBSET Contributions : \E enabled, presented \in SUBSET loaded :
                     EditPreferences(c, loaded, enabled, presented, visible)
        PROVE  HInv' /\ OneForm
    BY <2>1, EditsKeep DEF OneForm
  <2>2. ASSUME NEW c \in Requests, form[c].step = "pdf",
               NEW inputs \in FormsFor(form[c].shown), NEW url \in URLs, SavePDFSettings(c, inputs, url)
        PROVE  HInv' /\ OneForm
    <3>1. headers' = headers /\ row' = row
      BY <2>2 DEF SavePDFSettings
    <3> QED
      BY <2>2, <3>1, SavePDFSettingsKeeps DEF OneForm
  <2>3. ASSUME NEW c \in Requests, UpdatePDFURL(c) \/ DeletePDFHeaders(c) PROVE HInv' /\ OneForm
    BY <2>3, ReplacingKeeps DEF OneForm
  <2>4. ASSUME NEW c \in Requests, InsertPDFHeaders(c) PROVE HInv' /\ OneForm
    BY <2>4, InsertPDFHeadersKeeps DEF OneForm
  <2>5. ASSUME NEW c \in Requests,
               SaveApplicationSettings(c) \/ SaveEditorToolbarOverrides(c) \/ SavePreferences(c) \/ GiveUp(c)
        PROVE  HInv' /\ OneForm
    BY <2>5, OtherSavesKeep DEF OneForm
  <2>6. ASSUME NEW upload, SaveBrandLogo(upload) PROVE HInv' /\ OneForm
    <3>1. UNCHANGED <<rowLock, headers, nextId, form>> /\ row' = [row EXCEPT !.logo = upload]
      BY <2>6 DEF SaveBrandLogo
    <3> QED
      BY <3>1, ConfigurationKeeps DEF OneForm
  <2>7. ASSUME (\E expanded \in SUBSET Contributions : SetExpandedNavigation(expanded))
               \/ ExportPagePDF \/ LoadPDFHeaders \/ Render
        PROVE  HInv' /\ OneForm
    <3>1. UNCHANGED <<row, rowLock, headers, nextId, form>>
      BY <2>7 DEF SetExpandedNavigation, ExportPagePDF, LoadPDFHeaders, Render
    <3> QED
      BY <3>1, ConfigurationKeeps DEF OneForm
  <2> QED
    BY <1>2, <2>1, <2>2, <2>3, <2>4, <2>5, <2>6, <2>7 DEF ApplicationNext
<1> QED
  BY <1>1, <1>2 DEF ConfigurationNext, configurationVars

LEMMA ConfigurationBegins == ConfigurationInit => HInv
<1> SUFFICES ASSUME ConfigurationInit PROVE HInv
  OBVIOUS
<1>1. "pdfURL" \in DOMAIN row
  BY DEF ConfigurationInit, ApplicationInit, StoredSettings
<1>2. /\ nextId = 2 /\ form = [c \in Requests |-> NoForm] /\ rowLock = None
  BY DEF ConfigurationInit, ApplicationInit
<1> DEFINE first == [id |-> 1, name |-> CHOOSE n \in HeaderNames \ Reserved : TRUE,
                     value |-> IF key THEN Cipher("v") ELSE Plain("v"), sensitive |-> key]
<1>0. headers \in {{}, {first}} /\ first.id = 1
  BY DEF ConfigurationInit, ApplicationInit
<1> HIDE DEF first
<1>3. HeadersKnown
  BY <1>0, <1>1, <1>2 DEF HeadersKnown, RowsNumbered, SameRows
<1>4. \A c \in Requests : Remembered(form[c]) /\ AsTyped(form[c]) /\ Alone(c)
  BY <1>2, BlankForm, SettingsAssumption DEF Alone
<1> QED
  BY <1>2, <1>3, <1>4 DEF HInv

\* Whenever the headers or the URL of the PDF service change they are those of one form:
\* every header is as typed, a blank secret that of the row its administrator was shown,
\* and no row of another form is left among them (resolvePDFHeaderInputs, SavePDFSettings).
THEOREM PDFSettingsComeFromOneForm == ConfigurationSpec => PDFSettingsAreOneForm
<1>1. ConfigurationInit => HInv
  BY ConfigurationBegins
<1>2. HInv /\ [ConfigurationNext]_configurationVars => HInv'
  BY ConfigurationStep
<1> DEFINE A == <<headers, row.pdfURL>>' # <<headers, row.pdfURL>> =>
          \E c \in Requests :
             /\ form[c].step = "insert"
             /\ row'.pdfURL = form[c].url
             /\ Cardinality(headers') = Cardinality(form[c].inputs)
             /\ {[name |-> h.name, sensitive |-> h.sensitive, plain |-> decryptPDFHeader(h)] : h \in headers'}
                  = {Resolved(i, form[c].shown) : i \in form[c].inputs}
<1>3. HInv /\ [ConfigurationNext]_configurationVars => [A]_configurationVars
  <2>1. OneForm => A
    BY DEF OneForm, Meant
  <2> QED
    BY <2>1, ConfigurationStep
<1> QED
  BY <1>1, <1>2, <1>3, PTL DEF PDFSettingsAreOneForm, ConfigurationSpec
=============================================================================
