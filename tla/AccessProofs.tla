------------------------------ MODULE AccessProofs ------------------------------
(***************************************************************************)
(* What holds of the schema for any processes, releases and starts, and of *)
(* accounts and logins for any servers, clients, accounts, groups,         *)
(* subjects and names.  IInv is the invariant of the migrations, AInv the  *)
(* one of Kumbuka's own accounts, LInv the one of external identities:     *)
(* what the processes and requests that are between two transactions rely  *)
(* on, beside what the tables keep.                                        *)
(***************************************************************************)
EXTENDS Access, FiniteSetTheorems, TLAPS

(* Migrations: alone and as a part of Startup *)

Holding == {"locked", "applying"}

\* The advisory lock: one transaction at a time reads and writes the schema.
Alone == \A p, q \in Processes : phase[p] \in Holding /\ phase[q] \in Holding => p = q

\* Nothing is pending in a process but what the loop has done.
Clean == \A p \in Processes : phase[p] # "applying" => recorded[p] = {} /\ made[p] = Nothing

\* A loop that began at version h has recorded what the history lacked up to
\* its turn, and made what the schema lacked.
Progress(p, h) ==
    /\ next[p] <= release[p] + 1
    /\ next[p] = Baseline => known[p] = h
    /\ next[p] > Baseline => h = 0 \/ h >= Baseline - 1
    /\ recorded[p] = (Baseline..(next[p] - 1)) \ history
    /\ made[p] = [v \in Versions |->
          IF next[p] > Baseline /\ v > h /\ v < next[p] /\ v # Baseline THEN 1 ELSE 0]

At(h) ==
    /\ History(history, h)
    /\ built = SchemaOf(h)
    /\ \A p \in Processes : phase[p] = "applying" => Progress(p, h)
    /\ \A p \in Processes : phase[p] = "up" => release[p] <= h

IInv == SchemaTypeOK /\ Alone /\ Clean /\ \E h \in 0..Newest : At(h)

-----------------------------------------------------------------------------
\* The greatest version of a history is the one it is the history of.
LEMMA HighestOfHistory ==
    ASSUME NEW H, NEW h \in 0..Newest, History(H, h)
    PROVE  Highest(H) = h
<1> DEFINE Is(k) == IF H = {} THEN k = 0 ELSE k \in H /\ \A v \in H : v <= k
<1>1. Is(h)
  BY MigrationsAssumption DEF History
<1>2. ASSUME NEW k \in 0..Newest, Is(k) PROVE k = h
  BY <1>1, <1>2, MigrationsAssumption DEF History
<1> QED
  BY <1>1, <1>2 DEF Highest

\* The invariant says what SchemaIsWhole says.
LEMMA InvariantIsWhole == IInv => SchemaIsWhole
<1> SUFFICES ASSUME SchemaTypeOK, NEW h \in 0..Newest, At(h) PROVE SchemaIsWhole
  BY DEF IInv
<1>1. Highest(history) = h
  BY HighestOfHistory DEF At
<1> QED
  BY <1>1 DEF At, SchemaIsWhole

LEMMA InitInvariant == SchemaInit => IInv
<1> SUFFICES ASSUME SchemaInit PROVE IInv
  OBVIOUS
<1>1. PICK h \in 0..Newest : /\ history \in {1..h} \cup (IF h >= Baseline THEN {Baseline..h} ELSE {})
                             /\ built = SchemaOf(h)
  BY DEF SchemaInit
<1>2. History(history, h)
  BY <1>1 DEF History
<1>3. history \subseteq Versions
  BY <1>2, MigrationsAssumption DEF History, Versions
<1>4. built \in [Versions -> Nat]
  BY <1>1 DEF SchemaOf
<1>5. SchemaTypeOK
  BY <1>3, <1>4, MigrationsAssumption DEF SchemaInit, SchemaTypeOK, Phases, Releases, Nothing
<1>6. At(h)
  BY <1>1, <1>2 DEF At, SchemaInit
<1>7. Alone /\ Clean
  BY DEF Alone, Clean, Holding, SchemaInit
<1> QED
  BY <1>5, <1>6, <1>7 DEF IInv

-----------------------------------------------------------------------------
(* The loop *)

\* A turn of the loop leaves the transaction one version further.
LEMMA LoopProgresses ==
    ASSUME SchemaTypeOK, NEW p \in Processes, NEW h \in 0..Newest, At(h),
           applyPendingMigration(p)
    PROVE  /\ Progress(p, h)'
           /\ known'[p] \in 0..Newest /\ recorded'[p] \subseteq Versions
           /\ made'[p] \in [Versions -> Nat]
<1> DEFINE v == next[p]
<1>1. /\ v \in Baseline..Newest /\ release[p] \in Releases /\ known[p] \in 0..Newest
      /\ v <= release[p] /\ Baseline \in Nat \ {0} /\ Newest \in Nat
  BY MigrationsAssumption DEF applyPendingMigration, SchemaTypeOK, Releases
<1>2. Progress(p, h) /\ History(history, h)
  BY DEF At, applyPendingMigration
<1>3. next'[p] = v + 1 /\ release'[p] = release[p] /\ history' = history
  BY DEF applyPendingMigration, SchemaTypeOK
<1>4. v \notin recorded[p]
  BY <1>1, <1>2, MigrationsAssumption DEF Progress
<1>5. v \in Versions /\ v > 0 /\ Baseline \in Nat /\ Newest \in Nat /\ Baseline > 0
  BY <1>1, MigrationsAssumption DEF Versions
<1>6. CASE v \in history
  <2>1. UNCHANGED <<known, recorded, made>>
    BY <1>6 DEF applyPendingMigration
  <2>2. v <= h /\ h >= Baseline
    BY <1>1, <1>2, <1>6 DEF History
  <2>3. recorded'[p] = (Baseline..(next'[p] - 1)) \ history'
    BY <1>1, <1>2, <1>3, <1>6, <2>1 DEF Progress
  <2> DEFINE Made(w, n) == IF n > Baseline /\ w > h /\ w < n /\ w # Baseline THEN 1 ELSE 0
  <2>a. \A w \in Versions : Made(w, v) = Made(w, v + 1)
    BY <1>1, <2>2 DEF Versions
  <2>b. made'[p] = [w \in Versions |-> Made(w, v)]
    BY <1>2, <2>1 DEF Progress
  <2>4. made'[p] = [w \in Versions |-> Made(w, v + 1)]
    BY <2>a, <2>b
  <2>5. known'[p] \in 0..Newest /\ recorded'[p] \subseteq Versions /\ made'[p] \in [Versions -> Nat]
    BY <2>1 DEF SchemaTypeOK
  <2>6. /\ next'[p] <= release'[p] + 1
        /\ next'[p] # Baseline
        /\ next'[p] > Baseline => h = 0 \/ h >= Baseline - 1
    BY <1>1, <1>3, <2>2 DEF Releases
  <2>7. made'[p] = [w \in Versions |->
            IF next'[p] > Baseline /\ w > h /\ w < next'[p] /\ w # Baseline THEN 1 ELSE 0]
    BY <1>3, <2>4, Zenon
  <2> QED
    BY <2>3, <2>5, <2>6, <2>7, Zenon DEF Progress
<1>7. CASE v \notin history
  <2>1. applyMigration(p)
    BY <1>4, <1>7 DEF applyPendingMigration
  <2>2. h = 0 \/ h = Baseline - 1 \/ (h >= Baseline /\ v > Baseline)
    <3>1. CASE v > Baseline
      BY <1>1, <1>2, <3>1 DEF Progress
    <3>2. CASE v = Baseline
      <4>1. known[p] = h /\ h < Baseline
        BY <1>1, <1>2, <1>5, <1>7, <3>2 DEF Progress, History
      <4>2. known[p] = 0 \/ AdoptsBaseline(p)
        BY <1>7, <3>2 DEF applyPendingMigration, RefusesBaseline
      <4> QED
        BY <4>1, <4>2 DEF AdoptsBaseline
    <3> QED
      BY <1>1, <3>1, <3>2
  <2>3. recorded'[p] = (Baseline..(next'[p] - 1)) \ history'
    <3>1. recorded'[p] = recorded[p] \cup {v}
      BY <2>1 DEF applyMigration, SchemaTypeOK
    <3> QED
      BY <1>1, <1>2, <1>3, <1>7, <3>1 DEF Progress
  <2>4. made'[p] = [w \in Versions |->
            IF v + 1 > Baseline /\ w > h /\ w < v + 1 /\ w # Baseline THEN 1 ELSE 0]
    <3> DEFINE sql == IF v = Baseline /\ AdoptsBaseline(p) THEN {} ELSE Changes(v)
    <3>1. made'[p] = [w \in Versions |-> IF w \in sql THEN made[p][w] + 1 ELSE made[p][w]]
      BY <2>1 DEF applyMigration, SchemaTypeOK
    <3>2. made[p] = [w \in Versions |->
              IF v > Baseline /\ w > h /\ w < v /\ w # Baseline THEN 1 ELSE 0]
      BY <1>2 DEF Progress
    <3>3. v > h
      BY <1>1, <1>2, <1>5, <1>7, <2>2 DEF History
    <3>4. CASE v > Baseline
      <4>1. sql = {v}
        BY <1>1, <1>5, <3>4 DEF Changes
      <4> HIDE DEF sql
      <4> QED
        BY <1>1, <1>5, <3>1, <3>2, <3>3, <3>4, <4>1 DEF Versions
    <3>5. CASE v = Baseline
      <4>1. known[p] = h
        BY <1>2, <3>5 DEF Progress
      <4>2. CASE h = 0
        <5>1. sql = 1..(Baseline - 1)
          BY <3>5, <4>1, <4>2 DEF Changes, AdoptsBaseline
        <5> HIDE DEF sql
        <5> QED
          BY <1>5, <3>1, <3>2, <3>5, <4>2, <5>1 DEF Versions
      <4>3. CASE h # 0
        <5>1. h = Baseline - 1
          BY <1>1, <2>2, <3>5, <4>3
        <5>2. sql = {}
          BY <3>5, <4>1, <4>3, <5>1 DEF AdoptsBaseline
        <5> HIDE DEF sql
        <5> QED
          BY <1>5, <3>1, <3>2, <3>5, <5>1, <5>2 DEF Versions
      <4> QED
        BY <4>2, <4>3
    <3> QED
      BY <1>1, <3>4, <3>5
  <2>5. known'[p] \in 0..Newest
    BY <1>1, <1>5, <2>1 DEF applyMigration, SchemaTypeOK
  <2>6. recorded'[p] \subseteq Versions
    BY <1>5, <2>1 DEF applyMigration, SchemaTypeOK
  <2>7. made'[p] \in [Versions -> Nat]
    BY <2>4
  <2>8. h = 0 \/ h >= Baseline - 1
    BY <1>5, <2>2
  <2>9. /\ next'[p] <= release'[p] + 1
        /\ next'[p] # Baseline
        /\ next'[p] > Baseline => h = 0 \/ h >= Baseline - 1
    BY <1>1, <1>3, <2>8 DEF Releases
  <2>10. made'[p] = [w \in Versions |->
            IF next'[p] > Baseline /\ w > h /\ w < next'[p] /\ w # Baseline THEN 1 ELSE 0]
    BY <1>3, <2>4, Zenon
  <2> QED
    BY <2>3, <2>5, <2>6, <2>7, <2>9, <2>10, Zenon DEF Progress
<1> QED
  BY <1>6, <1>7

\* What a finished loop commits is the schema of the newer of the two versions.
LEMMA CommitIsWhole ==
    ASSUME SchemaTypeOK, NEW p \in Processes, NEW h \in 0..Newest, At(h), Commit(p)
    PROVE  \E k \in 0..Newest : /\ k >= h /\ k >= release[p]
                                /\ History(history', k) /\ built' = SchemaOf(k)
<1> DEFINE r == release[p]
           k == IF h >= r THEN h ELSE r
<1>1. Progress(p, h) /\ History(history, h) /\ built = SchemaOf(h)
  BY DEF At, Commit
<1>2. r \in Baseline..Newest /\ next[p] = r + 1 /\ Baseline \in Nat \ {0} /\ Newest \in Nat
  <2>1. r \in Baseline..Newest /\ next[p] \in Baseline..(Newest + 1)
    BY DEF SchemaTypeOK, Releases
  <2>2. next[p] > r /\ next[p] <= r + 1
    BY <1>1 DEF Commit, Progress
  <2> QED
    BY <2>1, <2>2, MigrationsAssumption
<1>3. h = 0 \/ h >= Baseline - 1
  BY <1>1, <1>2 DEF Progress
<1>4. k \in 0..Newest /\ k >= h /\ k >= r
  BY <1>2
<1>5. recorded[p] = (Baseline..r) \ history
  BY <1>1, <1>2 DEF Progress
<1>6. history' = history \cup (Baseline..r)
  BY <1>5 DEF Commit
<1>7. History(history', k)
  BY <1>1, <1>2, <1>3, <1>6 DEF History
<1>8. made[p] = [v \in Versions |-> IF v > h /\ v <= r /\ v # Baseline THEN 1 ELSE 0]
  BY <1>1, <1>2 DEF Progress, Versions
<1>9. built' = [v \in Versions |-> built[v] + made[p][v]]
  BY DEF Commit
<1>10. ASSUME NEW v \in Versions
       PROVE  built[v] + made[p][v] = IF v <= k /\ v # Baseline THEN 1 ELSE 0
  <2>1. built[v] = IF v <= h /\ v # Baseline THEN 1 ELSE 0
    BY <1>1 DEF SchemaOf
  <2>2. made[p][v] = IF v > h /\ v <= r /\ v # Baseline THEN 1 ELSE 0
    BY <1>8
  <2>3. v \in Int
    BY DEF Versions
  <2> QED
    BY <1>2, <2>1, <2>2, <2>3
<1>11. built' = SchemaOf(k)
  BY <1>9, <1>10 DEF SchemaOf
<1> QED
  BY <1>4, <1>7, <1>11

-----------------------------------------------------------------------------
(* One step per action *)

LEMMA TypeInvariant == SchemaTypeOK /\ Alone /\ Clean /\ (\E h \in 0..Newest : At(h))
                       /\ SchemaNext => SchemaTypeOK'
<1> SUFFICES ASSUME SchemaTypeOK, NEW h \in 0..Newest, At(h), NEW p \in Processes, Migrate(p)
             PROVE  SchemaTypeOK'
  BY DEF SchemaNext
<1>1. ASSUME NEW r \in Releases, Open(p, r) PROVE SchemaTypeOK'
  BY <1>1, MigrationsAssumption DEF Open, SchemaTypeOK, transaction, Phases
<1>2. CASE initializeMigrationTransaction(p)
  BY <1>2 DEF initializeMigrationTransaction, SchemaTypeOK, transaction, Phases
<1>3. CASE readMigrationHistory(p)
  <2>1. Highest(history) \in 0..Newest
    BY HighestOfHistory DEF At
  <2>2. Baseline \in Baseline..(Newest + 1)
    BY MigrationsAssumption
  <2> QED
    BY <1>3, <2>1, <2>2 DEF readMigrationHistory, SchemaTypeOK, Phases
<1>4. CASE applyPendingMigration(p)
  <2>1. /\ known'[p] \in 0..Newest /\ recorded'[p] \subseteq Versions
        /\ made'[p] \in [Versions -> Nat]
    BY <1>4, LoopProgresses
  <2>2. next[p] + 1 \in Baseline..(Newest + 1)
    BY <1>4, MigrationsAssumption DEF applyPendingMigration, SchemaTypeOK, Releases
  <2>3. /\ known' \in [Processes -> 0..Newest] /\ recorded' \in [Processes -> SUBSET Versions]
        /\ made' \in [Processes -> [Versions -> Nat]]
    <3>1. CASE UNCHANGED <<known, recorded, made>>
      BY <3>1 DEF SchemaTypeOK
    <3>2. CASE applyMigration(p)
      <4>1. known' \in [Processes -> 0..Newest]
        BY <2>1, <3>2 DEF applyMigration, SchemaTypeOK
      <4>2. recorded' \in [Processes -> SUBSET Versions]
        BY <2>1, <3>2 DEF applyMigration, SchemaTypeOK
      <4>3. made' \in [Processes -> [Versions -> Nat]]
        BY <2>1, <3>2 DEF applyMigration, SchemaTypeOK
      <4> QED
        BY <4>1, <4>2, <4>3
    <3> QED
      BY <1>4, <3>1, <3>2 DEF applyPendingMigration
  <2> QED
    BY <1>4, <2>2, <2>3 DEF applyPendingMigration, SchemaTypeOK
<1>5. CASE Rollback(p)
  BY <1>5 DEF Rollback, SchemaTypeOK, Phases, Nothing
<1>6. CASE Commit(p)
  <2>1. history' \subseteq Versions
    BY <1>6 DEF Commit, SchemaTypeOK
  <2>2. built' \in [Versions -> Nat]
    BY <1>6 DEF Commit, SchemaTypeOK
  <2> QED
    BY <1>6, <2>1, <2>2 DEF Commit, SchemaTypeOK, Phases, Nothing
<1>7. CASE Stop(p)
  BY <1>7 DEF Stop, SchemaTypeOK, transaction, Phases
<1> QED
  BY <1>1, <1>2, <1>3, <1>4, <1>5, <1>6, <1>7 DEF Migrate, Refuse, Fail

\* The steps that neither commit nor enter the loop leave every other
\* transaction, and what is committed, as it was.
LEMMA LockInvariant == IInv /\ SchemaNext => Alone' /\ Clean'
<1> SUFFICES ASSUME IInv, NEW p \in Processes, Migrate(p) PROVE Alone' /\ Clean'
  BY DEF SchemaNext
<1> USE DEF Alone, Clean, Holding
<1>1. ASSUME NEW r \in Releases, Open(p, r) PROVE Alone' /\ Clean'
  BY <1>1 DEF Open, IInv, SchemaTypeOK, transaction
<1>2. CASE initializeMigrationTransaction(p)
  BY <1>2 DEF initializeMigrationTransaction, IInv, SchemaTypeOK, transaction
<1>3. CASE readMigrationHistory(p)
  BY <1>3 DEF readMigrationHistory, IInv, SchemaTypeOK
<1>4. CASE applyPendingMigration(p)
  <2>1. phase' = phase /\ \A q \in Processes \ {p} : recorded'[q] = recorded[q] /\ made'[q] = made[q]
    BY <1>4 DEF applyPendingMigration, applyMigration, IInv, SchemaTypeOK
  <2> QED
    BY <1>4, <2>1 DEF applyPendingMigration, IInv
<1>5. CASE Rollback(p)
  BY <1>5 DEF Rollback, IInv, SchemaTypeOK
<1>6. CASE Commit(p)
  BY <1>6 DEF Commit, IInv, SchemaTypeOK
<1>7. CASE Stop(p)
  BY <1>7 DEF Stop, IInv, SchemaTypeOK, transaction
<1> QED
  BY <1>1, <1>2, <1>3, <1>4, <1>5, <1>6, <1>7 DEF Migrate, Refuse, Fail

LEMMA WholeInvariant == IInv /\ SchemaNext => (\E h \in 0..Newest : At(h))'
<1> SUFFICES ASSUME IInv, NEW h \in 0..Newest, At(h), NEW p \in Processes, Migrate(p)
             PROVE  \E k \in 0..Newest : At(k)'
  BY DEF SchemaNext, IInv
<1>0. SchemaTypeOK
  BY DEF IInv
<1>1. ASSUME NEW r \in Releases, Open(p, r) PROVE At(h)'
  BY <1>0, <1>1 DEF Open, SchemaTypeOK, transaction, At, Progress
<1>2. CASE initializeMigrationTransaction(p)
  <2>1. At(h)'
    BY <1>0, <1>2 DEF initializeMigrationTransaction, SchemaTypeOK, transaction, At, Progress
  <2> QED
    BY <2>1
<1>3. CASE readMigrationHistory(p)
  <2>1. Highest(history) = h
    BY HighestOfHistory DEF At
  <2>2. recorded[p] = {} /\ made[p] = Nothing
    BY <1>3 DEF readMigrationHistory, IInv, Clean
  <2>3. Progress(p, h)'
    <3>1. next'[p] = Baseline /\ known'[p] = h /\ recorded' = recorded /\ made' = made
          /\ release' = release /\ history' = history
      BY <1>0, <1>3, <2>1 DEF readMigrationHistory, SchemaTypeOK
    <3>2. release[p] \in Releases
      BY <1>0 DEF SchemaTypeOK
    <3> QED
      BY <2>2, <3>1, <3>2, MigrationsAssumption DEF Progress, Nothing, Releases
  <2>4. ASSUME NEW q \in Processes \ {p}, Progress(q, h) PROVE Progress(q, h)'
    BY <1>0, <1>3, <2>4 DEF readMigrationHistory, SchemaTypeOK, Progress
  <2>5. At(h)'
    BY <1>0, <1>3, <2>3, <2>4 DEF readMigrationHistory, SchemaTypeOK, At
  <2> QED
    BY <2>5
<1>4. CASE applyPendingMigration(p)
  <2>1. Progress(p, h)'
    BY <1>0, <1>4, LoopProgresses
  <2>2. /\ UNCHANGED <<history, built, phase, release>>
        /\ \A q \in Processes \ {p} : /\ next'[q] = next[q] /\ known'[q] = known[q]
                                      /\ recorded'[q] = recorded[q] /\ made'[q] = made[q]
    BY <1>0, <1>4 DEF applyPendingMigration, applyMigration, SchemaTypeOK
  <2>3. ASSUME NEW q \in Processes \ {p}, Progress(q, h) PROVE Progress(q, h)'
    BY <2>2, <2>3 DEF Progress
  <2>4. At(h)'
    BY <2>1, <2>2, <2>3 DEF At
  <2> QED
    BY <2>4
<1>5. CASE Rollback(p)
  <2>1. /\ UNCHANGED <<history, built, release, next, known>>
        /\ phase'[p] = "down"
        /\ \A q \in Processes \ {p} : /\ phase'[q] = phase[q]
                                      /\ recorded'[q] = recorded[q] /\ made'[q] = made[q]
    BY <1>0, <1>5 DEF Rollback, SchemaTypeOK
  <2>2. ASSUME NEW q \in Processes \ {p}, Progress(q, h) PROVE Progress(q, h)'
    BY <2>1, <2>2 DEF Progress
  <2>3. At(h)'
    BY <2>1, <2>2 DEF At
  <2> QED
    BY <2>3
<1>6. CASE Commit(p)
  <2>1. PICK k \in 0..Newest : /\ k >= h /\ k >= release[p]
                               /\ History(history', k) /\ built' = SchemaOf(k)
    BY <1>0, <1>6, CommitIsWhole
  <2>2. /\ release' = release /\ phase'[p] = "up"
        /\ \A q \in Processes \ {p} : phase'[q] = phase[q] /\ phase[q] # "applying"
    BY <1>0, <1>6 DEF Commit, SchemaTypeOK, IInv, Alone, Holding
  <2>3. \A q \in Processes : phase'[q] = "up" => release'[q] <= k
    <3>1. \A q \in Processes : release[q] \in Int
      BY <1>0, MigrationsAssumption DEF SchemaTypeOK, Releases
    <3> QED
      BY <2>1, <2>2, <3>1 DEF At
  <2>4. At(k)'
    BY <2>1, <2>2, <2>3 DEF At
  <2> QED
    BY <2>4
<1>7. CASE Stop(p)
  <2>1. At(h)'
    BY <1>0, <1>7 DEF Stop, SchemaTypeOK, transaction, At, Progress
  <2> QED
    BY <2>1
<1> QED
  BY <1>1, <1>2, <1>3, <1>4, <1>5, <1>6, <1>7 DEF Migrate, Refuse, Fail

-----------------------------------------------------------------------------
LEMMA InvariantHolds == SchemaSpec => []IInv
<1>1. IInv /\ [SchemaNext]_schemaVars => IInv'
  <2>1. IInv /\ SchemaNext => IInv'
    BY TypeInvariant, LockInvariant, WholeInvariant DEF IInv
  <2>2. ASSUME IInv, UNCHANGED schemaVars PROVE IInv'
    <3> USE <2>2 DEF schemaVars, transaction
    <3>1. SchemaTypeOK'
      BY DEF IInv, SchemaTypeOK
    <3>2. Alone' /\ Clean'
      BY DEF IInv, Alone, Clean
    <3>3. \A h \in 0..Newest : At(h) => At(h)'
      BY DEF At, Progress
    <3> QED
      BY <3>1, <3>2, <3>3 DEF IInv
  <2> QED
    BY <2>1, <2>2
<1> QED
  BY InitInvariant, <1>1, PTL DEF SchemaSpec

\* Migrations: the variables keep their types.
THEOREM SchemaTypeCorrect == SchemaSpec => []SchemaTypeOK
<1>1. IInv => SchemaTypeOK
  BY DEF IInv
<1> QED
  BY InvariantHolds, <1>1, PTL

\* Migrations: from whichever earlier database, and however starts of any
\* releases interleave and fail, every change is made exactly once and a
\* serving process has the schema of its release.
THEOREM SchemaStaysWhole == SchemaSpec => []SchemaIsWhole
  BY InvariantHolds, InvariantIsWhole, PTL

\* Startup implements Migrations, so that the schema is whole under it, too.
THEOREM StartupKeepsSchemaWhole == StartSpec => []SchemaIsWhole
<1>1. StartInit => SchemaInit
  BY DEF StartInit
<1>2. [StartNext]_<<vars, schemaVars>> => [SchemaNext]_schemaVars
  BY DEF StartNext
<1>3. StartSpec => SchemaSpec
  BY <1>1, <1>2, PTL DEF StartSpec, SchemaSpec
<1> QED
  BY <1>3, SchemaStaysWhole, PTL

-----------------------------------------------------------------------------
(* Accounts *)

\* A request has what its step will use.
Request == [step : Steps, server : Servers \cup {None}, target : Accounts \cup {None},
            admin : BOOLEAN, enabled : BOOLEAN, cred : {"keep", "on", "off", "new"},
            groups : SUBSET Groups, settings : Settings \cup {None}]

\* What the steps of a request rely on.
Sound(r, u) ==
    /\ r.step \in {"setup", "complete", "session", "replace", "update"} => r.target \in Accounts
    /\ r.step \in {"setup", "complete", "save", "apply", "swap"} => r.server \in Servers
    /\ r.step \in {"save", "apply", "swap"} => r.settings \in Settings
    /\ r.step \in {"replace", "update"} => u[r.target].exists

\* Every client's request is sound.
Requests == request \in [Clients -> Request] /\ \A c \in Clients : Sound(request[c], user)

\* The setup is completed by one account.
OneSetup == \E a \in Accounts : setup \subseteq {a}

AInv == TypeOK /\ Requests /\ OneSetup /\ SessionsAreCurrent

-----------------------------------------------------------------------------
LEMMA NoRequestIsSound == NoRequest \in Request /\ \A u : Sound(NoRequest, u)
  BY AccountsAssumption DEF NoRequest, Request, Steps, Sound

LEMMA AccountsInit == Init => AInv
<1> SUFFICES ASSUME Init PROVE AInv
  OBVIOUS
<1>1. stored \in Settings /\ stored.mapped = {}
  <2>1. CASE Fresh
    BY <2>1, AccountsAssumption DEF Fresh, Settings, Modes
  <2>2. CASE InUse
    BY <2>2, AccountsAssumption DEF InUse, Settings, Modes
  <2> QED
    BY <2>1, <2>2 DEF Init
<1>2. user \in [Accounts -> [exists : BOOLEAN, admin : BOOLEAN, enabled : BOOLEAN]]
  <2>1. CASE Fresh
    BY <2>1 DEF Fresh
  <2>2. CASE InUse
    BY <2>2 DEF InUse
  <2> QED
    BY <2>1, <2>2 DEF Init
<1>3. /\ credential \in [Accounts -> {"none", "on", "off"}]
      /\ \A a \in Accounts : credential[a] # "none" => user[a].exists
  BY DEF Init, Fresh, InUse
<1>4. setup \subseteq {Admin}
  BY DEF Init, Fresh, InUse
<1>5. TypeOK
  BY <1>1, <1>2, <1>3, <1>4, AccountsAssumption DEF Init, TypeOK, NoRequest, Steps
<1>6. Requests
  BY NoRequestIsSound DEF Init, Requests
<1> QED
  BY <1>4, <1>5, <1>6, AccountsAssumption DEF AInv, OneSetup, Init, SessionsAreCurrent

\* What a request relies on stays, as accounts are never removed.
LEMMA RequestReplaced ==
    ASSUME AInv, NEW c \in Clients, NEW r \in Request, Sound(r, user'),
           request' = [request EXCEPT ![c] = r],
           \A a \in Accounts : user[a].exists => user'[a].exists
    PROVE  Requests'
<1>1. request' \in [Clients -> Request]
  BY DEF AInv, Requests
<1>2. ASSUME NEW d \in Clients PROVE Sound(request'[d], user')
  <2>1. CASE d = c
    <3>1. request'[d] = r
      BY <2>1 DEF AInv, Requests
    <3> QED
      BY <3>1
  <2>2. CASE d # c
    <3>1. request'[d] = request[d] /\ Sound(request[d], user)
      BY <2>2 DEF AInv, Requests
    <3> QED
      BY <3>1 DEF Sound
  <2> QED
    BY <2>1, <2>2
<1> QED
  BY <1>1, <1>2 DEF Requests

\* The request of c is over.
LEMMA RequestDone ==
    ASSUME AInv, NEW c \in Clients, request' = Done(c),
           \A a \in Accounts : user[a].exists => user'[a].exists
    PROVE  Requests'
  BY NoRequestIsSound, RequestReplaced DEF Done

\* A request that begins leaves everything else alone.
LEMMA BeginKeeps ==
    ASSUME AInv, NEW c \in Clients, NEW r \in Request, Begin(c, r), Sound(r, user),
           UNCHANGED <<database, required, snapshot>>, begun' \in 0..MaxRequests
    PROVE  AInv'
<1>0. UNCHANGED user /\ request' = [request EXCEPT ![c] = r]
  BY DEF Begin, database
<1>1. Requests'
  BY <1>0, RequestReplaced
<1> QED
  BY <1>1 DEF AInv, Requests, Request, TypeOK, OneSetup, SessionsAreCurrent, database

LEMMA RequestsAlone ==
    ASSUME AInv, UNCHANGED request, \A a \in Accounts : user[a].exists => user'[a].exists
    PROVE  Requests'
<1>1. request' \in [Clients -> Request]
  BY DEF AInv, Requests
<1>2. \A c \in Clients : Sound(request'[c], user')
  BY DEF AInv, Requests, Sound
<1> QED
  BY <1>1, <1>2 DEF Requests

\* The sessions of an account end: none that is left was opened before.
LEMMA SessionsEnd ==
    ASSUME AInv, NEW a \in Accounts, EndSessions(a)
    PROVE  /\ epoch' \in [Accounts -> 0..MaxEpoch]
           /\ sessions' \subseteq sessions /\ SessionsAreCurrent'
<1>1. /\ epoch' = [epoch EXCEPT ![a] = epoch[a] + 1]
      /\ epoch \in [Accounts -> 0..MaxEpoch] /\ epoch[a] < MaxEpoch
      /\ sessions' = {k \in sessions : k.account # a}
      /\ \A k \in sessions : k.account \in Accounts
  BY DEF EndSessions, AInv, TypeOK
<1>2. epoch' \in [Accounts -> 0..MaxEpoch]
  BY <1>1, AccountsAssumption
<1>3. \A b \in Accounts \ {a} : epoch'[b] = epoch[b]
  BY <1>1
<1>4. SessionsAreCurrent'
  BY <1>1, <1>3 DEF AInv, SessionsAreCurrent
<1> QED
  BY <1>1, <1>2, <1>4

\* A new password is a credential, and ends the sessions.
LEMMA CredentialSet ==
    ASSUME AInv, NEW a \in Accounts, user[a].exists, setLocalCredential(a)
    PROVE  /\ credential' \in [Accounts -> {"none", "on", "off"}]
           /\ \A b \in Accounts : credential'[b] # "none" => user[b].exists
           /\ epoch' \in [Accounts -> 0..MaxEpoch]
           /\ sessions' \subseteq sessions /\ SessionsAreCurrent'
<1>1. credential' = [credential EXCEPT ![a] = "on"] /\ EndSessions(a)
  BY DEF setLocalCredential
<1>2. /\ credential' \in [Accounts -> {"none", "on", "off"}]
      /\ \A b \in Accounts : credential'[b] # "none" => user[b].exists
  BY <1>1 DEF AInv, TypeOK
<1> QED
  BY <1>1, <1>2, SessionsEnd

-----------------------------------------------------------------------------
\* Requests begin with what they rely on.
LEMMA BeginStep ==
    ASSUME AInv, begun' \in 0..MaxRequests,
           NEW c \in Clients, NEW s \in Servers, NEW a \in Accounts,
           BeginSignIn(c, s, a) \/ BeginUpdate(c, s, a) \/ BeginSave(c, s, a)
               \/ refreshOIDCGroupMappings(c, s)
    PROVE  AInv'
<1>0. /\ stored.mapped \subseteq Groups /\ snapshot[s] \in Settings
      /\ credential[a] # "none" => user[a].exists
  BY DEF AInv, TypeOK, Settings
<1>1. CASE SubmitSetup(c, s, a)
  <2> DEFINE r == [NoRequest EXCEPT !.step = "setup", !.server = s, !.target = a]
  <2>1. r \in Request /\ Sound(r, user)
    BY NoRequestIsSound, AccountsAssumption DEF NoRequest, Request, Steps, Sound
  <2> QED
    BY <1>1, <2>1, BeginKeeps DEF SubmitSetup
<1>2. CASE SignIn(c, s, a)
  <2> DEFINE r == [NoRequest EXCEPT !.step = "session", !.target = a]
  <2>1. r \in Request /\ Sound(r, user)
    BY NoRequestIsSound, AccountsAssumption DEF NoRequest, Request, Steps, Sound
  <2> QED
    BY <1>2, <2>1, BeginKeeps DEF SignIn
<1>3. CASE ChangePassword(c, s, a)
  <2> DEFINE r == [NoRequest EXCEPT !.step = "replace", !.target = a]
  <2>1. r \in Request /\ Sound(r, user)
    BY <1>0, <1>3, NoRequestIsSound, AccountsAssumption
       DEF ChangePassword, NoRequest, Request, Steps, Sound
  <2> QED
    BY <1>3, <2>1, BeginKeeps DEF ChangePassword
<1>4. CASE BeginUpdate(c, s, a)
  <2>1. PICK b \in Accounts, f \in Forms, gs \in SUBSET Groups :
            UpdateAccount(c, s, a, b, f[1], f[2], f[3], gs)
    BY <1>4 DEF BeginUpdate
  <2>2. f[1] \in BOOLEAN /\ f[2] \in BOOLEAN /\ f[3] \in {"keep", "on", "off", "new"}
    <3>1. \/ f = <<TRUE, TRUE, "keep">> \/ f = <<FALSE, TRUE, "keep">>
          \/ f = <<FALSE, FALSE, "keep">> \/ f = <<TRUE, TRUE, "on">> \/ f = <<TRUE, TRUE, "off">>
          \/ f = <<TRUE, TRUE, "new">>
      BY <2>1 DEF Forms
    <3>2. \E x, y \in BOOLEAN, z \in {"keep", "on", "off", "new"} : f = <<x, y, z>>
      BY <3>1
    <3> QED
      BY <3>2
  <2> DEFINE r == [NoRequest EXCEPT !.step = "update", !.server = s, !.target = b,
                     !.admin = f[1], !.enabled = f[2], !.cred = f[3], !.groups = gs]
  <2>3. user[b].exists
    BY <2>1 DEF UpdateAccount
  <2>4. r \in Request /\ Sound(r, user)
    BY <2>2, <2>3, NoRequestIsSound, AccountsAssumption DEF NoRequest, Request, Steps, Sound
  <2> QED
    BY <2>1, <2>4, BeginKeeps DEF UpdateAccount
<1>5. CASE BeginSave(c, s, a)
  <2>1. PICK m \in Modes, mapped \in SUBSET Groups : SaveAdminAuthentication(c, s, a, m, mapped)
    BY <1>5 DEF BeginSave
  <2> DEFINE settings == [mode |-> m, mapped |-> mapped, saves |-> 0]
             r == [NoRequest EXCEPT !.step = "save", !.server = s, !.settings = settings]
  <2>2. settings \in Settings
    BY AccountsAssumption DEF Settings
  <2>3. r \in Request /\ Sound(r, user)
    BY <2>2, NoRequestIsSound, AccountsAssumption DEF NoRequest, Request, Steps, Sound
  <2> QED
    BY <2>1, <2>3, BeginKeeps DEF SaveAdminAuthentication
<1>6. CASE refreshOIDCGroupMappings(c, s)
  <2> DEFINE r == [NoRequest EXCEPT !.step = "swap", !.server = s, !.settings = snapshot[s],
                                    !.groups = stored.mapped]
  <2>1. r \in Request /\ Sound(r, user)
    BY <1>0, NoRequestIsSound, AccountsAssumption DEF NoRequest, Request, Steps, Sound
  <2> QED
    BY <1>6, <2>1, BeginKeeps DEF refreshOIDCGroupMappings
<1> QED
  BY <1>1, <1>2, <1>3, <1>4, <1>5, <1>6 DEF BeginSignIn

\* Groups and memberships.
LEMMA GroupStep ==
    ASSUME AInv, begun' \in 0..MaxRequests, NEW g \in Groups, NEW a \in Accounts,
           CreateGroup(g) \/ DeleteGroup(g) \/ AddGroupMember(g, a) \/ RemoveGroupMember(g, a)
    PROVE  AInv'
<1>1. UNCHANGED <<user, credential, epoch, sessions, setup, required, snapshot, request>>
  BY DEF CreateGroup, DeleteGroup, AddGroupMember, RemoveGroupMember
<1>2. Requests'
  BY <1>1, RequestsAlone
<1>3. /\ groups' \subseteq Groups /\ members' \subseteq Accounts \X groups'
      /\ stored' \in Settings /\ stored'.mapped \subseteq groups'
  BY DEF CreateGroup, DeleteGroup, AddGroupMember, RemoveGroupMember, AInv, TypeOK, Settings
<1> QED
  BY <1>1, <1>2, <1>3 DEF AInv, TypeOK, OneSetup, SessionsAreCurrent

\* Sessions end, one or all of an account.
LEMMA EndStep ==
    ASSUME AInv, begun' \in 0..MaxRequests,
           (\E k \in sessions : DeleteLocalSession(k))
               \/ (\E a \in Accounts : EndAccountSessions(a))
    PROVE  AInv'
<1>1. CASE \E k \in sessions : DeleteLocalSession(k)
  <2>1. /\ UNCHANGED <<user, credential, epoch, members, groups, stored, setup, required,
                       snapshot, request>>
        /\ sessions' \subseteq sessions
    BY <1>1 DEF DeleteLocalSession
  <2>2. Requests'
    BY <2>1, RequestsAlone
  <2> QED
    BY <2>1, <2>2 DEF AInv, TypeOK, OneSetup, SessionsAreCurrent
<1>2. CASE \E a \in Accounts : EndAccountSessions(a)
  <2>1. PICK a \in Accounts : EndAccountSessions(a)
    BY <1>2
  <2>2. /\ EndSessions(a)
        /\ UNCHANGED <<user, credential, members, groups, stored, setup, required, snapshot,
                       request>>
    BY <2>1 DEF EndAccountSessions
  <2>3. /\ epoch' \in [Accounts -> 0..MaxEpoch]
        /\ sessions' \subseteq sessions /\ SessionsAreCurrent'
    BY <2>2, SessionsEnd
  <2>4. Requests'
    BY <2>2, RequestsAlone
  <2> QED
    BY <2>2, <2>3, <2>4 DEF AInv, TypeOK, OneSetup
<1> QED
  BY <1>1, <1>2

\* What a server does on its own or at a login through the provider.
LEMMA ServerStep ==
    ASSUME AInv, begun' \in 0..MaxRequests, NEW s \in Servers, NEW a \in Accounts,
           EnsureAdministrator(s) \/ Restart(s) \/ Provision(s, a)
    PROVE  AInv'
<1>1. CASE EnsureAdministrator(s) \/ Provision(s, a)
  <2>1. UNCHANGED <<credential, epoch, sessions, members, groups, stored, setup, required,
                    snapshot, request>>
    BY <1>1 DEF EnsureAdministrator, Provision
  <2>2. /\ user' \in [Accounts -> [exists : BOOLEAN, admin : BOOLEAN, enabled : BOOLEAN]]
        /\ \A b \in Accounts : user[b].exists => user'[b].exists
    <3>1. CASE EnsureAdministrator(s)
      BY <3>1, AccountsAssumption DEF EnsureAdministrator, AInv, TypeOK
    <3>2. CASE Provision(s, a)
      BY <3>2 DEF Provision, AInv, TypeOK
    <3> QED
      BY <1>1, <3>1, <3>2
  <2>3. Requests'
    BY <2>1, <2>2, RequestsAlone
  <2> QED
    BY <2>1, <2>2, <2>3 DEF AInv, TypeOK, OneSetup, SessionsAreCurrent
<1>2. CASE Restart(s)
  <2>1. /\ UNCHANGED <<database, request>>
        /\ required' \in [Servers -> BOOLEAN] /\ snapshot' \in [Servers -> Settings]
    BY <1>2 DEF Restart, AInv, TypeOK
  <2>2. Requests'
    BY <2>1, RequestsAlone DEF database
  <2> QED
    BY <2>1, <2>2 DEF AInv, TypeOK, OneSetup, SessionsAreCurrent, database
<1> QED
  BY <1>1, <1>2

\* Requests go on: the transactions of first-run setup and of sign-ins.
LEMMA SignInStep ==
    ASSUME AInv, UNCHANGED begun, NEW c \in Clients,
           \/ CreateInitialLocalAdministrator(c) \/ completeSetup(c)
           \/ SetLocalCredential(c) \/ CreateLocalSession(c)
    PROVE  AInv'
<1> DEFINE r == request[c]
           a == request[c].target
<1>0. /\ r \in Request /\ Sound(r, user) /\ request \in [Clients -> Request]
      /\ user \in [Accounts -> [exists : BOOLEAN, admin : BOOLEAN, enabled : BOOLEAN]]
      /\ credential \in [Accounts -> {"none", "on", "off"}]
      /\ epoch \in [Accounts -> 0..MaxEpoch]
  BY DEF AInv, Requests, TypeOK
<1>1. CASE CreateInitialLocalAdministrator(c)
  <2>1. a \in Accounts /\ UNCHANGED <<epoch, sessions, members, groups, required, snapshot>>
    BY <1>0, <1>1 DEF CreateInitialLocalAdministrator, Sound
  <2>2. CASE setup = {} /\ ~user[a].exists
    <3>1. /\ user' = [user EXCEPT ![a] = [exists |-> TRUE, admin |-> TRUE, enabled |-> TRUE]]
          /\ credential' = [credential EXCEPT ![a] = "on"]
          /\ stored' = [stored EXCEPT !.mode = "local"]
          /\ setup' = {a}
          /\ request' = [request EXCEPT ![c].step = "complete"]
      BY <1>1, <2>2 DEF CreateInitialLocalAdministrator, Goto
    <3>2. Requests'
      <4> DEFINE r2 == [request[c] EXCEPT !.step = "complete"]
      <4>1. r2 \in Request
        BY <1>0 DEF Request, Steps
      <4>2. Sound(r2, user')
        BY <1>0, <1>1, <2>1 DEF CreateInitialLocalAdministrator, Request, Sound
      <4> QED
        BY <1>0, <2>1, <3>1, <4>1, <4>2, RequestReplaced
    <3>3. /\ user' \in [Accounts -> [exists : BOOLEAN, admin : BOOLEAN, enabled : BOOLEAN]]
          /\ credential' \in [Accounts -> {"none", "on", "off"}]
          /\ \A b \in Accounts : credential'[b] # "none" => user'[b].exists
      BY <1>0, <2>1, <3>1 DEF AInv, TypeOK
    <3>4. stored' \in Settings /\ stored'.mapped = stored.mapped
      BY <3>1 DEF AInv, TypeOK, Settings, Modes
    <3>5. \A d \in Clients : request'[d].step \in Steps
      BY <3>2 DEF Requests, Request
    <3>6. TypeOK'
      BY <2>1, <3>1, <3>3, <3>4, <3>5 DEF AInv, TypeOK
    <3>7. OneSetup' /\ SessionsAreCurrent'
      BY <2>1, <3>1 DEF AInv, OneSetup, SessionsAreCurrent
    <3> QED
      BY <3>2, <3>6, <3>7 DEF AInv
  <2>3. CASE ~(setup = {} /\ ~user[a].exists)
    <3>1. UNCHANGED <<user, credential, stored, setup>> /\ request' = Done(c)
      BY <1>1, <2>3 DEF CreateInitialLocalAdministrator
    <3>2. Requests'
      BY <1>0, <2>1, <3>1, RequestDone
    <3> QED
      BY <2>1, <3>1, <3>2 DEF AInv, TypeOK, Requests, Request, OneSetup, SessionsAreCurrent
  <2> QED
    BY <2>2, <2>3
<1>2. CASE completeSetup(c)
  <2>1. a \in Accounts /\ UNCHANGED database
    BY <1>0, <1>2 DEF completeSetup, Sound
  <2>2. required' \in [Servers -> BOOLEAN] /\ snapshot' \in [Servers -> Settings]
    BY <1>2 DEF completeSetup, AInv, TypeOK, Settings, Modes
  <2>3. Requests'
    <3> DEFINE onward == [request[c] EXCEPT !.step = "session"]
    <3>1. onward \in Request /\ Sound(onward, user')
      BY <1>0, <2>1 DEF Request, Steps, Sound
    <3> QED
      BY <1>2, <2>1, <3>1, RequestReplaced DEF completeSetup, Goto, database
  <2> QED
    BY <2>1, <2>2, <2>3
       DEF AInv, TypeOK, Requests, Request, OneSetup, SessionsAreCurrent, database
<1>3. CASE SetLocalCredential(c)
  <2> DEFINE onward == [request[c] EXCEPT !.step = "session"]
  <2>1. /\ a \in Accounts /\ user[a].exists /\ setLocalCredential(a)
        /\ UNCHANGED <<user, members, groups, stored, setup, required, snapshot>>
        /\ request' = [request EXCEPT ![c] = onward]
    BY <1>0, <1>3 DEF SetLocalCredential, Sound, Goto
  <2>2. onward \in Request /\ Sound(onward, user')
    BY <1>0, <2>1 DEF Request, Steps, Sound
  <2>3. Requests'
    BY <2>1, <2>2, RequestReplaced
  <2> QED
    BY <2>1, <2>3, CredentialSet DEF AInv, TypeOK, Requests, Request, OneSetup
<1>4. CASE CreateLocalSession(c)
  <2> DEFINE k == [account |-> a, epoch |-> epoch[a]]
  <2>1. /\ a \in Accounts
        /\ sessions' = sessions \cup {k} /\ request' = Done(c)
        /\ UNCHANGED <<user, credential, epoch, members, groups, stored, setup, required, snapshot>>
    BY <1>0, <1>4 DEF CreateLocalSession, Sound
  <2>2. k \in [account : Accounts, epoch : 0..MaxEpoch]
    BY <1>0, <2>1
  <2>3. Requests'
    BY <1>0, <2>1, RequestDone
  <2> QED
    BY <2>1, <2>2, <2>3 DEF AInv, TypeOK, Requests, Request, OneSetup, SessionsAreCurrent
<1> QED
  BY <1>1, <1>2, <1>3, <1>4

\* Requests go on: administration and the callback of a login.
LEMMA AdministrationStep ==
    ASSUME AInv, UNCHANGED begun, NEW c \in Clients,
           UpdateUserAccount(c) \/ SaveAuthenticationSettings(c) \/ applySettings(c) \/ callback(c)
    PROVE  AInv'
<1> DEFINE r == request[c]
           a == request[c].target
<1>0. /\ r \in Request /\ Sound(r, user) /\ request \in [Clients -> Request]
      /\ user \in [Accounts -> [exists : BOOLEAN, admin : BOOLEAN, enabled : BOOLEAN]]
      /\ credential \in [Accounts -> {"none", "on", "off"}]
      /\ members \subseteq Accounts \X groups
  BY DEF AInv, Requests, TypeOK
<1>1. CASE UpdateUserAccount(c)
  <2>1. /\ a \in Accounts /\ user[a].exists /\ request' = Done(c)
        /\ UNCHANGED <<groups, stored, setup, required, snapshot>>
    BY <1>0, <1>1 DEF UpdateUserAccount, Sound
  <2>2. CASE r.groups \subseteq groups
    <3>1. /\ user' = [user EXCEPT ![a].admin = r.admin, ![a].enabled = r.enabled]
          /\ replaceUserGroups(a, r.groups)
      BY <1>1, <2>2 DEF UpdateUserAccount
    <3>2. /\ user' \in [Accounts -> [exists : BOOLEAN, admin : BOOLEAN, enabled : BOOLEAN]]
          /\ \A b \in Accounts : user'[b].exists = user[b].exists
      BY <1>0, <2>1, <3>1 DEF Request
    <3>3. Requests'
      BY <2>1, <3>2, RequestDone
    <3>4. members' \subseteq Accounts \X groups'
      BY <1>0, <2>1, <2>2, <3>1 DEF replaceUserGroups
    <3>5. /\ credential' \in [Accounts -> {"none", "on", "off"}]
          /\ \A b \in Accounts : credential'[b] # "none" => user[b].exists
          /\ epoch' \in [Accounts -> 0..MaxEpoch]
          /\ sessions' \subseteq sessions /\ SessionsAreCurrent'
      <4>1. CASE r.cred = "new"
        <5>1. setLocalCredential(a)
          BY <1>1, <2>2, <4>1 DEF UpdateUserAccount
        <5> QED
          BY <2>1, <5>1, CredentialSet
      <4>2. CASE r.cred # "new"
        <5>1. /\ updateUserCredentialState(a, r.cred) /\ r.cred \in {"keep", "on", "off"}
              /\ EndSessions(a) \/ UNCHANGED <<epoch, sessions>>
          BY <1>0, <1>1, <2>2, <4>2 DEF UpdateUserAccount, Request
        <5>2. /\ credential' \in [Accounts -> {"none", "on", "off"}]
              /\ \A b \in Accounts : credential'[b] # "none" => credential[b] # "none"
          BY <1>0, <5>1 DEF updateUserCredentialState
        <5>3. \A b \in Accounts : credential'[b] # "none" => user[b].exists
          BY <5>2 DEF AInv, TypeOK
        <5>4. UNCHANGED <<epoch, sessions>> =>
                  /\ epoch' \in [Accounts -> 0..MaxEpoch]
                  /\ sessions' \subseteq sessions /\ SessionsAreCurrent'
          BY DEF AInv, TypeOK, SessionsAreCurrent
        <5> QED
          BY <2>1, <5>1, <5>2, <5>3, <5>4, SessionsEnd
      <4> QED
        BY <4>1, <4>2
    <3> QED
      BY <2>1, <3>2, <3>3, <3>4, <3>5 DEF AInv, TypeOK, Requests, Request, OneSetup
  <2>3. CASE ~(r.groups \subseteq groups)
    <3>1. UNCHANGED <<user, credential, epoch, sessions, members>>
      BY <1>1, <2>3 DEF UpdateUserAccount
    <3>2. Requests'
      BY <2>1, <3>1, RequestDone
    <3> QED
      BY <2>1, <3>1, <3>2 DEF AInv, TypeOK, Requests, Request, OneSetup, SessionsAreCurrent
  <2> QED
    BY <2>2, <2>3
<1>2. CASE SaveAuthenticationSettings(c)
  <2>1. /\ UNCHANGED <<user, credential, epoch, sessions, members, groups, setup, required, snapshot>>
        /\ r.settings \in Settings
    BY <1>0, <1>2 DEF SaveAuthenticationSettings, Sound
  <2>2. CASE r.settings.mapped \subseteq groups
    <3>1. stored' \in Settings /\ stored'.mapped \subseteq groups
      <4>1. stored' = [r.settings EXCEPT !.saves = stored.saves + 1] /\ stored.saves < MaxSaves
        BY <1>2, <2>2 DEF SaveAuthenticationSettings
      <4>2. stored.saves + 1 \in 0..MaxSaves
        BY <4>1, AccountsAssumption DEF AInv, TypeOK, Settings
      <4> QED
        BY <2>1, <2>2, <4>1, <4>2 DEF Settings
    <3>2. request' = [request EXCEPT ![c].step = "apply", ![c].settings = stored']
      BY <1>2, <2>2 DEF SaveAuthenticationSettings
    <3> DEFINE onward == [request[c] EXCEPT !.step = "apply", !.settings = stored']
    <3>3. onward \in Request /\ Sound(onward, user')
      BY <1>0, <1>2, <3>1 DEF SaveAuthenticationSettings, Request, Steps, Sound
    <3>4. Requests'
      BY <1>0, <2>1, <3>2, <3>3, RequestReplaced
    <3> QED
      BY <2>1, <3>1, <3>4 DEF AInv, TypeOK, Requests, Request, OneSetup, SessionsAreCurrent
  <2>3. CASE ~(r.settings.mapped \subseteq groups)
    <3>1. request' = Done(c) /\ UNCHANGED stored
      BY <1>2, <2>3 DEF SaveAuthenticationSettings
    <3>2. Requests'
      BY <1>0, <2>1, <3>1, RequestDone
    <3> QED
      BY <2>1, <3>1, <3>2 DEF AInv, TypeOK, Requests, Request, OneSetup, SessionsAreCurrent
  <2> QED
    BY <2>2, <2>3
<1>3. CASE applySettings(c) \/ callback(c)
  <2>1. /\ UNCHANGED <<user, credential, epoch, sessions, groups, stored, setup, required>>
        /\ request' = Done(c)
    BY <1>3 DEF applySettings, callback, swapSnapshot, database
  <2>2. Requests'
    BY <1>0, <2>1, RequestDone
  <2>3. snapshot' \in [Servers -> Settings]
    <3>1. CASE applySettings(c)
      BY <1>0, <3>1 DEF applySettings, Sound, AInv, TypeOK
    <3>2. CASE callback(c)
      <4>1. r.settings \in Settings /\ r.groups \subseteq Groups
        BY <1>0, <3>2 DEF callback, Sound, Request
      <4>2. [r.settings EXCEPT !.mapped = r.groups] \in Settings
        BY <4>1 DEF Settings
      <4> QED
        BY <3>2, <4>2 DEF callback, swapSnapshot, AInv, TypeOK
    <3> QED
      BY <1>3, <3>1, <3>2
  <2>4. members' \subseteq Accounts \X groups
    BY <1>0, <1>3 DEF applySettings, callback, SyncOIDCGroups, database
  <2> QED
    BY <2>1, <2>2, <2>3, <2>4 DEF AInv, TypeOK, Requests, Request, OneSetup, SessionsAreCurrent
<1> QED
  BY <1>1, <1>2, <1>3

-----------------------------------------------------------------------------
LEMMA AccountsStep == AInv /\ [Next]_vars => AInv'
<1> SUFFICES ASSUME AInv, [Next]_vars PROVE AInv'
  OBVIOUS
<1>1. ASSUME NEW c \in Clients, ContinueRequest(c), UNCHANGED begun PROVE AInv'
  BY <1>1, SignInStep, AdministrationStep DEF ContinueRequest
<1>2. ASSUME begun < MaxRequests, BeginRequest, begun' = begun + 1 PROVE AInv'
  <2>1. begun' \in 0..MaxRequests
    BY <1>2, AccountsAssumption DEF AInv, TypeOK
  <2>2. ASSUME NEW c \in Clients, NEW s \in Servers, NEW a \in Accounts,
               BeginSignIn(c, s, a) \/ BeginUpdate(c, s, a) \/ BeginSave(c, s, a)
        PROVE  AInv'
    BY <2>1, <2>2, BeginStep
  <2>3. ASSUME NEW c \in Clients, NEW s \in Servers, refreshOIDCGroupMappings(c, s) PROVE AInv'
    BY <2>1, <2>3, BeginStep, AccountsAssumption
  <2>4. ASSUME NEW g \in Groups, NEW a \in Accounts,
               CreateGroup(g) \/ DeleteGroup(g) \/ AddGroupMember(g, a) \/ RemoveGroupMember(g, a)
        PROVE  AInv'
    BY <2>1, <2>4, GroupStep
  <2>5. ASSUME NEW a \in Accounts, EndAccountSessions(a) PROVE AInv'
    BY <2>1, <2>5, EndStep
  <2>6. ASSUME NEW k \in sessions, DeleteLocalSession(k) PROVE AInv'
    BY <2>1, <2>6, EndStep
  <2>7. ASSUME NEW s \in Servers, NEW a \in Accounts,
               EnsureAdministrator(s) \/ Restart(s) \/ Provision(s, a)
        PROVE  AInv'
    BY <2>1, <2>7, ServerStep
  <2> QED
    BY <1>2, <2>2, <2>3, <2>4, <2>5, <2>6, <2>7, AccountsAssumption DEF BeginRequest, GroupRequest
<1>3. ASSUME UNCHANGED vars PROVE AInv'
  <2>1. Requests'
    BY <1>3, RequestsAlone DEF vars
  <2> QED
    BY <1>3, <2>1 DEF vars, AInv, TypeOK, OneSetup, SessionsAreCurrent
<1> QED
  BY <1>1, <1>2, <1>3 DEF Next

LEMMA AccountsInvariant == Spec => []AInv
  BY AccountsInit, AccountsStep, PTL DEF Spec

\* One account is one setup.
LEMMA OneSetupIsOnce == OneSetup => SetupOnce
<1> SUFFICES ASSUME NEW a \in Accounts, setup \subseteq {a} PROVE Cardinality(setup) <= 1
  BY DEF OneSetup, SetupOnce
<1>1. Cardinality({a}) = 1 /\ IsFiniteSet({a})
  BY FS_Singleton
<1> QED
  BY <1>1, FS_Subset

\* A request that is under way is taken on by its own steps only.
LEMMA OthersWait ==
    ASSUME AInv, [Next]_vars, NEW c \in Clients,
           request[c].step # "idle", request'[c].step # request[c].step
    PROVE  ContinueRequest(c)
<1>0. request \in [Clients -> Request] /\ \A d \in Clients : request[d].step \in Steps
  BY DEF AInv, Requests, Request
<1>1. ASSUME NEW d \in Clients, NEW r, Begin(d, r) PROVE FALSE
  BY <1>0, <1>1 DEF Begin, NoRequest
<1>2. UNCHANGED request => FALSE
  OBVIOUS
<1>3. CASE UNCHANGED vars
  BY <1>2, <1>3 DEF vars
<1>4. ASSUME BeginRequest PROVE FALSE
  <2>1. ASSUME NEW d \in Clients, NEW s \in Servers, NEW a \in Accounts,
               BeginSignIn(d, s, a) \/ BeginUpdate(d, s, a) \/ BeginSave(d, s, a)
                   \/ refreshOIDCGroupMappings(d, s)
        PROVE  FALSE
    BY <1>1, <2>1 DEF BeginSignIn, SignIn, ChangePassword, SubmitSetup, BeginUpdate, UpdateAccount,
       BeginSave, SaveAdminAuthentication, refreshOIDCGroupMappings
  <2>2. ~GroupRequest
    BY <1>2 DEF GroupRequest, CreateGroup, DeleteGroup, AddGroupMember, RemoveGroupMember
  <2>3. ASSUME NEW a \in Accounts, EndAccountSessions(a) PROVE FALSE
    BY <1>2, <2>3 DEF EndAccountSessions
  <2>4. ASSUME NEW s \in Servers, NEW a \in Accounts,
               EnsureAdministrator(s) \/ Restart(s) \/ Provision(s, a)
        PROVE  FALSE
    BY <1>2, <2>4 DEF EnsureAdministrator, Restart, Provision
  <2>5. ~\E k \in sessions : DeleteLocalSession(k)
    BY <1>2 DEF DeleteLocalSession
  <2> QED
    BY <1>4, <2>1, <2>2, <2>3, <2>4, <2>5, AccountsAssumption DEF BeginRequest
<1>5. ASSUME NEW d \in Clients, d # c, ContinueRequest(d) PROVE FALSE
  <2>1. request'[c] = request[c] => FALSE
    OBVIOUS
  <2>2. Done(d)[c] = request[c]
    BY <1>0, <1>5 DEF Done
  <2>3. CASE SetLocalCredential(d)
    BY <1>0, <1>5, <2>1, <2>3 DEF SetLocalCredential, Goto
  <2>4. CASE UpdateUserAccount(d)
    BY <2>1, <2>2, <2>4 DEF UpdateUserAccount
  <2>5. CASE CreateInitialLocalAdministrator(d) \/ completeSetup(d) \/ CreateLocalSession(d)
    BY <1>0, <1>5, <2>1, <2>2, <2>5
       DEF CreateInitialLocalAdministrator, completeSetup, CreateLocalSession, Goto
  <2>6. CASE SaveAuthenticationSettings(d) \/ applySettings(d) \/ callback(d)
    BY <1>0, <1>5, <2>1, <2>2, <2>6 DEF SaveAuthenticationSettings, applySettings, callback
  <2> QED
    BY <1>5, <2>3, <2>4, <2>5, <2>6 DEF ContinueRequest
<1> QED
  BY <1>3, <1>4, <1>5 DEF Next

\* A callback leaves the mode and the save of the server's settings as they are.
LEMMA CallbackLeavesMode ==
    ASSUME AInv, [Next]_vars, NEW c \in Clients, NEW s \in Servers,
           request[c].step = "swap", request[c].server = s, request'[c].step = "idle"
    PROVE  snapshot'[s].mode = snapshot[s].mode /\ snapshot'[s].saves = snapshot[s].saves
<1>1. callback(c)
  BY OthersWait DEF ContinueRequest, CreateInitialLocalAdministrator, completeSetup,
     SetLocalCredential, CreateLocalSession, UpdateUserAccount, SaveAuthenticationSettings,
     applySettings
<1>2. snapshot \in [Servers -> Settings]
  BY DEF AInv, TypeOK
<1> QED
  BY <1>1, <1>2 DEF callback, swapSnapshot, Settings

-----------------------------------------------------------------------------
\* The steps of the accounts are a part of those of AccessSpec.
LEMMA AccessRunsAccounts == AccessSpec => Spec
<1>1. AccessInit => Init
  BY DEF AccessInit, StartInit
<1>2. [AccessNext]_<<vars, schemaVars, loginVars>> => [Next]_vars
  BY DEF AccessNext, StartNext
<1> QED
  BY <1>1, <1>2, PTL DEF AccessSpec, Spec

\* The rows of users, the settings servers hold and the requests of clients keep
\* their types.
THEOREM TypeCorrectness == Spec => []TypeOK
<1>1. AInv => TypeOK
  BY DEF AInv
<1> QED
  BY AccountsInvariant, <1>1, PTL

\* CreateInitialLocalAdministrator: of all clients and servers that submit the
\* first setup, one account gets it.
THEOREM SetupHappensOnce == AccessSpec => []SetupOnce
<1>1. AInv => SetupOnce
  BY OneSetupIsOnce DEF AInv
<1> QED
  BY AccessRunsAccounts, AccountsInvariant, <1>1, PTL

\* setLocalCredential, deleteLocalSessions and RevokeUserSessions: whatever ends
\* the sessions of an account, none that was opened before is left.
THEOREM SessionsStayCurrent == AccessSpec => []SessionsAreCurrent
<1>1. AInv => SessionsAreCurrent
  BY DEF AInv
<1> QED
  BY AccessRunsAccounts, AccountsInvariant, <1>1, PTL

\* refreshOIDCGroupMappings: the callback of a login that swaps a server's
\* settings for its copy with new mappings never brings back an earlier save.
THEOREM SavesAreNotUndone == AccessSpec => SavedIsNotUndone
<1>1. AInv /\ [Next]_vars =>
        [\A s \in Servers :
          (\E c \in Clients : request[c].step = "swap" /\ request[c].server = s
                              /\ request'[c].step = "idle")
          => snapshot'[s].mode = snapshot[s].mode /\ snapshot'[s].saves = snapshot[s].saves]_vars
  BY CallbackLeavesMode
<1> QED
  BY AccessRunsAccounts, AccountsInvariant, <1>1, PTL DEF Spec, SavedIsNotUndone

-----------------------------------------------------------------------------
(* Identities *)

UserRow == [name : Names \cup {None}, overridden : BOOLEAN, enabled : BOOLEAN,
            version : 1..MaxVersion, source : {"local", "oidc", "proxy"}]

Client == [step : OIDCSteps \cup ProxySteps \cup {"idle"},
           subject : Subjects \cup {None}, name : Names \cup {None},
           user : Accounts \cup {None}, status : {"none", "pending", "rejected"},
           open : BOOLEAN, version : 0..MaxVersion, stale : BOOLEAN]

\* What the step of a login or a relink relies on.  A registration that has read
\* the request row and goes on is stale if the row has been rejected since; a
\* relink takes the name its account has, and an adoption or an insert one that is
\* not retired, unless they are stale.
Fit(r, us, pd, pr, rt) ==
    /\ r.step \in OIDCSteps => r.subject \in Subjects /\ mode = "oidc"
    /\ r.step \in ProxySteps => r.name \in Names /\ mode = "proxy"
    /\ r.step \in {"lock", "refresh", "callback", "relink", "bind"} => r.user \in Accounts
    /\ r.step = "create" => r.status # "rejected"
    /\ r.step = "callback" => r.version <= us[r.user].version
    /\ r.step \in {"recheck", "record", "create"} /\ pd[r.subject] = "rejected" =>
          r.stale \/ r.status = "rejected"
    /\ r.step = "relink" => r.name = pr[r.user] \/ r.stale
    /\ r.step \in {"legacy", "bind", "insert"} /\ r.name \in rt => r.stale

Logins == \A c \in Clients : Fit(client[c], users, pending, proxy, retired)

\* An identifier the users table has not handed out yet is bound to nothing.
Vacant ==
    \A a \in Accounts : ~Row(a) =>
        users[a].version = 1 /\ proxy[a] = None /\ \A s \in Subjects : binding[s] # a

\* In each mode the identities of the other one are left alone.  An account from
\* before the proxy's identities is the only one without a provider, and the only
\* one that may be renamed between its adoption and its next request.
ByMode ==
    /\ mode = "oidc" => \A a \in Accounts : proxy[a] = None
    /\ mode = "proxy" => \A s \in Subjects : binding[s] = None /\ pending[s] = "none"
    /\ \A a \in Accounts : Row(a) /\ users[a].source = "local" => a = Legacy
    /\ mode = "proxy" => \A a \in Accounts : users[a].source # "oidc"
    /\ \A a \in Accounts \ {Legacy} : proxy[a] # None =>
          users[a].source = "proxy" /\ users[a].name = proxy[a]

\* A session has a version its account has had, an ended one a version that is over.
Revocations ==
    \A k \in cookies :
        /\ k.version <= users[k.account].version
        /\ k.cut => k.version < users[k.account].version

Typed ==
    /\ users \in [Accounts -> UserRow]
    /\ binding \in [Subjects -> Accounts \cup {None}]
    /\ pending \in [Subjects -> {"none", "pending", "rejected"}]
    /\ proxy \in [Accounts -> Names \cup {None}]
    /\ retired \subseteq Names /\ registration \in BOOLEAN
    /\ client \in [Clients -> Client]
    /\ decisions \in 0..MaxDecisions /\ mode \in {"oidc", "proxy"}
    /\ cookies \subseteq [subject : Subjects, account : Accounts,
                          version : 1..MaxVersion, cut : BOOLEAN]

\* No two rows have one key.
Unique ==
    /\ \A s, t \in Subjects : s # t /\ binding[s] # None => binding[s] # binding[t]
    /\ \A a, b \in Accounts : a # b /\ users[a].name # None => users[a].name # users[b].name
    /\ \A a, b \in Accounts : a # b /\ proxy[a] # None => proxy[a] # proxy[b]

Tables == Unique /\ Vacant /\ ByMode /\ Revocations

LInv == Typed /\ Tables /\ Logins

-----------------------------------------------------------------------------
LEMMA IdleIsFit == Idle \in Client /\ \A us, pd, pr, rt : Fit(Idle, us, pd, pr, rt)
  BY IdentitiesAssumption DEF Idle, Client, Fit, OIDCSteps, ProxySteps

LEMMA TypedRows == Typed /\ Unique => LoginTypeOK
  BY DEF Typed, Unique, LoginTypeOK, UserRow, Client

LEMMA LoginInitInvariant == LoginInit => LInv
<1> SUFFICES ASSUME LoginInit PROVE LInv
  OBVIOUS
<1>1. PICK n \in Names : users = [a \in Accounts |-> IF a = Legacy THEN [NoUser EXCEPT !.name = n]
                                                    ELSE NoUser]
  BY DEF LoginInit
<1>2. Typed
  <2>0. 1 \in 1..MaxVersion
    BY IdentitiesAssumption
  <2>1. NoUser \in UserRow /\ [NoUser EXCEPT !.name = n] \in UserRow
    BY <2>0 DEF NoUser, UserRow
  <2>3. users \in [Accounts -> UserRow]
    BY <1>1, <2>1
  <2>2. client \in [Clients -> Client]
    BY IdleIsFit DEF LoginInit
  <2> QED
    BY <2>2, <2>3, IdentitiesAssumption DEF LoginInit, Typed
<1>3. Tables
  <2>1. Unique
    BY <1>1, IdentitiesAssumption DEF LoginInit, Unique, NoUser
  <2>2. Vacant /\ ByMode /\ Revocations
    BY <1>1, IdentitiesAssumption DEF LoginInit, Vacant, ByMode, Revocations, Row, NoUser
  <2> QED
    BY <2>1, <2>2 DEF Tables
<1>4. Logins
  BY IdleIsFit DEF LoginInit, Logins
<1> QED
  BY <1>2, <1>3, <1>4 DEF LInv

\* Requests that are left alone stay fit, as long as nothing is rejected or retired.
LEMMA LoginsKept ==
    ASSUME LInv, UNCHANGED mode,
           \A c \in Clients : client'[c] = client[c]
                              \/ Fit(client'[c], users', pending', proxy', retired'),
           users' \in [Accounts -> UserRow],
           \A a \in Accounts : users[a].version <= users'[a].version,
           \A a \in Accounts : proxy[a] # None => proxy'[a] = proxy[a],
           \A s \in Subjects : pending'[s] = "rejected" => pending[s] = "rejected",
           retired' = retired
    PROVE  Logins'
<1> SUFFICES ASSUME NEW c \in Clients PROVE Fit(client[c], users, pending, proxy, retired)'
  BY DEF Logins
<1>1. client[c] \in Client /\ Fit(client[c], users, pending, proxy, retired)
  BY DEF LInv, Typed, Logins
<1>2. CASE client'[c] = client[c]
  <2>1. client[c].step = "callback" => client[c].version <= users'[client[c].user].version
    <3>1. \A a \in Accounts : users[a].version \in Int /\ users'[a].version \in Int
      BY DEF LInv, Typed, UserRow
    <3> QED
      BY <1>1, <3>1, IdentitiesAssumption DEF Fit, Client
  <2> QED
    BY <1>1, <1>2, <2>1, IdentitiesAssumption DEF Fit, OIDCSteps, ProxySteps
<1>3. CASE Fit(client'[c], users', pending', proxy', retired')
  BY <1>3 DEF Fit
<1> QED
  BY <1>2, <1>3

\* A mark waives what the tables say of the name or the request.
LEMMA MarkedIsFit ==
    ASSUME NEW r \in Client, NEW us, NEW pd, NEW pr, NEW rt, NEW vs, NEW qd, NEW qr, NEW qt,
           Fit(r, us, pd, pr, rt), \A a \in Accounts : vs[a].version = us[a].version
    PROVE  /\ [r EXCEPT !.stale = TRUE] \in Client
           /\ Fit([r EXCEPT !.stale = TRUE], vs, qd, qr, qt)
<1> DEFINE m == [r EXCEPT !.stale = TRUE]
<1>1. m \in Client
  BY DEF Client
<1>2. /\ m.stale = TRUE /\ m.step = r.step /\ m.subject = r.subject /\ m.name = r.name
      /\ m.user = r.user /\ m.status = r.status /\ m.version = r.version
  BY DEF Client
<1>3. m.step = "callback" => m.version <= vs[m.user].version
  BY <1>2 DEF Fit
<1>4. Fit(m, vs, qd, qr, qt)
  <2> HIDE DEF m
  <2> QED
    BY <1>2, <1>3 DEF Fit
<1> QED
  BY <1>1, <1>4

\* A rejection marks the registrations that have read the request row before.
LEMMA BarKeeps ==
    ASSUME LInv, UNCHANGED <<mode, proxy, retired>>, NEW S \in SUBSET Subjects,
           client' = Bar(S),
           users' \in [Accounts -> UserRow],
           \A a \in Accounts : users[a].version = users'[a].version,
           \A s \in Subjects : pending'[s] = "rejected" => pending[s] = "rejected" \/ s \in S
    PROVE  client' \in [Clients -> Client] /\ Logins'
<1> SUFFICES ASSUME NEW c \in Clients
             PROVE  client'[c] \in Client /\ Fit(client[c], users, pending, proxy, retired)'
  BY DEF Bar, Logins
<1>1. client[c] \in Client /\ Fit(client[c], users, pending, proxy, retired)
  BY DEF LInv, Typed, Logins
<1>2. client'[c] = IF client[c].subject \in S /\ client[c].step \in {"recheck", "record", "create"}
                   THEN [client[c] EXCEPT !.stale = TRUE] ELSE client[c]
  BY DEF Bar
<1>3. CASE client[c].subject \in S /\ client[c].step \in {"recheck", "record", "create"}
  <2>1. client'[c] = [client[c] EXCEPT !.stale = TRUE]
    BY <1>2, <1>3
  <2>2. \A b \in Accounts : users'[b].version = users[b].version
    OBVIOUS
  <2>3. /\ [client[c] EXCEPT !.stale = TRUE] \in Client
        /\ Fit([client[c] EXCEPT !.stale = TRUE], users', pending', proxy', retired')
    BY <1>1, <2>2, MarkedIsFit, Zenon
  <2> QED
    BY <2>1, <2>3 DEF Fit
<1>4. CASE ~(client[c].subject \in S /\ client[c].step \in {"recheck", "record", "create"})
  <2>1. client'[c] = client[c]
    BY <1>2, <1>4
  <2>2. client[c].step = "callback" => client[c].version <= users'[client[c].user].version
    BY <1>1 DEF Fit
  <2>3. client[c].step \in OIDCSteps => client[c].subject \in Subjects
    BY <1>1 DEF Fit
  <2>4. client[c].step \in {"recheck", "record", "create"} => client[c].step \in OIDCSteps
    BY DEF OIDCSteps
  <2> QED
    BY <1>1, <1>4, <2>1, <2>2, <2>3, <2>4 DEF Fit
<1> QED
  BY <1>3, <1>4

\* A relink marks the requests with the name it takes, and the other relinks of
\* the account.
LEMMA RetireKeeps ==
    ASSUME LInv, UNCHANGED <<mode, pending>>, NEW n \in Names, NEW a \in Accounts, NEW c \in Clients,
           client' = Retire(n, a, c),
           users' \in [Accounts -> UserRow],
           \A b \in Accounts : users[b].version = users'[b].version,
           \A b \in Accounts \ {a} : proxy'[b] = proxy[b],
           retired' \subseteq retired \cup {n}
    PROVE  client' \in [Clients -> Client] /\ Logins'
<1> SUFFICES ASSUME NEW d \in Clients
             PROVE  client'[d] \in Client /\ Fit(client[d], users, pending, proxy, retired)'
  BY DEF Retire, Logins
<1>1. client[d] \in Client /\ Fit(client[d], users, pending, proxy, retired)
  BY DEF LInv, Typed, Logins
<1>2. client'[d] = IF d = c THEN Idle
                   ELSE IF client[d].name = n \/ (client[d].step = "relink" /\ client[d].user = a)
                   THEN [client[d] EXCEPT !.stale = TRUE] ELSE client[d]
  BY DEF Retire
<1>3. CASE d = c
  BY <1>2, <1>3, IdleIsFit DEF Fit
<1> DEFINE hit == client[d].name = n \/ (client[d].step = "relink" /\ client[d].user = a)
<1>4. CASE d # c /\ hit
  <2>1. client'[d] = [client[d] EXCEPT !.stale = TRUE]
    BY <1>2, <1>4
  <2>2. \A b \in Accounts : users'[b].version = users[b].version
    OBVIOUS
  <2>3. /\ [client[d] EXCEPT !.stale = TRUE] \in Client
        /\ Fit([client[d] EXCEPT !.stale = TRUE], users', pending', proxy', retired')
    BY <1>1, <2>2, MarkedIsFit, Zenon
  <2> QED
    BY <2>1, <2>3 DEF Fit
<1>5. CASE d # c /\ ~hit
  <2>1. client'[d] = client[d]
    BY <1>2, <1>5
  <2>2. client[d].step = "relink" => proxy'[client[d].user] = proxy[client[d].user]
    BY <1>1, <1>5 DEF Fit
  <2>3. client[d].name \in retired' => client[d].name \in retired
    BY <1>5
  <2> QED
    BY <1>1, <2>1, <2>2, <2>3 DEF Fit
<1> QED
  BY <1>3, <1>4, <1>5

\* The steps that only read the tables leave them sound.
LEMMA TablesAlone ==
    ASSUME Tables, UNCHANGED <<users, binding, pending, proxy, cookies, mode>>
    PROVE  Tables'
  BY DEF Tables, Unique, Vacant, ByMode, Revocations, Row

-----------------------------------------------------------------------------
\* Steps of a login or relink that read the tables and write nothing.
LEMMA ReadingStep ==
    ASSUME LInv, UNCHANGED <<users, binding, pending, proxy, retired, registration, cookies, mode>>,
           decisions' \in 0..MaxDecisions, NEW c \in Clients,
           \/ \E s \in Subjects : BeginOIDCLogin(c, s)
           \/ \E n \in Names : ProxyRequest(c, n)
           \/ \E a \in Accounts : BeginRelink(c, a)
           \/ ReadRegistration(c) \/ FindBinding(c) \/ oidcUserForUpdate(c)
           \/ pendingOIDCStatusForUpdate(c) \/ deadlockDetected(c)
           \/ ProxyRegistration(c) \/ checkRetired(c)
           \/ adoptLegacyTrustedProxyIdentity(c) \/ selectLegacyUser(c)
    PROVE  LInv'
<1>0. /\ client \in [Clients -> Client] /\ client[c] \in Client
      /\ Fit(client[c], users, pending, proxy, retired)
      /\ registration \in BOOLEAN
  BY DEF LInv, Typed, Logins
<1>1. \E r \in Client : Fit(r, users, pending, proxy, retired) /\ client' = [client EXCEPT ![c] = r]
  <2>1. ASSUME NEW s \in Subjects, BeginOIDCLogin(c, s) PROVE <1>1
    <3> DEFINE r == [Idle EXCEPT !.step = "policy", !.subject = s]
    <3>1. r \in Client /\ Fit(r, users, pending, proxy, retired)
      BY <2>1, IdleIsFit DEF BeginOIDCLogin, Idle, Client, Fit, OIDCSteps, ProxySteps
    <3> QED
      BY <2>1, <3>1 DEF BeginOIDCLogin
  <2>2. ASSUME NEW n \in Names, ProxyRequest(c, n) PROVE <1>1
    <3> DEFINE r == [Idle EXCEPT !.step = "proxy", !.name = n]
    <3>1. r \in Client /\ Fit(r, users, pending, proxy, retired)
      BY <2>2, IdleIsFit DEF ProxyRequest, Idle, Client, Fit, OIDCSteps, ProxySteps
    <3> QED
      BY <2>2, <3>1 DEF ProxyRequest
  <2>3. ASSUME NEW a \in Accounts, BeginRelink(c, a) PROVE <1>1
    <3> DEFINE r == [Idle EXCEPT !.step = "relink", !.name = proxy[a], !.user = a]
    <3>1. proxy[a] \in Names /\ mode = "proxy"
      BY <2>3 DEF BeginRelink, LInv, Typed, Tables, ByMode
    <3>2. r \in Client /\ Fit(r, users, pending, proxy, retired)
      BY <3>1, IdleIsFit DEF Idle, Client, Fit, OIDCSteps, ProxySteps
    <3> QED
      BY <2>3, <3>2 DEF BeginRelink
  <2>4. CASE deadlockDetected(c)
    BY <2>4, IdleIsFit DEF deadlockDetected, Finished
  <2>5. CASE ReadRegistration(c)
    <3> DEFINE r == [client[c] EXCEPT !.step = "find", !.open = registration]
    <3>1. r \in Client /\ Fit(r, users, pending, proxy, retired)
      BY <1>0, <2>5 DEF ReadRegistration, Client, Fit, OIDCSteps, ProxySteps
    <3> QED
      BY <2>5, <3>1 DEF ReadRegistration
  <2>6. CASE FindBinding(c)
    <3>1. CASE binding[client[c].subject] # None
      <4> DEFINE r == [client[c] EXCEPT !.step = "lock", !.user = binding[client[c].subject]]
      <4>1. binding[client[c].subject] \in Accounts
        BY <1>0, <2>6, <3>1 DEF FindBinding, Fit, OIDCSteps, LInv, Typed
      <4>2. r \in Client /\ Fit(r, users, pending, proxy, retired)
        BY <1>0, <2>6, <4>1 DEF FindBinding, Client, Fit, OIDCSteps, ProxySteps
      <4> QED
        BY <2>6, <3>1, <4>2 DEF FindBinding
    <3>2. CASE binding[client[c].subject] = None
      <4>1. PICK step \in {"pending", "record", "create"} :
                /\ client' = [client EXCEPT ![c].step = step]
                /\ step # "pending" => client[c].step = "recheck"
                /\ step = "create" => client[c].status # "rejected"
        <5>1. CASE client[c].step = "find"
          <6>1. Proceed(c, "pending")
            BY <2>6, <3>2, <5>1 DEF FindBinding
          <6> QED
            BY <6>1 DEF Proceed
        <5>2. CASE client[c].step = "recheck" /\ (client[c].status = "rejected" \/ ~client[c].open)
          <6>1. Proceed(c, "record")
            BY <2>6, <3>2, <5>2 DEF FindBinding
          <6> QED
            BY <5>2, <6>1 DEF Proceed
        <5>3. CASE client[c].step = "recheck" /\ client[c].status # "rejected" /\ client[c].open
          <6>1. Proceed(c, "create")
            BY <2>6, <3>2, <5>3 DEF FindBinding
          <6> QED
            BY <5>3, <6>1 DEF Proceed
        <5> QED
          BY <2>6, <5>1, <5>2, <5>3 DEF FindBinding
      <4> DEFINE r == [client[c] EXCEPT !.step = step]
      <4>2. r \in Client /\ Fit(r, users, pending, proxy, retired)
        BY <1>0, <2>6, <4>1 DEF FindBinding, Client, Fit, OIDCSteps, ProxySteps
      <4> QED
        BY <4>1, <4>2
    <3> QED
      BY <3>1, <3>2
  <2>7. CASE oidcUserForUpdate(c)
    <3> DEFINE r == [client[c] EXCEPT !.step = "refresh"]
    <3>1. r \in Client /\ Fit(r, users, pending, proxy, retired)
      BY <1>0, <2>7 DEF oidcUserForUpdate, Client, Fit, OIDCSteps, ProxySteps
    <3> QED
      BY <2>7, <3>1 DEF oidcUserForUpdate, Proceed
  <2>8. CASE pendingOIDCStatusForUpdate(c)
    <3> DEFINE r == [client[c] EXCEPT !.step = "recheck", !.status = pending[client[c].subject]]
    <3>1. pending[client[c].subject] \in {"none", "pending", "rejected"}
      BY <1>0, <2>8 DEF pendingOIDCStatusForUpdate, Fit, OIDCSteps, LInv, Typed
    <3>2. r \in Client /\ Fit(r, users, pending, proxy, retired)
      BY <1>0, <2>8, <3>1 DEF pendingOIDCStatusForUpdate, Client, Fit, OIDCSteps, ProxySteps
    <3> QED
      BY <2>8, <3>2 DEF pendingOIDCStatusForUpdate
  <2>9. CASE ProxyRegistration(c)
    <3> DEFINE r == [client[c] EXCEPT !.step = "check"]
    <3>1. r \in Client /\ Fit(r, users, pending, proxy, retired)
      BY <1>0, <2>9 DEF ProxyRegistration, Client, Fit, OIDCSteps, ProxySteps
    <3> QED
      BY <2>9, <3>1, IdleIsFit DEF ProxyRegistration, Proceed, Finished
  <2>10. CASE checkRetired(c) \/ adoptLegacyTrustedProxyIdentity(c)
    <3>1. PICK step \in {"insert", "legacy"} :
              IF client[c].name \in retired THEN Finished(c) ELSE NotRetired(c, step)
      BY <2>10 DEF checkRetired, adoptLegacyTrustedProxyIdentity
    <3> DEFINE r == [client[c] EXCEPT !.step = step, !.stale = FALSE]
    <3>2. client[c].step \in ProxySteps
      BY <2>10 DEF checkRetired, adoptLegacyTrustedProxyIdentity, ProxySteps
    <3>3. client[c].name \notin retired => r \in Client /\ Fit(r, users, pending, proxy, retired)
      BY <1>0, <3>2 DEF Client, Fit, OIDCSteps, ProxySteps
    <3> QED
      BY <3>1, <3>3, IdleIsFit DEF NotRetired, Finished
  <2>11. CASE selectLegacyUser(c)
    <3>0. client[c].step = "legacy"
      BY <2>11 DEF selectLegacyUser
    <3>1. CASE Proceed(c, "registration")
      <4> DEFINE r == [client[c] EXCEPT !.step = "registration"]
      <4>1. r \in Client /\ Fit(r, users, pending, proxy, retired)
        BY <1>0, <3>0 DEF Client, Fit, OIDCSteps, ProxySteps
      <4> QED
        BY <3>1, <4>1 DEF Proceed
    <3>2. ASSUME NEW a \in Accounts,
                 client' = [client EXCEPT ![c].step = "bind", ![c].user = a]
          PROVE  <1>1
      <4> DEFINE r == [client[c] EXCEPT !.step = "bind", !.user = a]
      <4>1. r \in Client /\ Fit(r, users, pending, proxy, retired)
        BY <1>0, <3>0 DEF Client, Fit, OIDCSteps, ProxySteps
      <4> QED
        BY <3>2, <4>1
    <3> QED
      BY <2>11, <3>1, <3>2 DEF selectLegacyUser
  <2> QED
    BY <2>1, <2>2, <2>3, <2>4, <2>5, <2>6, <2>7, <2>8, <2>9, <2>10, <2>11
<1>2. PICK r \in Client : Fit(r, users, pending, proxy, retired) /\ client' = [client EXCEPT ![c] = r]
  BY <1>1
<1>3. client' \in [Clients -> Client] /\ \A d \in Clients : client'[d] = client[d] \/ client'[d] = r
  BY <1>0, <1>2
<1>4. Logins'
  BY <1>2, <1>3, LoginsKept DEF LInv, Typed, UserRow
<1>5. Tables'
  BY TablesAlone DEF LInv
<1> QED
  BY <1>3, <1>4, <1>5 DEF LInv, Typed
-----------------------------------------------------------------------------
(* The steps that write *)

LEMMA NewAccountIsVacant == CanInsert => NewAccount \in Accounts /\ ~Row(NewAccount)
  BY DEF CanInsert, NewAccount

\* What the invariant says of the request of a client.
LEMMA ClientOf ==
    ASSUME LInv, NEW c \in Clients
    PROVE  /\ client \in [Clients -> Client] /\ client[c] \in Client
           /\ Fit(client[c], users, pending, proxy, retired)
           /\ client[c].step \in OIDCSteps => client[c].subject \in Subjects /\ mode = "oidc"
           /\ client[c].step \in ProxySteps => client[c].name \in Names /\ mode = "proxy"
  BY DEF LInv, Typed, Logins, Fit

\* A request of one client goes on in a step that rejects and retires nothing.
LEMMA OneRequest ==
    ASSUME LInv, UNCHANGED <<mode, retired>>, NEW c \in Clients,
           NEW r \in Client, client' = [client EXCEPT ![c] = r],
           Fit(r, users', pending', proxy', retired'),
           users' \in [Accounts -> UserRow],
           \A a \in Accounts : users[a].version <= users'[a].version,
           \A a \in Accounts : proxy[a] # None => proxy'[a] = proxy[a],
           \A s \in Subjects : pending'[s] = "rejected" => pending[s] = "rejected"
    PROVE  client' \in [Clients -> Client] /\ Logins'
<1>1. client \in [Clients -> Client]
  BY DEF LInv, Typed
<1>2. \A d \in Clients : client'[d] = client[d] \/ Fit(client'[d], users', pending', proxy', retired')
  BY <1>1
<1>3. Logins'
  BY <1>2, LoginsKept
<1> QED
  BY <1>1, <1>3

LEMMA VersionsAreNumbers ==
    ASSUME LInv
    PROVE  \A a \in Accounts : users[a] \in UserRow /\ users[a].version \in 1..MaxVersion
                               /\ users[a].version \in Int /\ users[a].version <= users[a].version
<1>1. \A a \in Accounts : users[a] \in UserRow
  BY DEF LInv, Typed
<1>2. \A r \in UserRow : r.version \in 1..MaxVersion
  BY DEF UserRow
<1>3. \A v \in 1..MaxVersion : v \in Int /\ v <= v
  OBVIOUS
<1> QED
  BY <1>1, <1>2, <1>3

\* The insert of an account and its binding, in a login or an approval.
LEMMA CreateKeeps ==
    ASSUME LInv, NEW s \in Subjects, mode = "oidc", createOIDCUser(s, ProviderName[s]),
           UNCHANGED <<proxy, cookies, mode>>
    PROVE  /\ users' \in [Accounts -> UserRow] /\ binding' \in [Subjects -> Accounts \cup {None}]
           /\ Tables'
           /\ NewAccount \in Accounts /\ users'[NewAccount].version = 1
           /\ \A a \in Accounts : users[a].version <= users'[a].version
           /\ \A a \in Accounts : users'[a].version = users[a].version
<1> DEFINE a == NewAccount
           row == [NoUser EXCEPT !.name = ProviderName[s], !.source = "oidc"]
<1>0. /\ users \in [Accounts -> UserRow] /\ binding \in [Subjects -> Accounts \cup {None}]
      /\ Unique /\ Vacant /\ ByMode /\ Revocations
  BY DEF LInv, Typed, Tables
<1>1. a \in Accounts /\ ~Row(a) /\ users[a].version = 1 /\ \A t \in Subjects : binding[t] # a
  BY <1>0, NewAccountIsVacant DEF createOIDCUser, Vacant
<1>2. row \in UserRow /\ row.version = 1 /\ row.source = "oidc" /\ row.name = ProviderName[s]
      /\ ProviderName[s] \in Names /\ ProviderName[s] # None
  <2>1. ProviderName[s] \in Names /\ ProviderName[s] # None /\ 1 \in 1..MaxVersion
    BY IdentitiesAssumption
  <2> QED
    BY <2>1 DEF NoUser, UserRow
<1>3. users' = [users EXCEPT ![a] = row] /\ binding' = [binding EXCEPT ![s] = a]
      /\ usernameAvailable(ProviderName[s], None) /\ binding[s] = None
  BY DEF createOIDCUser
<1> HIDE DEF a, row
<1>4. /\ users' \in [Accounts -> UserRow] /\ binding' \in [Subjects -> Accounts \cup {None}]
      /\ users'[a] = row /\ \A b \in Accounts : b # a => users'[b] = users[b]
      /\ binding'[s] = a /\ \A t \in Subjects : t # s => binding'[t] = binding[t]
  BY <1>0, <1>1, <1>2, <1>3
<1>5. \A b \in Accounts : users'[b].version = users[b].version
  BY <1>1, <1>2, <1>4
<1>6. Unique'
  <2>1. \A b \in Accounts : users[b].name # ProviderName[s]
    BY <1>3, IdentitiesAssumption DEF usernameAvailable
  <2> QED
    BY <1>0, <1>1, <1>2, <1>4, <2>1 DEF Unique
<1>7. Vacant' /\ ByMode' /\ Revocations'
  <2>1. Vacant'
    BY <1>0, <1>1, <1>2, <1>4 DEF Vacant, Row
  <2>2. ByMode'
    BY <1>0, <1>1, <1>2, <1>4 DEF ByMode, Row
  <2>3. Revocations'
    BY <1>0, <1>5 DEF Revocations, LInv, Typed
  <2> QED
    BY <2>1, <2>2, <2>3
<1>8. \A b \in Accounts : users[b].version <= users'[b].version
  BY <1>5, VersionsAreNumbers
<1> QED
  BY <1>1, <1>2, <1>4, <1>5, <1>6, <1>7, <1>8 DEF Tables, a

\* The request row is gone when a login completes.
LEMMA CompletionKeeps ==
    ASSUME LInv, NEW c \in Clients, NEW a \in Accounts, NEW v \in 0..MaxVersion,
           client[c].step \in {"refresh", "create"},
           completeOIDCLogin(c, client[c].subject, a, v),
           users' \in [Accounts -> UserRow], v <= users'[a].version,
           \A b \in Accounts : users[b].version <= users'[b].version,
           UNCHANGED <<proxy, retired, mode>>
    PROVE  /\ client' \in [Clients -> Client] /\ Logins'
           /\ pending' \in [Subjects -> {"none", "pending", "rejected"}]
<1> DEFINE r == [client[c] EXCEPT !.step = "callback", !.status = "none", !.user = a, !.version = v]
<1>1. client[c] \in Client /\ client[c].subject \in Subjects /\ mode = "oidc"
  BY ClientOf DEF OIDCSteps
<1>2. r \in Client /\ r.step = "callback" /\ r.subject = client[c].subject /\ r.user = a /\ r.version = v
  BY <1>1 DEF Client, OIDCSteps
<1>3. client' = [client EXCEPT ![c] = r]
  BY <1>1 DEF completeOIDCLogin
<1>4. pending \in [Subjects -> {"none", "pending", "rejected"}]
  BY DEF LInv, Typed
<1>5. /\ pending' \in [Subjects -> {"none", "pending", "rejected"}]
      /\ \A t \in Subjects : pending'[t] = "rejected" => pending[t] = "rejected"
  BY <1>1, <1>4 DEF completeOIDCLogin
<1> HIDE DEF r
<1>6. Fit(r, users', pending', proxy', retired')
  BY <1>1, <1>2 DEF Fit, ProxySteps
<1> QED
  BY <1>2, <1>3, <1>5, <1>6, OneRequest

LEMMA RefreshStep ==
    ASSUME LInv, NEW c \in Clients, refreshOIDCLogin(c), UNCHANGED <<mode>>,
           decisions' \in 0..MaxDecisions
    PROVE  LInv'
<1> DEFINE s == client[c].subject
           a == client[c].user
<1>0. /\ client[c] \in Client /\ s \in Subjects /\ mode = "oidc" /\ a \in Accounts
      /\ s # None /\ a # None
  BY ClientOf, IdentitiesAssumption DEF refreshOIDCLogin, OIDCSteps, Fit
<1>1. CASE (users[a].overridden \/ usernameAvailable(ProviderName[s], a)) /\ binding[s] = a
  <2> DEFINE name == IF users[a].overridden THEN users[a].name ELSE ProviderName[s]
             row == [users[a] EXCEPT !.name = name, !.source = "oidc"]
             v == IF users[a].enabled THEN users[a].version ELSE 0
  <2>0. /\ users \in [Accounts -> UserRow] /\ Unique /\ Vacant /\ ByMode /\ Revocations
        /\ ProviderName[s] \in Names /\ ProviderName[s] # None
    BY <1>0, IdentitiesAssumption DEF LInv, Typed, Tables
  <2>1. users[a] \in UserRow /\ users[a].name # None /\ users[a].name \in Names
    <3>1. Row(a)
      BY <1>0, <1>1, <2>0 DEF Vacant
    <3> QED
      BY <1>0, <2>0, <3>1 DEF Row, UserRow
  <2>2. name \in Names /\ name # None
    BY <2>0, <2>1
  <2>3. /\ row \in UserRow /\ row.name = name /\ row.version = users[a].version
        /\ row.source = "oidc" /\ row.enabled = users[a].enabled
    BY <2>1, <2>2 DEF UserRow
  <2>4. \A b \in Accounts : b # a => users[b].name # name
    BY <1>0, <1>1, <2>0, <2>1 DEF usernameAvailable, Unique
  <2>5. users' = [users EXCEPT ![a] = row] /\ completeOIDCLogin(c, s, a, v)
        /\ UNCHANGED <<binding, proxy, retired, registration, cookies>>
    BY <1>1, <2>0, <1>0 DEF refreshOIDCLogin
  <2>6. /\ users' \in [Accounts -> UserRow] /\ users'[a] = row
        /\ \A b \in Accounts : b # a => users'[b] = users[b]
    BY <1>0, <2>0, <2>3, <2>5
  <2>7. v \in 0..MaxVersion /\ v <= users[a].version
    BY <1>0, VersionsAreNumbers, IdentitiesAssumption
  <2> HIDE DEF name, row, v
  <2>8. \A b \in Accounts : users'[b].version = users[b].version
                            /\ users[b].version <= users'[b].version
    BY <2>3, <2>6, VersionsAreNumbers
  <2>9. /\ client' \in [Clients -> Client] /\ Logins'
        /\ pending' \in [Subjects -> {"none", "pending", "rejected"}]
    <3>1. client[c].step \in {"refresh", "create"}
      BY DEF refreshOIDCLogin
    <3>2. v <= users'[a].version
      BY <1>0, <2>7, <2>8
    <3> QED
      BY <1>0, <2>5, <2>6, <2>7, <2>8, <3>1, <3>2, CompletionKeeps
  <2>10. Unique'
    BY <2>0, <2>3, <2>4, <2>5, <2>6 DEF Unique
  <2>11. Vacant' /\ ByMode' /\ Revocations'
    <3>1. Vacant'
      BY <1>0, <2>0, <2>1, <2>2, <2>3, <2>5, <2>6 DEF Vacant, Row
    <3>2. ByMode'
      BY <1>0, <2>0, <2>3, <2>5, <2>6 DEF ByMode, Row
    <3>3. Revocations'
      BY <2>0, <2>5, <2>8 DEF Revocations, LInv, Typed
    <3> QED
      BY <3>1, <3>2, <3>3
  <2> QED
    BY <2>5, <2>6, <2>9, <2>10, <2>11 DEF LInv, Typed, Tables
<1>2. CASE ~((users[a].overridden \/ usernameAvailable(ProviderName[s], a)) /\ binding[s] = a)
  <2>1. Finished(c) /\ UNCHANGED <<users, pending, binding, proxy, retired, registration, cookies>>
    BY <1>2 DEF refreshOIDCLogin
  <2>2. client' \in [Clients -> Client] /\ Logins'
    BY <2>1, IdleIsFit, OneRequest, VersionsAreNumbers DEF Finished, LInv, Typed
  <2> QED
    BY <2>1, <2>2, TablesAlone DEF LInv, Typed
<1> QED
  BY <1>1, <1>2

LEMMA RecordStep ==
    ASSUME LInv, NEW c \in Clients, recordPendingOIDCOutcome(c), UNCHANGED mode,
           decisions' \in 0..MaxDecisions
    PROVE  LInv'
<1>1. client[c].subject \in Subjects /\ mode = "oidc"
  BY ClientOf DEF recordPendingOIDCOutcome, OIDCSteps
<1>2. pending \in [Subjects -> {"none", "pending", "rejected"}]
  BY DEF LInv, Typed
<1>3. /\ pending' \in [Subjects -> {"none", "pending", "rejected"}]
      /\ \A s \in Subjects : pending'[s] = "rejected" => pending[s] = "rejected"
  BY <1>1, <1>2 DEF recordPendingOIDCOutcome, upsertPendingOIDCIdentity
<1>4. client' \in [Clients -> Client] /\ Logins'
  BY <1>3, IdleIsFit, OneRequest, VersionsAreNumbers DEF recordPendingOIDCOutcome, Finished, LInv, Typed
<1>5. Tables'
  BY <1>1 DEF recordPendingOIDCOutcome, LInv, Tables, Unique, Vacant, ByMode, Revocations, Row
<1> QED
  BY <1>3, <1>4, <1>5 DEF recordPendingOIDCOutcome, LInv, Typed
LEMMA RegisterStep ==
    ASSUME LInv, NEW c \in Clients, Register(c), UNCHANGED mode, decisions' \in 0..MaxDecisions
    PROVE  LInv'
<1> DEFINE s == client[c].subject
<1>0. s \in Subjects /\ mode = "oidc" /\ client[c].step = "create"
  BY ClientOf DEF Register, OIDCSteps
<1>1. CASE createOIDCUser(s, ProviderName[s]) /\ completeOIDCLogin(c, s, NewAccount, 1)
  <2>1. UNCHANGED <<proxy, retired, registration, cookies, mode>>
    BY DEF Register
  <2>2. /\ users' \in [Accounts -> UserRow] /\ binding' \in [Subjects -> Accounts \cup {None}]
        /\ Tables'
        /\ NewAccount \in Accounts /\ users'[NewAccount].version = 1
        /\ \A a \in Accounts : users[a].version <= users'[a].version
    BY <1>0, <1>1, <2>1, CreateKeeps
  <2>3. /\ client' \in [Clients -> Client] /\ Logins'
        /\ pending' \in [Subjects -> {"none", "pending", "rejected"}]
    <3>1. 1 \in 0..MaxVersion /\ 1 <= users'[NewAccount].version
      BY <2>2, IdentitiesAssumption
    <3> QED
      BY <1>0, <1>1, <2>1, <2>2, <3>1, CompletionKeeps
  <2> QED
    BY <2>1, <2>2, <2>3 DEF LInv, Typed
<1>2. CASE ~(createOIDCUser(s, ProviderName[s]) /\ completeOIDCLogin(c, s, NewAccount, 1))
  <2>1. Finished(c) /\ UNCHANGED <<users, pending, binding, proxy, retired, registration, cookies>>
    BY <1>2 DEF Register
  <2>2. client' \in [Clients -> Client] /\ Logins'
    BY <2>1, IdleIsFit, OneRequest, VersionsAreNumbers DEF Finished, LInv, Typed
  <2> QED
    BY <2>1, <2>2, TablesAlone DEF LInv, Typed
<1> QED
  BY <1>1, <1>2

LEMMA CookieStep ==
    ASSUME LInv, NEW c \in Clients, setSessionCookie(c), UNCHANGED mode,
           decisions' \in 0..MaxDecisions
    PROVE  LInv'
<1> DEFINE a == client[c].user
           v == client[c].version
           k == [subject |-> client[c].subject, account |-> a, version |-> v,
                 cut |-> v # users[a].version]
<1>1. /\ client[c] \in Client /\ client[c].subject \in Subjects /\ a \in Accounts
      /\ v \in 0..MaxVersion /\ v <= users[a].version
  <2>1. client[c] \in Client /\ client[c].subject \in Subjects /\ a \in Accounts
        /\ v <= users[a].version
    BY ClientOf DEF setSessionCookie, OIDCSteps, Fit
  <2> QED
    BY <2>1 DEF Client
<1>2. client' \in [Clients -> Client] /\ Logins'
  BY IdleIsFit, OneRequest, VersionsAreNumbers DEF setSessionCookie, Finished, LInv, Typed
<1>3. UNCHANGED <<users, binding, pending, proxy, retired, registration>>
  BY DEF setSessionCookie
<1>4. /\ cookies' \subseteq [subject : Subjects, account : Accounts,
                             version : 1..MaxVersion, cut : BOOLEAN]
      /\ Revocations'
  <2>0. /\ cookies \subseteq [subject : Subjects, account : Accounts,
                              version : 1..MaxVersion, cut : BOOLEAN]
        /\ Revocations
    BY DEF LInv, Typed, Tables
  <2>1. CASE cookies' = cookies
    BY <1>3, <2>0, <2>1 DEF Revocations
  <2>2. CASE v # 0 /\ cookies' = cookies \cup {k}
    <3>1. v \in 1..MaxVersion
      BY <1>1, <2>2
    <3>2. k \in [subject : Subjects, account : Accounts, version : 1..MaxVersion, cut : BOOLEAN]
          /\ k.account = a /\ k.version = v /\ k.cut = (v # users[a].version)
      BY <1>1, <3>1
    <3>4. users[a].version \in Int /\ v \in Int
      BY <1>1, <3>1, VersionsAreNumbers
    <3>5. v # users[a].version => v < users[a].version
      BY <1>1, <3>4
    <3> HIDE DEF k, v, a
    <3>3. k.version <= users[k.account].version /\ (k.cut => k.version < users[k.account].version)
      BY <1>1, <3>2, <3>5
    <3> QED
      BY <1>3, <2>0, <2>2, <3>2, <3>3 DEF Revocations
  <2> QED
    BY <2>1, <2>2 DEF setSessionCookie
<1>5. Tables'
  BY <1>3, <1>4 DEF LInv, Tables, Unique, Vacant, ByMode, Row
<1> QED
  BY <1>2, <1>3, <1>4, <1>5 DEF LInv, Typed

-----------------------------------------------------------------------------
(* Decisions *)

\* Requests are for subjects of the provider, which there is in its mode only.
LEMMA RequestIsOIDC ==
    ASSUME LInv, NEW s \in Subjects, pending[s] # "none" \/ binding[s] # None
    PROVE  mode = "oidc"
  BY DEF LInv, Typed, Tables, ByMode

LEMMA ApproveStep ==
    ASSUME LInv, NEW s \in Subjects, ApprovePendingOIDCIdentity(s), UNCHANGED mode,
           decisions' \in 0..MaxDecisions
    PROVE  LInv'
<1>1. mode = "oidc"
  BY RequestIsOIDC DEF ApprovePendingOIDCIdentity, pendingOIDCIdentityForUpdate
<1>2. /\ users' \in [Accounts -> UserRow] /\ binding' \in [Subjects -> Accounts \cup {None}]
      /\ Tables' /\ \A a \in Accounts : users[a].version <= users'[a].version
  BY <1>1, CreateKeeps DEF ApprovePendingOIDCIdentity
<1>3. /\ pending' \in [Subjects -> {"none", "pending", "rejected"}]
      /\ \A t \in Subjects : pending'[t] = "rejected" => pending[t] = "rejected"
  BY DEF ApprovePendingOIDCIdentity, LInv, Typed
<1>4. Logins'
  BY <1>2, <1>3, LoginsKept DEF ApprovePendingOIDCIdentity
<1> QED
  BY <1>2, <1>3, <1>4 DEF ApprovePendingOIDCIdentity, LInv, Typed

LEMMA LinkStep ==
    ASSUME LInv, NEW s \in Subjects, NEW a \in Accounts, LinkPendingOIDCIdentity(s, a),
           UNCHANGED mode, decisions' \in 0..MaxDecisions
    PROVE  LInv'
<1> DEFINE former == {t \in Subjects \ {s} : binding[t] = a}
           row == [users[a] EXCEPT !.source = "oidc",
                                   !.overridden = users[a].name # ProviderName[s]]
<1>0. /\ users \in [Accounts -> UserRow] /\ binding \in [Subjects -> Accounts \cup {None}]
      /\ pending \in [Subjects -> {"none", "pending", "rejected"}]
      /\ Unique /\ Vacant /\ ByMode /\ Revocations
  BY DEF LInv, Typed, Tables
<1>1. mode = "oidc"
  BY RequestIsOIDC DEF LinkPendingOIDCIdentity, pendingOIDCIdentityForUpdate
<1>2. Row(a) /\ users[a] \in UserRow /\ binding[s] = None
  BY <1>0 DEF LinkPendingOIDCIdentity, oidcUserProfileForUpdate, ensureOIDCIdentityUnbound
<1>3. /\ row \in UserRow /\ row.name = users[a].name /\ row.version = users[a].version
      /\ row.source = "oidc"
  BY <1>2 DEF UserRow
<1>4. users' = [users EXCEPT ![a] = row]
  BY <1>0 DEF LinkPendingOIDCIdentity, replaceOIDCIdentityBinding
<1> HIDE DEF row
<1>5. /\ users' \in [Accounts -> UserRow] /\ users'[a] = row
      /\ \A b \in Accounts : b # a => users'[b] = users[b]
  BY <1>0, <1>3, <1>4
<1>6. /\ binding' \in [Subjects -> Accounts \cup {None}] /\ binding'[s] = a
      /\ \A t \in Subjects : t # s => binding'[t] = None \/ (binding'[t] = binding[t] /\ binding[t] # a)
  BY <1>0 DEF LinkPendingOIDCIdentity, replaceOIDCIdentityBinding
<1>7. /\ pending' \in [Subjects -> {"none", "pending", "rejected"}]
      /\ \A t \in Subjects : pending'[t] = "rejected" => pending[t] = "rejected" \/ t \in former
  BY <1>0 DEF LinkPendingOIDCIdentity, rejectOIDCIdentity
<1>8. client' = Bar(former) /\ UNCHANGED <<proxy, retired, registration, cookies>>
  BY DEF LinkPendingOIDCIdentity
<1>9. \A b \in Accounts : users[b].version = users'[b].version
  BY <1>3, <1>5
<1> HIDE DEF former
<1>10. client' \in [Clients -> Client] /\ Logins'
  <2>1. former \in SUBSET Subjects
    BY DEF former
  <2> QED
    BY <1>5, <1>7, <1>8, <1>9, <2>1, BarKeeps
<1>11. Tables'
  <2>1. Unique'
    BY <1>0, <1>3, <1>5, <1>6, <1>8 DEF Unique
  <2>2. Vacant'
    BY <1>0, <1>2, <1>3, <1>5, <1>6, <1>8, IdentitiesAssumption DEF Vacant, Row
  <2>3. ByMode'
    BY <1>0, <1>1, <1>3, <1>5, <1>8 DEF ByMode, Row
  <2>4. Revocations'
    BY <1>0, <1>8, <1>9 DEF Revocations, LInv, Typed
  <2> QED
    BY <2>1, <2>2, <2>3, <2>4 DEF Tables
<1> QED
  BY <1>5, <1>6, <1>7, <1>8, <1>10, <1>11 DEF LInv, Typed

LEMMA RejectStep ==
    ASSUME LInv, NEW s \in Subjects, NEW r \in BOOLEAN, SetPendingOIDCIdentityRejected(s, r),
           UNCHANGED mode, decisions' \in 0..MaxDecisions
    PROVE  LInv'
<1>0. pending \in [Subjects -> {"none", "pending", "rejected"}] /\ users \in [Accounts -> UserRow]
      /\ client \in [Clients -> Client]
  BY DEF LInv, Typed
<1>1. mode = "oidc"
  BY RequestIsOIDC DEF SetPendingOIDCIdentityRejected
<1>2. UNCHANGED <<users, binding, proxy, retired, registration, cookies>>
  BY DEF SetPendingOIDCIdentityRejected
<1>3. client' \in [Clients -> Client] /\ Logins'
      /\ pending' \in [Subjects -> {"none", "pending", "rejected"}]
  <2>1. CASE r
    <3>1. /\ pending' \in [Subjects -> {"none", "pending", "rejected"}]
          /\ \A t \in Subjects : pending'[t] = "rejected" => pending[t] = "rejected" \/ t \in {s}
      BY <1>0, <2>1 DEF SetPendingOIDCIdentityRejected
    <3>2. client' = Bar({s})
      BY <2>1 DEF SetPendingOIDCIdentityRejected
    <3> QED
      BY <1>0, <1>2, <3>1, <3>2, BarKeeps
  <2>2. CASE ~r
    <3>1. /\ pending' \in [Subjects -> {"none", "pending", "rejected"}]
          /\ \A t \in Subjects : pending'[t] = "rejected" => pending[t] = "rejected"
      BY <1>0, <2>2 DEF SetPendingOIDCIdentityRejected
    <3>2. client' = client
      BY <2>2 DEF SetPendingOIDCIdentityRejected
    <3> QED
      BY <1>0, <1>2, <3>1, <3>2, LoginsKept, VersionsAreNumbers
  <2> QED
    BY <2>1, <2>2
<1>4. Tables'
  BY <1>1, <1>2 DEF LInv, Tables, Unique, Vacant, ByMode, Revocations, Row
<1> QED
  BY <1>2, <1>3, <1>4 DEF LInv, Typed

LEMMA RemoveStep ==
    ASSUME LInv, NEW s \in Subjects, NEW a \in Accounts, RemoveOIDCIdentity(a, s),
           UNCHANGED mode, decisions' \in 0..MaxDecisions
    PROVE  LInv'
<1>0. /\ pending \in [Subjects -> {"none", "pending", "rejected"}] /\ users \in [Accounts -> UserRow]
      /\ binding \in [Subjects -> Accounts \cup {None}]
  BY DEF LInv, Typed
<1>1. mode = "oidc"
  BY RequestIsOIDC, IdentitiesAssumption DEF RemoveOIDCIdentity
<1>2. UNCHANGED <<users, proxy, retired, registration, cookies>> /\ client' = Bar({s})
  BY DEF RemoveOIDCIdentity
<1>3. /\ pending' \in [Subjects -> {"none", "pending", "rejected"}]
      /\ \A t \in Subjects : pending'[t] = "rejected" => pending[t] = "rejected" \/ t \in {s}
  BY <1>0 DEF RemoveOIDCIdentity, rejectOIDCIdentity
<1>4. /\ binding' \in [Subjects -> Accounts \cup {None}]
      /\ \A t \in Subjects : binding'[t] = None \/ binding'[t] = binding[t]
  BY <1>0 DEF RemoveOIDCIdentity
<1>5. client' \in [Clients -> Client] /\ Logins'
  BY <1>0, <1>2, <1>3, BarKeeps
<1>6. Tables'
  BY <1>1, <1>2, <1>4, IdentitiesAssumption DEF LInv, Tables, Unique, Vacant, ByMode, Revocations, Row
<1> QED
  BY <1>2, <1>3, <1>4, <1>5, <1>6 DEF LInv, Typed
\* A user row gets another name, owner or state; its version does not go back.
LEMMA UserStep ==
    ASSUME LInv, NEW a \in Accounts, NEW row \in UserRow, users' = [users EXCEPT ![a] = row],
           Row(a), row.name # None, row.version >= users[a].version,
           row.source \in {users[a].source},
           \A b \in Accounts \ {a} : users[b].name # row.name,
           a = Legacy \/ proxy[a] = None \/ row.name = users[a].name,
           UNCHANGED <<binding, pending, proxy, retired, client, mode>>
    PROVE  /\ users' \in [Accounts -> UserRow]
           /\ Unique' /\ Vacant' /\ ByMode' /\ Logins'
           /\ users'[a] = row /\ \A b \in Accounts \ {a} : users'[b] = users[b]
           /\ \A b \in Accounts : users[b].version <= users'[b].version
<1>0. users \in [Accounts -> UserRow] /\ Unique /\ Vacant /\ ByMode
  BY DEF LInv, Typed, Tables
<1>1. /\ users' \in [Accounts -> UserRow] /\ users'[a] = row
      /\ \A b \in Accounts \ {a} : users'[b] = users[b]
  BY <1>0
<1>2. \A b \in Accounts : users[b].version <= users'[b].version
  <2>1. row.version \in Int
    BY DEF UserRow
  <2> QED
    BY <1>1, <2>1, VersionsAreNumbers
<1>3. Unique'
  BY <1>0, <1>1 DEF Unique
<1>4. Vacant'
  BY <1>0, <1>1 DEF Vacant, Row
<1>5. ByMode'
  BY <1>0, <1>1 DEF ByMode, Row
<1>6. Logins'
  BY <1>1, <1>2, LoginsKept
<1> QED
  BY <1>1, <1>2, <1>3, <1>4, <1>5, <1>6

\* A version that is over is over for every session of the account.
LEMMA RevocationStep ==
    ASSUME LInv, NEW a \in Accounts, cookies' = CutOff(a),
           \A b \in Accounts : users[b].version <= users'[b].version,
           users[a].version < users'[a].version, users' \in [Accounts -> UserRow]
    PROVE  /\ cookies' \subseteq [subject : Subjects, account : Accounts,
                                  version : 1..MaxVersion, cut : BOOLEAN]
           /\ Revocations'
<1>0. /\ cookies \subseteq [subject : Subjects, account : Accounts,
                            version : 1..MaxVersion, cut : BOOLEAN]
      /\ Revocations
  BY DEF LInv, Typed, Tables
<1> SUFFICES ASSUME NEW j \in cookies'
             PROVE  /\ j \in [subject : Subjects, account : Accounts,
                              version : 1..MaxVersion, cut : BOOLEAN]
                    /\ j.version <= users'[j.account].version
                    /\ j.cut => j.version < users'[j.account].version
  BY DEF Revocations
<1>1. PICK k \in cookies : j = [k EXCEPT !.cut = @ \/ k.account = a]
  BY DEF CutOff
<1>2. /\ k \in [subject : Subjects, account : Accounts, version : 1..MaxVersion, cut : BOOLEAN]
      /\ k.version <= users[k.account].version
      /\ k.cut => k.version < users[k.account].version
  BY <1>0 DEF Revocations
<1>3. /\ j \in [subject : Subjects, account : Accounts, version : 1..MaxVersion, cut : BOOLEAN]
      /\ j.version = k.version /\ j.account = k.account /\ (j.cut => k.cut \/ k.account = a)
  BY <1>1, <1>2
<1>4. /\ k.version \in Int /\ users[k.account].version \in Int /\ users'[k.account].version \in Int
      /\ users[k.account].version <= users'[k.account].version
      /\ k.account = a => users[k.account].version < users'[k.account].version
  <2>1. users'[k.account] \in UserRow
    BY <1>2
  <2> QED
    BY <1>2, <2>1, VersionsAreNumbers DEF UserRow
<1> QED
  BY <1>2, <1>3, <1>4

LEMMA RenameStep ==
    ASSUME LInv, NEW a \in Accounts, NEW n \in Names, RenameUser(a, n), UNCHANGED mode,
           decisions' \in 0..MaxDecisions
    PROVE  LInv'
<1> DEFINE row == [users[a] EXCEPT !.name = n, !.overridden = users[a].source = "oidc"]
<1>0. users \in [Accounts -> UserRow] /\ users[a] \in UserRow /\ n # None /\ Revocations /\ ByMode
  BY IdentitiesAssumption DEF LInv, Typed, Tables
<1>1. row \in UserRow /\ row.name = n /\ row.version = users[a].version /\ row.source = users[a].source
  BY <1>0 DEF UserRow
<1>2. users' = [users EXCEPT ![a] = row]
      /\ UNCHANGED <<binding, pending, proxy, retired, registration, client, cookies>>
      /\ Row(a) /\ (\A b \in Accounts \ {a} : users[b].name # n) /\ users[a].source # "proxy"
  BY <1>0 DEF RenameUser, usernameAvailable, validateStoredProfileOwnership
<1> HIDE DEF row
<1>3. a = Legacy \/ proxy[a] = None
  BY <1>0, <1>2 DEF ByMode
<1>4. row.version >= users[a].version
  BY <1>1, VersionsAreNumbers
<1>5. /\ users' \in [Accounts -> UserRow]
      /\ Unique' /\ Vacant' /\ ByMode' /\ Logins'
      /\ \A b \in Accounts : users[b].version <= users'[b].version
      /\ users'[a] = row /\ \A b \in Accounts \ {a} : users'[b] = users[b]
  BY <1>0, <1>1, <1>2, <1>3, <1>4, UserStep
<1>6. Revocations'
  BY <1>0, <1>1, <1>2, <1>5 DEF Revocations, LInv, Typed
<1> QED
  BY <1>2, <1>5, <1>6 DEF LInv, Typed, Tables

LEMMA SessionsEndStep ==
    ASSUME LInv, NEW a \in Accounts, UNCHANGED mode, decisions' \in 0..MaxDecisions,
           RevokeUserSessions(a) \/ \E e \in BOOLEAN : SetUserEnabled(a, e)
    PROVE  LInv'
<1>0. users \in [Accounts -> UserRow] /\ users[a] \in UserRow /\ Row(a) /\ Revocations
      /\ Unique /\ users[a].name # None
  BY DEF LInv, Typed, Tables, RevokeUserSessions, SetUserEnabled, Row
<1>1. PICK row \in UserRow :
         /\ users' = [users EXCEPT ![a] = row]
         /\ row.name = users[a].name /\ row.source = users[a].source
         /\ \/ row.version = users[a].version /\ cookies' = cookies
            \/ row.version = users[a].version + 1 /\ cookies' = CutOff(a)
  <2>0. users[a].version \in 1..MaxVersion /\ users[a].version \in Int /\ MaxVersion \in Nat
    BY VersionsAreNumbers, IdentitiesAssumption
  <2>1. CASE RevokeUserSessions(a)
    <3> DEFINE row == [users[a] EXCEPT !.version = @ + 1]
    <3>1. users[a].version + 1 \in 1..MaxVersion
      BY <2>0, <2>1 DEF RevokeUserSessions
    <3>2. row \in UserRow /\ row.name = users[a].name /\ row.source = users[a].source
          /\ row.version = users[a].version + 1
      BY <1>0, <3>1 DEF UserRow
    <3> QED
      BY <1>0, <2>1, <3>2 DEF RevokeUserSessions
  <2>2. ASSUME NEW e \in BOOLEAN, SetUserEnabled(a, e)
        PROVE  \E row \in UserRow :
                 /\ users' = [users EXCEPT ![a] = row]
                 /\ row.name = users[a].name /\ row.source = users[a].source
                 /\ \/ row.version = users[a].version /\ cookies' = cookies
                    \/ row.version = users[a].version + 1 /\ cookies' = CutOff(a)
    <3> DEFINE v == IF e THEN users[a].version ELSE users[a].version + 1
               row == [users[a] EXCEPT !.enabled = e, !.version = v]
    <3>1. v \in 1..MaxVersion
      BY <2>0, <2>2 DEF SetUserEnabled
    <3>2. row \in UserRow /\ row.name = users[a].name /\ row.source = users[a].source
          /\ row.version = v
      BY <1>0, <3>1 DEF UserRow
    <3>3. users' = [users EXCEPT ![a] = row] /\ cookies' = IF e THEN cookies ELSE CutOff(a)
      BY <1>0, <2>2 DEF SetUserEnabled
    <3> QED
      BY <3>2, <3>3
  <2> QED
    BY <2>1, <2>2
<1>2. UNCHANGED <<binding, pending, proxy, retired, registration, client>>
  BY DEF RevokeUserSessions, SetUserEnabled
<1>3. row.version >= users[a].version
  BY <1>1, VersionsAreNumbers
<1>4. \A b \in Accounts \ {a} : users[b].name # row.name
  BY <1>0, <1>1 DEF Unique
<1>5. /\ users' \in [Accounts -> UserRow]
      /\ Unique' /\ Vacant' /\ ByMode' /\ Logins'
      /\ \A b \in Accounts : users[b].version <= users'[b].version
      /\ users'[a] = row /\ \A b \in Accounts \ {a} : users'[b] = users[b]
  BY <1>0, <1>1, <1>2, <1>3, <1>4, UserStep
<1>6. Revocations' /\ cookies' \subseteq [subject : Subjects, account : Accounts,
                                           version : 1..MaxVersion, cut : BOOLEAN]
  <2>1. CASE row.version = users[a].version /\ cookies' = cookies
    BY <1>0, <1>5, <2>1 DEF Revocations, LInv, Typed
  <2>2. CASE row.version = users[a].version + 1 /\ cookies' = CutOff(a)
    <3>1. users[a].version < users'[a].version
      BY <1>5, <2>2, VersionsAreNumbers
    <3> QED
      BY <1>5, <2>2, <3>1, RevocationStep
  <2> QED
    BY <1>1, <2>1, <2>2
<1> QED
  BY <1>2, <1>5, <1>6 DEF LInv, Typed, Tables

LEMMA RegistrationStep ==
    ASSUME LInv, SaveRegistration, UNCHANGED mode, decisions' \in 0..MaxDecisions
    PROVE  LInv'
<1>1. Logins'
  BY LoginsKept, VersionsAreNumbers DEF SaveRegistration, LInv, Typed
<1> QED
  BY <1>1, TablesAlone DEF SaveRegistration, LInv, Typed
-----------------------------------------------------------------------------
(* Requests of a trusted proxy *)

\* A request that writes nothing and goes on, or ends.
LEMMA ProxyGoesOn ==
    ASSUME LInv, NEW c \in Clients, client[c].step \in ProxySteps,
           NEW step \in {"adopt", "again", "registration"},
           Proceed(c, step) \/ Finished(c), UNCHANGED <<mode, retired, pending>>,
           users' \in [Accounts -> UserRow],
           \A a \in Accounts : users'[a].version = users[a].version,
           \A a \in Accounts : proxy[a] # None => proxy'[a] = proxy[a]
    PROVE  client' \in [Clients -> Client] /\ Logins'
<1> DEFINE r == [client[c] EXCEPT !.step = step]
<1>1. client[c] \in Client /\ client[c].name \in Names /\ mode = "proxy"
  BY ClientOf
<1>2. r \in Client /\ r.step = step /\ r.name = client[c].name
  BY <1>1 DEF Client, ProxySteps
<1> HIDE DEF r
<1>3. Fit(r, users', pending', proxy', retired')
  BY <1>1, <1>2 DEF Fit, OIDCSteps
<1>4. client' = [client EXCEPT ![c] = r] \/ client' = [client EXCEPT ![c] = Idle]
  BY DEF Proceed, Finished, r
<1>5. \A a \in Accounts : users[a].version <= users'[a].version
  BY VersionsAreNumbers
<1> QED
  BY <1>2, <1>3, <1>4, <1>5, IdleIsFit, OneRequest

LEMMA ProxyRefreshStep ==
    ASSUME LInv, NEW c \in Clients, refreshTrustedProxyUser(c), UNCHANGED mode,
           decisions' \in 0..MaxDecisions
    PROVE  LInv'
<1> DEFINE bound == {a \in Accounts : proxy[a] = client[c].name}
<1>0. client[c].step \in ProxySteps /\ client[c].name \in Names /\ mode = "proxy"
      /\ users \in [Accounts -> UserRow]
  BY ClientOf DEF refreshTrustedProxyUser, ProxySteps, LInv, Typed
<1>1. UNCHANGED <<binding, pending, proxy, retired, registration, cookies>>
  BY DEF refreshTrustedProxyUser
<1>2. /\ users' \in [Accounts -> UserRow]
      /\ \A a \in Accounts : /\ users'[a].version = users[a].version
                             /\ users'[a].name = users[a].name
                             /\ users'[a].source = users[a].source \/ users'[a].source = "proxy"
  <2>1. CASE bound = {}
    <3>1. users' = users
      BY <2>1 DEF refreshTrustedProxyUser
    <3> QED
      BY <1>0, <3>1
  <2>2. CASE bound # {}
    <3>1. users' = [a \in Accounts |-> IF a \in bound
                                      THEN [users[a] EXCEPT !.source = "proxy"] ELSE users[a]]
      BY <2>2 DEF refreshTrustedProxyUser
    <3>2. \A r \in UserRow : LET m == [r EXCEPT !.source = "proxy"] IN
              m \in UserRow /\ m.version = r.version /\ m.name = r.name /\ m.source = "proxy"
      BY DEF UserRow
    <3> HIDE DEF bound
    <3>3. ASSUME NEW a \in Accounts
          PROVE  /\ users'[a] \in UserRow /\ users'[a].version = users[a].version
                 /\ users'[a].name = users[a].name
                 /\ users'[a].source = users[a].source \/ users'[a].source = "proxy"
      BY <1>0, <3>1, <3>2
    <3> QED
      BY <3>1, <3>3
  <2> QED
    BY <2>1, <2>2
<1>3. client' \in [Clients -> Client] /\ Logins'
  <2>1. \E step \in {"adopt", "again", "registration"} : Proceed(c, step) \/ Finished(c)
    BY DEF refreshTrustedProxyUser
  <2> QED
    BY <1>0, <1>1, <1>2, <2>1, ProxyGoesOn
<1>4. Tables'
  <2>0. Unique /\ Vacant /\ ByMode /\ Revocations
    BY DEF LInv, Tables
  <2>1. Unique' /\ Vacant'
    BY <1>1, <1>2, <2>0 DEF Unique, Vacant, Row
  <2>2. ByMode'
    BY <1>0, <1>1, <1>2, <2>0 DEF ByMode, Row
  <2>3. Revocations'
    BY <1>1, <1>2, <2>0 DEF Revocations, LInv, Typed
  <2> QED
    BY <2>1, <2>2, <2>3 DEF Tables
<1> QED
  BY <1>1, <1>2, <1>3, <1>4 DEF LInv, Typed

\* Only the account from before the migration can be adopted, and no other
\* account has its name as a username or as an identity.
LEMMA AdoptStep ==
    ASSUME LInv, NEW c \in Clients, adoptLegacyTrustedProxyUser(c), UNCHANGED mode,
           decisions' \in 0..MaxDecisions
    PROVE  LInv'
<1> DEFINE n == client[c].name
           a == client[c].user
           free == proxy[a] = None /\ \A b \in Accounts : proxy[b] # n
<1>0. /\ client[c].step \in ProxySteps /\ n \in Names /\ n # None /\ mode = "proxy"
      /\ a \in Accounts
      /\ users \in [Accounts -> UserRow] /\ proxy \in [Accounts -> Names \cup {None}]
      /\ Unique /\ Vacant /\ ByMode /\ Revocations
  <2>1. client[c].step = "bind"
    BY DEF adoptLegacyTrustedProxyUser
  <2> QED
    BY <2>1, ClientOf, IdentitiesAssumption DEF ProxySteps, Fit, LInv, Typed, Tables
<1>1. UNCHANGED <<users, binding, pending, retired, registration, cookies>>
  BY DEF adoptLegacyTrustedProxyUser
<1>2. \/ proxy' = proxy
      \/ /\ proxy' = [proxy EXCEPT ![a] = n] /\ a = Legacy /\ Row(a) /\ free
  BY <1>0 DEF adoptLegacyTrustedProxyUser, ByMode, Row
<1>3. /\ proxy' \in [Accounts -> Names \cup {None}]
      /\ \A b \in Accounts : proxy[b] # None => proxy'[b] = proxy[b]
      /\ \A b \in Accounts : proxy'[b] # proxy[b] => b = Legacy /\ Row(b)
  BY <1>0, <1>2
<1>4. client' \in [Clients -> Client] /\ Logins'
  <2>1. \E step \in {"adopt", "again", "registration"} : Proceed(c, step) \/ Finished(c)
    BY DEF adoptLegacyTrustedProxyUser
  <2> QED
    BY <1>0, <1>1, <1>3, <2>1, ProxyGoesOn
<1>5. Tables'
  <2>1. Unique'
    <3>1. \A b, d \in Accounts : b # d /\ proxy'[b] # None => proxy'[b] # proxy'[d]
      BY <1>0, <1>2 DEF Unique
    <3> QED
      BY <1>0, <1>1, <3>1 DEF Unique
  <2>2. Vacant'
    BY <1>0, <1>1, <1>3 DEF Vacant, Row
  <2>3. ByMode'
    BY <1>0, <1>1, <1>3 DEF ByMode, Row
  <2>4. Revocations'
    BY <1>0, <1>1 DEF Revocations
  <2> QED
    BY <2>1, <2>2, <2>3, <2>4 DEF Tables
<1> QED
  BY <1>1, <1>3, <1>4, <1>5 DEF LInv, Typed

LEMMA InsertStep ==
    ASSUME LInv, NEW c \in Clients, CreateTrustedProxyUser(c), UNCHANGED mode,
           decisions' \in 0..MaxDecisions
    PROVE  LInv'
<1> DEFINE n == client[c].name
           a == NewAccount
           row == [NoUser EXCEPT !.name = n, !.source = "proxy"]
<1>0. /\ n \in Names /\ n # None /\ mode = "proxy" /\ client \in [Clients -> Client]
      /\ users \in [Accounts -> UserRow] /\ proxy \in [Accounts -> Names \cup {None}]
      /\ Unique /\ Vacant /\ ByMode /\ Revocations
  BY ClientOf, IdentitiesAssumption DEF CreateTrustedProxyUser, ProxySteps, LInv, Typed, Tables
<1>1. UNCHANGED <<binding, pending, retired, registration, cookies>> /\ Finished(c)
  BY DEF CreateTrustedProxyUser
<1>2. CASE CanInsert /\ usernameAvailable(n, None) /\ \A b \in Accounts : proxy[b] # n
  <2>1. a \in Accounts /\ ~Row(a) /\ users[a].version = 1 /\ proxy[a] = None
        /\ \A s \in Subjects : binding[s] # a
    BY <1>0, <1>2, NewAccountIsVacant DEF Vacant
  <2>2. row \in UserRow /\ row.version = 1 /\ row.source = "proxy" /\ row.name = n
    <3>1. 1 \in 1..MaxVersion
      BY IdentitiesAssumption
    <3> QED
      BY <1>0, <3>1 DEF NoUser, UserRow
  <2>3. users' = [users EXCEPT ![a] = row] /\ proxy' = [proxy EXCEPT ![a] = n]
    BY <1>2 DEF CreateTrustedProxyUser
  <2>4. \A b \in Accounts : users[b].name # n
    BY <1>2, IdentitiesAssumption DEF usernameAvailable
  <2> HIDE DEF a, row
  <2>5. /\ users' \in [Accounts -> UserRow] /\ proxy' \in [Accounts -> Names \cup {None}]
        /\ users'[a] = row /\ proxy'[a] = n
        /\ \A b \in Accounts : b # a => users'[b] = users[b] /\ proxy'[b] = proxy[b]
    BY <1>0, <2>1, <2>2, <2>3
  <2>6. \A b \in Accounts : users'[b].version = users[b].version
                            /\ users[b].version <= users'[b].version
    BY <2>1, <2>2, <2>5, VersionsAreNumbers
  <2>7. \A b \in Accounts : proxy[b] # None => proxy'[b] = proxy[b]
    BY <2>1, <2>5
  <2>8. client' \in [Clients -> Client] /\ Logins'
    BY <1>1, <2>5, <2>6, <2>7, IdleIsFit, OneRequest DEF Finished
  <2>9. Tables'
    <3>1. Unique'
      BY <1>0, <1>1, <1>2, <2>1, <2>2, <2>4, <2>5 DEF Unique
    <3>2. Vacant'
      BY <1>0, <1>1, <2>1, <2>2, <2>5 DEF Vacant, Row
    <3>3. ByMode'
      BY <1>0, <1>1, <2>1, <2>2, <2>5 DEF ByMode, Row
    <3>4. Revocations'
      BY <1>0, <1>1, <2>6 DEF Revocations, LInv, Typed
    <3> QED
      BY <3>1, <3>2, <3>3, <3>4 DEF Tables
  <2> QED
    BY <1>1, <2>5, <2>8, <2>9 DEF LInv, Typed
<1>3. CASE ~(CanInsert /\ usernameAvailable(n, None) /\ \A b \in Accounts : proxy[b] # n)
  <2>1. UNCHANGED <<users, proxy>>
    BY <1>3 DEF CreateTrustedProxyUser
  <2>2. client' \in [Clients -> Client] /\ Logins'
    BY <1>0, <1>1, <2>1, IdleIsFit, OneRequest, VersionsAreNumbers DEF Finished
  <2> QED
    BY <1>1, <2>1, <2>2, TablesAlone DEF LInv, Typed
<1> QED
  BY <1>2, <1>3

LEMMA RelinkStep ==
    ASSUME LInv, NEW c \in Clients, NEW n \in Names, RelinkTrustedProxyIdentity(c, n),
           UNCHANGED mode, decisions' \in 0..MaxDecisions
    PROVE  LInv'
<1> DEFINE a == client[c].user
           former == client[c].name
           row == [users[a] EXCEPT !.name = n, !.overridden = FALSE]
<1>0. /\ former \in Names /\ n # None /\ mode = "proxy" /\ a \in Accounts
      /\ users \in [Accounts -> UserRow] /\ proxy \in [Accounts -> Names \cup {None}]
      /\ users[a] \in UserRow /\ client \in [Clients -> Client]
      /\ Unique /\ Vacant /\ ByMode /\ Revocations
  BY ClientOf, IdentitiesAssumption
     DEF RelinkTrustedProxyIdentity, ProxySteps, LInv, Typed, Tables, Fit
<1>1. UNCHANGED <<binding, pending, registration, cookies>>
  BY DEF RelinkTrustedProxyIdentity
<1> DEFINE free == /\ users[a].source = "proxy"
                   /\ usernameAvailable(n, a)
                   /\ \A b \in Accounts \ {a} : proxy[b] # n
<1>2. CASE free
  <2>1. /\ retired' = (retired \ {n}) \cup ({former} \ {n})
        /\ proxy' = [proxy EXCEPT ![a] = n] /\ users' = [users EXCEPT ![a] = row]
        /\ client' = Retire(former, a, c)
    BY <1>0, <1>2 DEF RelinkTrustedProxyIdentity
  <2>2. row \in UserRow /\ row.name = n /\ row.version = users[a].version
        /\ row.source = "proxy"
    BY <1>0, <1>2 DEF UserRow
  <2> HIDE DEF row
  <2>3. /\ users' \in [Accounts -> UserRow] /\ proxy' \in [Accounts -> Names \cup {None}]
        /\ users'[a] = row /\ proxy'[a] = n
        /\ \A b \in Accounts \ {a} : users'[b] = users[b] /\ proxy'[b] = proxy[b]
    BY <1>0, <2>1, <2>2
  <2>4. \A b \in Accounts : users[b].version = users'[b].version
    BY <2>2, <2>3
  <2>5. retired' \subseteq retired \cup {former} /\ retired' \subseteq Names
    BY <1>0, <2>1 DEF LInv, Typed
  <2>6. client' \in [Clients -> Client] /\ Logins'
    BY <1>0, <1>1, <2>1, <2>3, <2>4, <2>5, RetireKeeps
  <2>7. Tables'
    <3>1. Unique'
      BY <1>0, <1>1, <1>2, <2>2, <2>3 DEF Unique, usernameAvailable
    <3>2. Vacant'
      BY <1>0, <1>1, <2>2, <2>3 DEF Vacant, Row
    <3>3. ByMode'
      BY <1>0, <1>1, <2>2, <2>3 DEF ByMode, Row
    <3>4. Revocations'
      BY <1>0, <1>1, <2>4 DEF Revocations, LInv, Typed
    <3> QED
      BY <3>1, <3>2, <3>3, <3>4 DEF Tables
  <2> QED
    BY <1>1, <2>3, <2>5, <2>6, <2>7 DEF LInv, Typed
<1>3. CASE ~free
  <2>1. UNCHANGED <<users, proxy, retired>> /\ Finished(c)
    BY <1>3 DEF RelinkTrustedProxyIdentity
  <2>2. client' \in [Clients -> Client] /\ Logins'
    BY <1>0, <1>1, <2>1, IdleIsFit, OneRequest, VersionsAreNumbers DEF Finished
  <2> QED
    BY <1>1, <2>1, <2>2, TablesAlone DEF LInv, Typed
<1> QED
  BY <1>2, <1>3
-----------------------------------------------------------------------------
LEMMA LoginStep == LInv /\ [LoginNext]_loginVars => LInv'
<1> SUFFICES ASSUME LInv, [LoginNext]_loginVars PROVE LInv'
  OBVIOUS
<1>1. CASE UNCHANGED loginVars
  <2>1. Logins'
    BY <1>1, LoginsKept, VersionsAreNumbers DEF loginVars, LInv, Typed
  <2> QED
    BY <1>1, <2>1, TablesAlone DEF loginVars, LInv, Typed
<1>2. CASE LoginNext
  <2>0. UNCHANGED mode
    BY <1>2 DEF LoginNext
  <2>1. decisions' \in 0..MaxDecisions
    <3>1. decisions \in 0..MaxDecisions /\ MaxDecisions \in Nat
      BY IdentitiesAssumption DEF LInv, Typed
    <3>2. decisions' = decisions \/ (decisions < MaxDecisions /\ decisions' = decisions + 1)
      BY <1>2 DEF LoginNext
    <3> QED
      BY <3>1, <3>2
  <2>2. ASSUME NEW c \in Clients, OIDCStep(c) PROVE LInv'
    <3>1. CASE \/ ReadRegistration(c) \/ FindBinding(c) \/ oidcUserForUpdate(c)
               \/ pendingOIDCStatusForUpdate(c) \/ deadlockDetected(c)
      <4>1. UNCHANGED <<users, binding, pending, proxy, retired, registration, cookies>>
        BY <3>1 DEF ReadRegistration, FindBinding, oidcUserForUpdate, pendingOIDCStatusForUpdate,
           deadlockDetected
      <4> QED
        BY <2>0, <2>1, <3>1, <4>1, ReadingStep
    <3> QED
      BY <2>0, <2>1, <2>2, <3>1, RefreshStep, RecordStep, RegisterStep, CookieStep DEF OIDCStep
  <2>3. ASSUME NEW c \in Clients, ProxyStep(c) PROVE LInv'
    <3>1. CASE \/ ProxyRegistration(c) \/ checkRetired(c)
               \/ adoptLegacyTrustedProxyIdentity(c) \/ selectLegacyUser(c)
      <4>1. UNCHANGED <<users, binding, pending, proxy, retired, registration, cookies>>
        BY <3>1 DEF ProxyRegistration, checkRetired, adoptLegacyTrustedProxyIdentity,
           selectLegacyUser
      <4> QED
        BY <2>0, <2>1, <3>1, <4>1, ReadingStep
    <3> QED
      BY <2>0, <2>1, <2>3, <3>1, ProxyRefreshStep, AdoptStep, InsertStep, RelinkStep DEF ProxyStep
  <2>4. ASSUME NEW c \in Clients, NEW s \in Subjects, BeginOIDCLogin(c, s) PROVE LInv'
    <3>1. UNCHANGED <<users, binding, pending, proxy, retired, registration, cookies>>
      BY <2>4 DEF BeginOIDCLogin
    <3> QED
      BY <2>0, <2>1, <2>4, <3>1, ReadingStep
  <2>5. ASSUME NEW c \in Clients, NEW n \in Names, ProxyRequest(c, n) PROVE LInv'
    <3>1. UNCHANGED <<users, binding, pending, proxy, retired, registration, cookies>>
      BY <2>5 DEF ProxyRequest
    <3> QED
      BY <2>0, <2>1, <2>5, <3>1, ReadingStep
  <2>6. CASE Decision
    <3>1. ASSUME NEW s \in Subjects, NEW a \in Accounts,
                 ApprovePendingOIDCIdentity(s) \/ LinkPendingOIDCIdentity(s, a)
                     \/ RemoveOIDCIdentity(a, s)
          PROVE  LInv'
      BY <2>0, <2>1, <3>1, ApproveStep, LinkStep, RemoveStep
    <3>2. ASSUME NEW s \in Subjects, NEW r \in BOOLEAN, SetPendingOIDCIdentityRejected(s, r)
          PROVE  LInv'
      BY <2>0, <2>1, <3>2, RejectStep
    <3>3. CASE UpdateRequest \/ RevokeRequest
      BY <2>0, <2>1, <3>3, RenameStep, SessionsEndStep DEF UpdateRequest, RevokeRequest
    <3>4. ASSUME NEW c \in Clients, NEW a \in Accounts, BeginRelink(c, a) PROVE LInv'
      <4>1. UNCHANGED <<users, binding, pending, proxy, retired, registration, cookies>>
        BY <3>4 DEF BeginRelink
      <4> QED
        BY <2>0, <2>1, <3>4, <4>1, ReadingStep
    <3>5. CASE SaveRegistration
      BY <2>0, <2>1, <3>5, RegistrationStep
    <3>6. CASE ApproveRequest
      BY <3>1, <3>6, IdentitiesAssumption DEF ApproveRequest
    <3>7. CASE LinkRequest \/ RejectRequest \/ RemoveRequest \/ RelinkRequest
      BY <3>1, <3>2, <3>4, <3>7 DEF LinkRequest, RejectRequest, RemoveRequest, RelinkRequest
    <3> QED
      BY <2>6, <3>3, <3>5, <3>6, <3>7 DEF Decision
  <2> QED
    BY <1>2, <2>2, <2>3, <2>4, <2>5, <2>6 DEF LoginNext, Login
<1> QED
  BY <1>1, <1>2

LEMMA LoginInvariant == LoginSpec => []LInv
<1> QED
  BY LoginInitInvariant, LoginStep, PTL DEF LoginSpec

\* The logins of AccessSpec are those of LoginSpec.
LEMMA AccessRunsLogins == AccessSpec => LoginSpec
<1>1. AccessInit => LoginInit
  BY DEF AccessInit
<1>2. [AccessNext]_<<vars, schemaVars, loginVars>> => [LoginNext]_loginVars
  BY DEF AccessNext
<1> QED
  BY <1>1, <1>2, PTL DEF AccessSpec, LoginSpec

\* A rejection whose subject is bound to nothing is taken away only by the
\* registration of a request that has read the row before, and is marked.
LEMMA RejectedRowsStay ==
    ASSUME LInv, [LoginNext]_loginVars, NEW s \in Subjects,
           pending[s] = "rejected", binding[s] = None, pending'[s] = "none"
    PROVE  \E c \in Clients : /\ client[c].step = "create" /\ client[c].subject = s
                              /\ client[c].stale
<1>0. pending \in [Subjects -> {"none", "pending", "rejected"}]
  BY DEF LInv, Typed
<1>1. pending' # pending
  OBVIOUS
<1>2. LoginNext
  BY <1>1 DEF loginVars
<1>3. ASSUME NEW c \in Clients, OIDCStep(c) \/ ProxyStep(c)
      PROVE  client[c].step = "create" /\ client[c].subject = s /\ client[c].stale
  <2>1. \/ refreshOIDCLogin(c) \/ recordPendingOIDCOutcome(c) \/ Register(c)
    BY <1>1, <1>3 DEF OIDCStep, ProxyStep, ReadRegistration, FindBinding, oidcUserForUpdate,
       pendingOIDCStatusForUpdate, deadlockDetected, setSessionCookie, refreshTrustedProxyUser,
       adoptLegacyTrustedProxyIdentity, selectLegacyUser, adoptLegacyTrustedProxyUser,
       ProxyRegistration, checkRetired, CreateTrustedProxyUser, RelinkTrustedProxyIdentity
  <2>2. client[c].step \in OIDCSteps /\ client[c].subject \in Subjects
    <3>1. client[c].step \in OIDCSteps
      BY <2>1 DEF refreshOIDCLogin, recordPendingOIDCOutcome, Register, OIDCSteps
    <3> QED
      BY <3>1, ClientOf
  <2>3. ~recordPendingOIDCOutcome(c)
    BY <1>0 DEF recordPendingOIDCOutcome, upsertPendingOIDCIdentity
  <2>4. ~refreshOIDCLogin(c)
    <3>1. SUFFICES ASSUME refreshOIDCLogin(c) PROVE FALSE
      OBVIOUS
    <3>2. client[c].user \in Accounts
      BY <3>1, ClientOf DEF refreshOIDCLogin, Fit
    <3>3. binding[client[c].subject] = client[c].user
          /\ pending' = [pending EXCEPT ![client[c].subject] = "none"]
      BY <1>1, <3>1 DEF refreshOIDCLogin, completeOIDCLogin
    <3> QED
      BY <1>0, <3>2, <3>3, IdentitiesAssumption
  <2>5. client[c].step = "create" /\ client[c].subject = s
    <3>1. client[c].step = "create" /\ pending' = [pending EXCEPT ![client[c].subject] = "none"]
      BY <1>1, <2>1, <2>3, <2>4 DEF Register, completeOIDCLogin
    <3> QED
      BY <1>0, <3>1
  <2> QED
    BY <2>5, ClientOf DEF Fit
<1>4. ASSUME NEW c \in Clients, NEW t, BeginOIDCLogin(c, t) \/ ProxyRequest(c, t) PROVE FALSE
  BY <1>1, <1>4 DEF BeginOIDCLogin, ProxyRequest
<1>5. CASE Decision
  <2>1. ~ApproveRequest
    BY <1>0 DEF ApproveRequest, ApprovePendingOIDCIdentity, pendingOIDCIdentityForUpdate
  <2>2. ~LinkRequest
    BY <1>0 DEF LinkRequest, LinkPendingOIDCIdentity, pendingOIDCIdentityForUpdate,
       rejectOIDCIdentity
  <2>3. ~RejectRequest
    BY <1>0 DEF RejectRequest, SetPendingOIDCIdentityRejected
  <2>4. ~RemoveRequest
    BY <1>0 DEF RemoveRequest, RemoveOIDCIdentity, rejectOIDCIdentity
  <2>5. ~UpdateRequest /\ ~RevokeRequest /\ ~RelinkRequest /\ ~SaveRegistration
    BY <1>1 DEF UpdateRequest, RevokeRequest, RelinkRequest, SaveRegistration, RenameUser,
       SetUserEnabled, RevokeUserSessions, BeginRelink
  <2> QED
    BY <1>5, <2>1, <2>2, <2>3, <2>4, <2>5 DEF Decision
<1> QED
  BY <1>2, <1>3, <1>4, <1>5 DEF LoginNext, Login

\* Who changes the names of the proxy: an adoption, an insert and a relink.
LEMMA ProxyWriters ==
    ASSUME [LoginNext]_loginVars, proxy' # proxy
    PROVE  \E c \in Clients : \/ adoptLegacyTrustedProxyUser(c) \/ CreateTrustedProxyUser(c)
                              \/ \E n \in Names : RelinkTrustedProxyIdentity(c, n)
<1>1. LoginNext
  BY DEF loginVars
<1>2. ASSUME NEW c \in Clients, OIDCStep(c) \/ ProxyStep(c)
      PROVE  \/ adoptLegacyTrustedProxyUser(c) \/ CreateTrustedProxyUser(c)
             \/ \E n \in Names : RelinkTrustedProxyIdentity(c, n)
  BY <1>2 DEF OIDCStep, ProxyStep, ReadRegistration, FindBinding, oidcUserForUpdate,
       pendingOIDCStatusForUpdate, deadlockDetected, setSessionCookie, refreshTrustedProxyUser,
       adoptLegacyTrustedProxyIdentity, selectLegacyUser, ProxyRegistration, checkRetired,
       refreshOIDCLogin, recordPendingOIDCOutcome, Register
<1>3. ASSUME NEW c \in Clients, NEW t, BeginOIDCLogin(c, t) \/ ProxyRequest(c, t) PROVE FALSE
  BY <1>3 DEF BeginOIDCLogin, ProxyRequest
<1>4. ~Decision
  BY DEF Decision, ApproveRequest, ApprovePendingOIDCIdentity, LinkRequest, LinkPendingOIDCIdentity,
     RejectRequest, SetPendingOIDCIdentityRejected, RemoveRequest, RemoveOIDCIdentity,
     UpdateRequest, RevokeRequest, RelinkRequest, SaveRegistration, RenameUser,
     SetUserEnabled, RevokeUserSessions, BeginRelink
<1> QED
  BY <1>1, <1>2, <1>3, <1>4 DEF LoginNext, Login

\* A name that is taken from an account is retired in the same step.
LEMMA TakenIsRetired ==
    ASSUME LInv, [LoginNext]_loginVars, NEW a \in Accounts, proxy[a] # None, proxy'[a] # proxy[a]
    PROVE  \/ proxy[a] \in retired'
           \/ \E c \in Clients : /\ client[c].step = "relink" /\ client[c].user = a
                                 /\ client[c].stale
<1>0. proxy \in [Accounts -> Names \cup {None}] /\ Vacant
  BY DEF LInv, Typed, Tables
<1>1. PICK c \in Clients : \/ adoptLegacyTrustedProxyUser(c) \/ CreateTrustedProxyUser(c)
                           \/ \E n \in Names : RelinkTrustedProxyIdentity(c, n)
  BY ProxyWriters
<1>2. ~adoptLegacyTrustedProxyUser(c)
  BY <1>0 DEF adoptLegacyTrustedProxyUser
<1>3. ~CreateTrustedProxyUser(c)
  <2>1. CanInsert => proxy[NewAccount] = None
    BY <1>0, NewAccountIsVacant DEF Vacant
  <2> QED
    BY <1>0, <2>1 DEF CreateTrustedProxyUser
<1>4. PICK n \in Names : RelinkTrustedProxyIdentity(c, n)
  BY <1>1, <1>2, <1>3
<1>5. /\ client[c].step = "relink" /\ proxy' = [proxy EXCEPT ![client[c].user] = n]
      /\ retired' = (retired \ {n}) \cup ({client[c].name} \ {n})
  BY <1>4 DEF RelinkTrustedProxyIdentity
<1>6. client[c].user = a /\ n # proxy[a]
  BY <1>0, <1>5
<1>7. client[c].name = proxy[a] \/ client[c].stale
  BY <1>5, <1>6, ClientOf DEF Fit
<1> QED
  BY <1>5, <1>6, <1>7

\* A retired name comes back by a relink, which takes it from the retired names,
\* or by an adoption or an insert that has checked them before, and is marked.
LEMMA RetiredStaysRetired ==
    ASSUME LInv, [LoginNext]_loginVars, NEW n \in retired \cap retired',
           NEW a \in Accounts, proxy'[a] = n
    PROVE  \/ \E b \in Accounts : proxy[b] = n
           \/ \E c \in Clients : client[c].step \in {"insert", "bind"} /\ client[c].stale
<1>0. proxy \in [Accounts -> Names \cup {None}]
  BY DEF LInv, Typed, Tables
<1> SUFFICES ASSUME proxy[a] # n
             PROVE  \E c \in Clients : client[c].step \in {"insert", "bind"} /\ client[c].stale
  OBVIOUS
<1>1. PICK c \in Clients : \/ adoptLegacyTrustedProxyUser(c) \/ CreateTrustedProxyUser(c)
                           \/ \E m \in Names : RelinkTrustedProxyIdentity(c, m)
  BY ProxyWriters
<1>2. ASSUME NEW m \in Names, RelinkTrustedProxyIdentity(c, m) PROVE FALSE
  <2>1. client[c].step = "relink" /\ proxy' = [proxy EXCEPT ![client[c].user] = m]
        /\ retired' = (retired \ {m}) \cup ({client[c].name} \ {m})
    BY <1>2 DEF RelinkTrustedProxyIdentity
  <2> QED
    BY <1>0, <2>1
<1>3. CASE CreateTrustedProxyUser(c)
  <2>1. client[c].step = "insert" /\ client[c].name = n
    BY <1>0, <1>3 DEF CreateTrustedProxyUser
  <2> QED
    BY <2>1, ClientOf DEF Fit
<1>4. CASE adoptLegacyTrustedProxyUser(c)
  <2>1. client[c].step = "bind" /\ client[c].name = n
    BY <1>0, <1>4 DEF adoptLegacyTrustedProxyUser
  <2> QED
    BY <2>1, ClientOf DEF Fit
<1> QED
  BY <1>1, <1>2, <1>3, <1>4

\* The tables of identities keep their types and unique keys.
THEOREM LoginTypeCorrectness == LoginSpec => []LoginTypeOK
<1>1. LInv => LoginTypeOK
  BY TypedRows DEF LInv, Tables
<1> QED
  BY LoginInvariant, <1>1, PTL

\* OIDC.Authenticate: a browser session that a revocation or a disabled account
\* ended stays ended, a login between its commit and its cookie included.
THEOREM CutOffSessionsStayOut == AccessSpec => []CutOffStays
<1>1. LInv => CutOffStays
  <2> SUFFICES ASSUME LInv, NEW k \in cookies, k.cut, binding[k.subject] = k.account,
                      Authenticates(k)
               PROVE  FALSE
    BY DEF CutOffStays
  <2>1. PICK a \in Accounts : binding[k.subject] = a /\ users[a].version = k.version
    BY DEF Authenticates, OIDCUser
  <2>2. k.version < users[k.account].version
    BY DEF LInv, Tables, Revocations
  <2>3. k.version \in Int
    BY <2>1, VersionsAreNumbers
  <2> QED
    BY <2>1, <2>2, <2>3
<1> QED
  BY AccessRunsLogins, LoginInvariant, <1>1, PTL

\* ResolveOIDCLogin: no login takes away the rejection of a disconnected subject,
\* except a registration that had looked for the row before.
THEOREM RejectionsStand == AccessSpec => RejectionStands
<1>1. LInv /\ [LoginNext]_loginVars =>
        [\A s \in Subjects :
          pending[s] = "rejected" /\ binding[s] = None /\ pending'[s] = "none" =>
              \E c \in Clients : /\ client[c].step = "create" /\ client[c].subject = s
                                 /\ client[c].stale]_loginVars
  BY RejectedRowsStay
<1> QED
  BY AccessRunsLogins, LoginInvariant, <1>1, PTL DEF LoginSpec, RejectionStands

\* RelinkTrustedProxyIdentity: the name a relink takes from an account is retired,
\* and neither CreateTrustedProxyUser nor the adoption of an account gives a
\* retired name to anybody, except in a request that checked it before.
THEOREM RetirementsStand == AccessSpec => RetirementStands
<1>1. LInv /\ [LoginNext]_loginVars =>
        [/\ \A a \in Accounts :
            proxy[a] # None /\ proxy'[a] # proxy[a] =>
                \/ proxy[a] \in retired'
                \/ \E c \in Clients : /\ client[c].step = "relink" /\ client[c].user = a
                                      /\ client[c].stale
         /\ \A n \in retired \cap retired' :
            (\E a \in Accounts : proxy'[a] = n) =>
                \/ \E a \in Accounts : proxy[a] = n
                \/ \E c \in Clients : client[c].step \in {"insert", "bind"} /\ client[c].stale]_loginVars
  BY TakenIsRetired, RetiredStaysRetired
<1> QED
  BY AccessRunsLogins, LoginInvariant, <1>1, PTL DEF LoginSpec, RetirementStands
=============================================================================
