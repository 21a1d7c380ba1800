------------------------------ MODULE Migrations ------------------------------
(***************************************************************************)
(* Opening the database: a process connects, and brings the schema to its  *)
(* own release in one transaction, which holds an advisory lock from its   *)
(* first statement to its end.  Processes of several releases start, stop  *)
(* and fail beside each other, as in a rolling upgrade or its rollback.    *)
(*                                                                         *)
(* A release carries the baseline, which consolidates every migration      *)
(* before it, and the migrations after the baseline up to its own version. *)
(* Earlier databases hold the history of the single migrations that the    *)
(* baseline replaced.  A migration's SQL is abstracted to the changes it   *)
(* makes, each counted.                                                    *)
(***************************************************************************)
EXTENDS Integers

CONSTANTS Processes,
          Baseline,  \* the version of NNN_baseline.sql
          Newest,    \* the version of the newest release
          MaxStarts  \* bound on the starts of processes

ASSUME MigrationsAssumption ==
    /\ Baseline \in Nat \ {0}
    /\ Newest \in Nat /\ Baseline <= Newest
    /\ MaxStarts \in Nat

Versions == 1..Newest
Releases == Baseline..Newest

VARIABLES
    history,  \* the versions in schema_migrations
    built,    \* how often the SQL of each change has been committed
    phase,    \* how far each process has come
    release,  \* the version each process carries
    next,     \* the migration whose turn it is in a process's transaction
    known,    \* the greatest version its transaction knows of, 0 for none
    recorded, \* the versions its transaction has recorded
    made,     \* the changes its transaction has made
    starts    \* how often processes have started

transaction == <<next, known, recorded, made>>
schemaVars == <<history, built, phase, release, transaction, starts>>

Phases == {"down", "begun", "locked", "applying", "up"}
Nothing == [v \in Versions |-> 0]

SchemaTypeOK ==
    /\ history \subseteq Versions
    /\ built \in [Versions -> Nat]
    /\ phase \in [Processes -> Phases]
    /\ release \in [Processes -> Releases]
    /\ next \in [Processes -> Baseline..(Newest + 1)]
    /\ known \in [Processes -> 0..Newest]
    /\ recorded \in [Processes -> SUBSET Versions]
    /\ made \in [Processes -> [Versions -> Nat]]
    /\ starts \in 0..MaxStarts

\* readMigrationHistory: the greatest version of H, 0 (the code's -1) for none.
Highest(H) ==
    CHOOSE h \in 0..Newest : IF H = {} THEN h = 0 ELSE h \in H /\ \A v \in H : v <= h

\* What the SQL of version v changes: the baseline what came before it.
Changes(v) == IF v = Baseline THEN 1..(Baseline - 1) ELSE {v}

\* The schema of version h, each change made once.
SchemaOf(h) == [v \in Versions |-> IF v <= h /\ v # Baseline THEN 1 ELSE 0]

-----------------------------------------------------------------------------
\* Open: the pool is connected and the transaction begun.  The process may
\* come up with another release than it had.
Open(p, r) ==
    /\ phase[p] = "down"
    /\ starts < MaxStarts /\ starts' = starts + 1
    /\ phase' = [phase EXCEPT ![p] = "begun"]
    /\ release' = [release EXCEPT ![p] = r]
    /\ UNCHANGED <<history, built, transaction>>

\* pg_advisory_xact_lock is granted when no other transaction holds it.
initializeMigrationTransaction(p) ==
    /\ phase[p] = "begun"
    /\ \A q \in Processes : phase[q] \notin {"locked", "applying"}
    /\ phase' = [phase EXCEPT ![p] = "locked"]
    /\ UNCHANGED <<history, built, release, transaction, starts>>

readMigrationHistory(p) ==
    /\ phase[p] = "locked"
    /\ phase' = [phase EXCEPT ![p] = "applying"]
    /\ known' = [known EXCEPT ![p] = Highest(history)]
    /\ next' = [next EXCEPT ![p] = Baseline]
    /\ UNCHANGED <<history, built, release, recorded, made, starts>>

\* The transaction is rolled back and the pool closed: a statement or the
\* connection failed, or the process died.
Rollback(p) ==
    /\ phase' = [phase EXCEPT ![p] = "down"]
    /\ recorded' = [recorded EXCEPT ![p] = {}]
    /\ made' = [made EXCEPT ![p] = Nothing]
    /\ UNCHANGED <<history, built, release, next, known, starts>>

\* Mutant of AdoptsBaseline: any earlier database is taken to be complete.
AdoptsAnyHistory(p) == known[p] # 0

\* shouldExecuteBaseline: the baseline runs on an empty history, is adopted by
\* a database at the version before it, and is refused otherwise.
AdoptsBaseline(p) == known[p] # 0 /\ known[p] = Baseline - 1
RefusesBaseline(p) ==
    next[p] = Baseline /\ Baseline \notin history /\ known[p] # 0 /\ ~AdoptsBaseline(p)

\* applyMigration, or recordMigration alone when the baseline is adopted.
applyMigration(p) ==
    LET v == next[p]
        sql == IF v = Baseline /\ AdoptsBaseline(p) THEN {} ELSE Changes(v)
    IN  /\ made' = [made EXCEPT ![p] =
                [w \in Versions |-> IF w \in sql THEN made[p][w] + 1 ELSE made[p][w]]]
        /\ recorded' = [recorded EXCEPT ![p] = @ \cup {v}]
        /\ known' = [known EXCEPT ![p] = IF v > @ THEN v ELSE @]

\* The loop of applyPendingMigrations: what is recorded is passed over.
applyPendingMigration(p) ==
    /\ phase[p] = "applying" /\ next[p] <= release[p]
    /\ ~RefusesBaseline(p)
    /\ IF next[p] \in history \cup recorded[p]
       THEN UNCHANGED <<known, recorded, made>>
       ELSE applyMigration(p)
    /\ next' = [next EXCEPT ![p] = @ + 1]
    /\ UNCHANGED <<history, built, phase, release, starts>>

Refuse(p) == phase[p] = "applying" /\ RefusesBaseline(p) /\ Rollback(p)
Fail(p) == phase[p] \in {"begun", "locked", "applying"} /\ Rollback(p)

\* The end of migrate; the process goes on to read its setup state.
Commit(p) ==
    /\ phase[p] = "applying" /\ next[p] > release[p]
    /\ phase' = [phase EXCEPT ![p] = "up"]
    /\ history' = history \cup recorded[p]
    /\ built' = [v \in Versions |-> built[v] + made[p][v]]
    /\ recorded' = [recorded EXCEPT ![p] = {}]
    /\ made' = [made EXCEPT ![p] = Nothing]
    /\ UNCHANGED <<release, next, known, starts>>

Stop(p) ==
    /\ phase[p] = "up"
    /\ phase' = [phase EXCEPT ![p] = "down"]
    /\ UNCHANGED <<history, built, release, transaction, starts>>

-----------------------------------------------------------------------------
\* A history is that of the single migrations from the first on, or begins
\* with a baseline that was executed.
History(H, h) == H = 1..h \/ (h >= Baseline /\ H = Baseline..h)

SchemaInit ==
    /\ \E h \in 0..Newest :
          /\ history \in {1..h} \cup (IF h >= Baseline THEN {Baseline..h} ELSE {})
          /\ built = SchemaOf(h)
    /\ phase = [p \in Processes |-> "down"]
    /\ release = [p \in Processes |-> Newest]
    /\ next = [p \in Processes |-> Baseline]
    /\ known = [p \in Processes |-> 0]
    /\ recorded = [p \in Processes |-> {}]
    /\ made = [p \in Processes |-> Nothing]
    /\ starts = 0

Migrate(p) ==
    \/ \E r \in Releases : Open(p, r)
    \/ initializeMigrationTransaction(p) \/ readMigrationHistory(p)
    \/ applyPendingMigration(p) \/ Refuse(p) \/ Fail(p)
    \/ Commit(p) \/ Stop(p)

SchemaNext == \E p \in Processes : Migrate(p)
SchemaSpec == SchemaInit /\ [][SchemaNext]_schemaVars

-----------------------------------------------------------------------------
\* Whichever releases start, fail and start again, from whichever database:
\* each change up to the recorded version has been made exactly once and none
\* beyond it, and a process that serves has the schema of its release.
SchemaIsWhole ==
    /\ built = SchemaOf(Highest(history))
    /\ \A p \in Processes : phase[p] = "up" => release[p] <= Highest(history)
=============================================================================
