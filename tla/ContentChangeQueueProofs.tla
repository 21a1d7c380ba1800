----------------------- MODULE ContentChangeQueueProofs -----------------------
(***************************************************************************)
(* The queue table and its workers implement a queue that delivers at      *)
(* least once, for any servers, plugins, changes and batches: the safety   *)
(* part of DeliversAtLeastOnce.  That every event is delivered in the end  *)
(* is left to the model checker.  Also that a lease excludes the other     *)
(* workers while it lasts.  After that, for any users and bounds, what the *)
(* reviews of a page (PageReviews) promise.                                *)
(***************************************************************************)
EXTENDS ContentChangeQueue, PageReviews, FiniteSetTheorems, SequenceTheorems, TLAPS

\* What the steps need to know of the types.
Typed ==
    /\ active \in [Servers -> SUBSET Plugins]
    /\ saver \in [Changes -> Saver]
    /\ queue \in Seq(Row)
    /\ work \in [Servers -> [rows : SUBSET Nat, current : Nat,
                             step : {"idle", "batch", "hook", "done", "failed"}]]

\* A worker only works on rows that were inserted, and is done with a row that
\* was delivered.  A row that has left the queue was delivered.
Held ==
    \A s \in Servers :
        /\ work[s].rows \subseteq Inserted
        /\ work[s].step \in {"hook", "done", "failed"} => work[s].current \in Inserted
        /\ work[s].step = "done" => work[s].current \in handled

Kept == handled \subseteq Inserted /\ Inserted \ Live \subseteq handled

QInv == Typed /\ Held /\ Kept

-----------------------------------------------------------------------------
(* The rows of a change *)

\* A finite set has a sequence of its elements.
LEMMA SequenceOfSet ==
    ASSUME NEW S, IsFiniteSet(S)
    PROVE  SetToSeq(S) \in Seq(S)
<1>1. Cardinality(S) \in Nat /\ ExistsBijection(1..Cardinality(S), S)
  BY FS_CardinalityType
<1>2. PICK f \in [1..Cardinality(S) -> S] : IsInjective(f)
  BY <1>1 DEF ExistsBijection, Bijection, Injection
<1>3. SetToSeq(S) \in [1..Cardinality(S) -> S]
  BY <1>2 DEF SetToSeq
<1> QED
  BY <1>1, <1>3, SeqDef

\* One ready row for each target.
LEMMA RowsAreReady ==
    ASSUME Typed, NEW c \in Changes
    PROVE  /\ RowsFor(c) \in Seq(Row)
           /\ \A i \in DOMAIN RowsFor(c) : RowsFor(c)[i].state = "ready"
<1> DEFINE row(p) == [change |-> c, plugin |-> p, state |-> "ready"]
           T == saver[c].targets
           S == {row(p) : p \in T}
           f == [p \in T |-> row(p)]
<1>1. T \subseteq Plugins
  BY DEF Typed, Saver
<1>2. IsFiniteSet(T)
  BY <1>1, FS_Subset, QueueAssumption
<1>3. f \in Surjection(T, S)
  BY DEF Surjection
<1>4. IsFiniteSet(S)
  BY <1>2, <1>3, FS_Surjection
<1>5. RowsFor(c) \in Seq(S)
  BY <1>4, SequenceOfSet DEF RowsFor
<1>6. S \subseteq Row /\ \A r \in S : r.state = "ready"
  BY <1>1 DEF Row
<1>7. DOMAIN RowsFor(c) = 1..Len(RowsFor(c)) /\ \A i \in 1..Len(RowsFor(c)) : RowsFor(c)[i] \in S
  BY <1>5, ElementOfSeq, LenProperties
<1> QED
  BY <1>5, <1>6, <1>7, SeqMonotonic

\* An insert keeps the rows that are there and adds new ones at the end.
LEMMA InsertAppends ==
    ASSUME QInv, NEW c \in Changes, Insert(c), handled' = handled
    PROVE  /\ queue' \in Seq(Row)
           /\ Inserted \subseteq Inserted'
           /\ \A id \in Inserted : queue'[id] = queue[id]
           /\ Kept'
           /\ Queue!Accept
<1> DEFINE R == RowsFor(c)
<1>1. R \in Seq(Row) /\ queue \in Seq(Row) /\ queue' = queue \o R
  BY RowsAreReady DEF Insert, QInv, Typed
<1>2. \A i \in DOMAIN R : R[i].state = "ready"
  BY RowsAreReady DEF QInv
<1> HIDE DEF R
<1>3. /\ queue' \in Seq(Row)
      /\ Len(queue') = Len(queue) + Len(R)
      /\ \A i \in 1..(Len(queue) + Len(R)) :
            queue'[i] = IF i <= Len(queue) THEN queue[i] ELSE R[i - Len(queue)]
  BY <1>1, ConcatProperties
<1>4. /\ Len(queue) \in Nat /\ Len(R) \in Nat
      /\ Inserted = 1..Len(queue) /\ Inserted' = 1..(Len(queue) + Len(R))
      /\ DOMAIN R = 1..Len(R)
  BY <1>1, <1>3, LenProperties DEF Inserted
<1>5. Inserted \subseteq Inserted' /\ \A id \in Inserted : queue'[id] = queue[id]
  BY <1>3, <1>4
<1>6. \A id \in Inserted' \ Inserted : queue'[id].state = "ready"
  <2> TAKE id \in Inserted' \ Inserted
  <2>1. id \in 1..(Len(queue) + Len(R)) /\ ~(id <= Len(queue)) /\ id - Len(queue) \in 1..Len(R)
    BY <1>4
  <2> QED
    BY <1>2, <1>3, <1>4, <2>1
<1>7. Live \subseteq Live' /\ Live' \ Live = Inserted' \ Inserted
  BY <1>5, <1>6 DEF Live
<1>8. Kept'
  BY <1>5, <1>6 DEF QInv, Kept, Live
<1>9. Queue!Accept
  BY <1>7 DEF Queue!Accept, QInv, Kept
<1> QED
  BY <1>3, <1>5, <1>8, <1>9

\* A statement that names one row changes its state alone.
LEMMA StateChanges ==
    ASSUME QInv, NEW id \in Inserted, NEW state \in {"ready", "leased", "waiting", "deleted"},
           queue' = [queue EXCEPT ![id].state = state]
    PROVE  /\ queue' \in Seq(Row) /\ Inserted' = Inserted
           /\ Live' = IF state = "deleted" THEN Live \ {id} ELSE Live \cup {id}
<1>1. queue \in Seq(Row)
  BY DEF QInv, Typed
<1>2. DOMAIN queue = 1..Len(queue) /\ Len(queue) \in Nat /\ queue \in [1..Len(queue) -> Row]
  BY <1>1, LenProperties
<1>3. queue[id] \in Row
  BY <1>2 DEF Inserted
<1>4. [queue[id] EXCEPT !.state = state] \in Row
  BY <1>3 DEF Row
<1>5. queue' = [queue EXCEPT ![id] = [queue[id] EXCEPT !.state = state]]
  OBVIOUS
<1>6. queue' \in Seq(Row) /\ Inserted' = Inserted
  BY <1>1, <1>2, <1>4, <1>5, ExceptSeq DEF Inserted
<1>7. queue'[id].state = state /\ \A i \in Inserted \ {id} : queue'[i] = queue[i]
  BY <1>2, <1>3 DEF Inserted, Row
<1> QED
  BY <1>6, <1>7 DEF Live

-----------------------------------------------------------------------------
(* Steps *)

QueueStep == Queue!Accept \/ (\E e \in Live : Queue!DeliverEvent(e) \/ Queue!RemoveEvent(e))
             \/ UNCHANGED <<Live, handled>>

\* Steps that leave the table and what was delivered alone.
LEMMA RowsStay ==
    ASSUME QInv, UNCHANGED <<queue, handled>>
    PROVE  Kept' /\ UNCHANGED <<Live, handled>> /\ Inserted' = Inserted /\ queue' \in Seq(Row)
  BY DEF QInv, Typed, Kept, Live, Inserted

LEMMA SaveStep ==
    ASSUME QInv, NEW c \in Changes, Commit(c) \/ Save(c)
    PROVE  QInv' /\ QueueStep
<1> USE DEF QInv
<1>1. CASE Commit(c)
  <2>1. Typed'
    BY <1>1 DEF Commit, Typed, Saver
  <2>2. Held'
    BY <1>1 DEF Commit, Held, Inserted
  <2> QED
    BY <1>1, <2>1, <2>2, RowsStay DEF Commit, QueueStep
<1>2. CASE QueuedChanges(c)
  <2>1. active[Home[c]] \subseteq Plugins
    BY QueueAssumption DEF Typed
  <2>2. saver' \in [Changes -> Saver]
    <3> DEFINE targets == active[Home[c]]
               new == [saver[c] EXCEPT !.targets = targets,
                                       !.step = IF targets = {} THEN "over" ELSE "targeted"]
    <3>1. saver \in [Changes -> Saver] /\ saver[c] \in Saver
      BY DEF Typed
    <3>2. new \in Saver
      BY <2>1, <3>1 DEF Saver
    <3>3. saver' = [saver EXCEPT ![c] = new]
      BY <1>2, <3>1 DEF QueuedChanges
    <3> HIDE DEF new
    <3> QED
      BY <3>1, <3>2, <3>3
  <2>3. Held'
    BY <1>2 DEF QueuedChanges, Held, Inserted
  <2> QED
    BY <1>2, <2>2, <2>3, RowsStay DEF QueuedChanges, QueueStep, Typed
<1>3. CASE EnqueuePluginContentChanges(c) \/ EnqueueFails(c)
  <2>1. saver' \in [Changes -> Saver]
    <3>1. saver \in [Changes -> Saver] /\ saver[c] \in Saver
      BY DEF Typed
    <3>2. PICK step \in {"over", "direct"} : saver' = [saver EXCEPT ![c].step = step]
      BY <1>3 DEF EnqueuePluginContentChanges, EnqueueFails
    <3>3. [saver[c] EXCEPT !.step = step] \in Saver
      BY <3>1 DEF Saver
    <3> QED
      BY <3>1, <3>2, <3>3
  <2>2. UNCHANGED <<active, work, handled>> /\ (UNCHANGED queue \/ Insert(c))
    BY <1>3 DEF EnqueuePluginContentChanges, EnqueueFails
  <2>3. CASE UNCHANGED queue
    <3>1. Held'
      BY <2>2, <2>3 DEF Held, Inserted
    <3> QED
      BY <2>1, <2>2, <2>3, <3>1, RowsStay DEF QueueStep, Typed
  <2>4. CASE Insert(c)
    <3>1. Held'
      BY <2>2, <2>4, InsertAppends DEF Held
    <3> QED
      BY <2>1, <2>2, <2>4, <3>1, InsertAppends DEF QueueStep, Typed
  <2> QED
    BY <2>2, <2>3, <2>4
<1>4. ASSUME NEW p \in Plugins, DeliverDirectly(c, p) PROVE QInv' /\ QueueStep
  <2>1. saver' \in [Changes -> Saver]
    <3>1. saver \in [Changes -> Saver]
      BY DEF Typed
    <3>2. /\ saver[c] \in [step : {"none", "committed", "targeted", "direct", "over"},
                           targets : SUBSET Plugins]
          /\ saver[c].step \in {"none", "committed", "targeted", "direct", "over"}
          /\ saver[c].targets \ {p} \subseteq Plugins
      BY <3>1 DEF Saver
    <3> DEFINE next == [step |-> IF saver[c].targets = {p} THEN "over" ELSE saver[c].step,
                          targets |-> saver[c].targets \ {p}]
    <3>3. next \in Saver
      BY <3>2 DEF Saver
    <3>4. saver[c] = [step |-> saver[c].step, targets |-> saver[c].targets]
      BY <3>2
    <3>5. /\ saver' = [d \in Changes |-> IF d = c THEN saver'[c] ELSE saver[d]]
          /\ saver'[c] = [[saver[c] EXCEPT !.targets = saver[c].targets \ {p}]
                            EXCEPT !.step = IF saver[c].targets = {p} THEN "over" ELSE saver[c].step]
      BY <1>4, <3>1 DEF DeliverDirectly
    <3>6. saver'[c] = next
      BY <3>4, <3>5
    <3> HIDE DEF next
    <3> QED
      BY <3>1, <3>3, <3>5, <3>6
  <2>2. Held'
    BY <1>4 DEF DeliverDirectly, Held, Inserted
  <2> QED
    BY <1>4, <2>1, <2>2, RowsStay DEF DeliverDirectly, QueueStep, Typed
<1> QED
  BY <1>1, <1>2, <1>3, <1>4 DEF Save

\* A claim leases rows that are live before and after it.
LEMMA ClaimStep ==
    ASSUME QInv, NEW s \in Servers, ClaimPluginContentChanges(s)
    PROVE  QInv' /\ QueueStep
<1> DEFINE rows == First(BatchSize, InState("ready"))
<1>1. rows \subseteq InState("ready") /\ rows \subseteq Inserted
  BY DEF First, InState
<1> HIDE DEF rows
<1>2. queue \in Seq(Row) /\ queue \in [1..Len(queue) -> Row] /\ Len(queue) \in Nat
      /\ Inserted = 1..Len(queue)
  BY LenProperties DEF QInv, Typed, Inserted
<1>3. queue' = [id \in Inserted |->
                   IF id \in rows THEN [queue[id] EXCEPT !.state = "leased"] ELSE queue[id]]
  BY DEF ClaimPluginContentChanges, rows
<1>4. queue' \in [1..Len(queue) -> Row]
  BY <1>2, <1>3 DEF Row
<1>5. queue' \in Seq(Row) /\ Inserted' = Inserted
  BY <1>2, <1>3, <1>4, SeqDef DEF Inserted
<1>6. Live' = Live
  BY <1>1, <1>2, <1>3, <1>5 DEF Live, InState, Row
<1>7. /\ work' = [work EXCEPT ![s] = [rows |-> rows, current |-> 0, step |-> "batch"]]
      /\ UNCHANGED <<active, saver, handled>>
  BY DEF ClaimPluginContentChanges, rows
<1>8. rows \subseteq Nat
  BY <1>1, <1>2
<1>9. Typed'
  BY <1>5, <1>7, <1>8 DEF QInv, Typed
<1>10. Held'
  BY <1>1, <1>5, <1>7 DEF QInv, Typed, Held
<1>11. Kept'
  BY <1>5, <1>6, <1>7 DEF QInv, Kept
<1> QED
  BY <1>6, <1>7, <1>9, <1>10, <1>11 DEF QInv, QueueStep

\* A delivery may be of a row that has left the queue meanwhile, and then was
\* delivered before.
LEMMA DeliveryStep ==
    ASSUME QInv, NEW s \in Servers, (\E id \in Inserted : Deliver(s, id)) \/ HookReturns(s)
    PROVE  QInv' /\ QueueStep
<1>1. ASSUME NEW id \in Inserted, handled' = handled \cup {id}, queue' = queue
      PROVE  Kept' /\ QueueStep
  <2>1. Live' = Live /\ Inserted' = Inserted
    BY <1>1 DEF Live, Inserted
  <2>2. Kept'
    BY <1>1, <2>1 DEF QInv, Kept
  <2>3. CASE id \in Live
    BY <1>1, <2>1, <2>2, <2>3 DEF QueueStep, Queue!DeliverEvent
  <2>4. CASE id \notin Live
    BY <1>1, <2>1, <2>2, <2>4 DEF QueueStep, QInv, Kept
  <2> QED
    BY <2>3, <2>4
<1>2. ASSUME NEW id \in Inserted, Deliver(s, id) PROVE QInv' /\ QueueStep
  <2>1. id \in Nat
    BY LenProperties DEF QInv, Typed, Inserted
  <2>2. Typed'
    <3> DEFINE new(step) == [work[s] EXCEPT !.rows = @ \ {id}, !.current = id, !.step = step]
    <3>1. \A step \in {"hook", "done"} :
              new(step) \in [rows : SUBSET Nat, current : Nat,
                             step : {"idle", "batch", "hook", "done", "failed"}]
      BY <2>1 DEF QInv, Typed
    <3>2. PICK step \in {"hook", "done"} : work' = [work EXCEPT ![s] = new(step)]
      BY <1>2 DEF Deliver, QInv, Typed
    <3> HIDE DEF new
    <3>3. work' \in [Servers -> [rows : SUBSET Nat, current : Nat,
                                 step : {"idle", "batch", "hook", "done", "failed"}]]
      BY <3>1, <3>2 DEF QInv, Typed
    <3>4. UNCHANGED <<active, saver, queue>>
      BY <1>2 DEF Deliver
    <3> QED
      BY <3>3, <3>4 DEF QInv, Typed
  <2>3. Held'
    BY <1>2 DEF Deliver, QInv, Typed, Held, Inserted
  <2>4. Kept' /\ QueueStep
    <3>1. queue' = queue /\ (handled' = handled \/ handled' = handled \cup {id})
      BY <1>2 DEF Deliver
    <3> QED
      BY <1>1, <3>1, RowsStay DEF QueueStep
  <2> QED
    BY <2>2, <2>3, <2>4 DEF QInv
<1>3. CASE HookReturns(s)
  <2>1. Typed'
    BY <1>3 DEF HookReturns, QInv, Typed
  <2>2. Held'
    BY <1>3 DEF HookReturns, QInv, Typed, Held, Inserted
  <2>3. work[s].current \in Inserted /\ queue' = queue /\ handled' = handled \cup {work[s].current}
    BY <1>3 DEF HookReturns, QInv, Held
  <2> QED
    BY <1>1, <2>1, <2>2, <2>3 DEF QInv
<1> QED
  BY <1>2, <1>3

\* The outcome of a delivery is recorded on its row.
LEMMA RecordStep ==
    ASSUME QInv, NEW s \in Servers,
           CompletePluginContentChange(s) \/ RetryPluginContentChange(s)
    PROVE  QInv' /\ QueueStep
<1> DEFINE id == work[s].current
           new(state) == IF queue[id].state = "deleted" THEN "deleted" ELSE state
<1>1. PICK state \in {"deleted", "waiting"} :
          /\ Recorded(s, state)
          /\ work[s].step \in {"done", "failed"}
          /\ state = "deleted" => work[s].step = "done"
  BY DEF CompletePluginContentChange, RetryPluginContentChange
<1>2. id \in Inserted
  BY <1>1 DEF QInv, Held
<1>3. new(state) \in {"ready", "leased", "waiting", "deleted"}
  OBVIOUS
<1>4. queue' = [queue EXCEPT ![id].state = new(state)]
  BY <1>1 DEF Recorded
<1>5. /\ queue' \in Seq(Row) /\ Inserted' = Inserted
      /\ Live' = IF new(state) = "deleted" THEN Live \ {id} ELSE Live \cup {id}
  BY <1>2, <1>3, <1>4, StateChanges
<1>6. work' = [work EXCEPT ![s] = Onward(work[s])] /\ UNCHANGED <<active, saver, handled>>
  BY <1>1 DEF Recorded
<1>7. Typed'
  BY <1>5, <1>6 DEF QInv, Typed, Onward, Rest
<1>8. Held'
  BY <1>5, <1>6 DEF QInv, Typed, Held, Onward, Rest
<1>9. new(state) = "deleted" => id \in handled
  BY <1>1, <1>2 DEF QInv, Held, Kept, Live
<1>10. Kept'
  BY <1>5, <1>6, <1>9 DEF QInv, Kept
<1>11. QueueStep
  <2>1. CASE id \notin Live
    <3>1. new(state) = "deleted"
      BY <1>2, <2>1 DEF Live
    <3> QED
      BY <1>5, <1>6, <2>1, <3>1 DEF QueueStep
  <2>2. CASE id \in Live /\ new(state) = "deleted"
    BY <1>5, <1>6, <1>9, <2>2 DEF QueueStep, Queue!RemoveEvent
  <2>3. CASE id \in Live /\ new(state) # "deleted"
    BY <1>5, <1>6, <2>3 DEF QueueStep
  <2> QED
    BY <2>1, <2>2, <2>3
<1> QED
  BY <1>7, <1>8, <1>10, <1>11 DEF QInv

LEMMA TimeStep ==
    ASSUME QInv, NEW id \in Inserted, Time(id)
    PROVE  QInv' /\ QueueStep
<1>1. queue' = [queue EXCEPT ![id].state = "ready"] /\ id \in Live
  BY DEF Time, LeaseLapses, RetryTimeComes, Live
<1>2. UNCHANGED <<active, saver, work, handled>>
  BY DEF Time, LeaseLapses, RetryTimeComes
<1>3. queue' \in Seq(Row) /\ Inserted' = Inserted
      /\ Live' = IF "ready" = "deleted" THEN Live \ {id} ELSE Live \cup {id}
  <2> DEFINE state == "ready"
  <2>1. state \in {"ready", "leased", "waiting", "deleted"}
    OBVIOUS
  <2>2. queue' = [queue EXCEPT ![id].state = state]
    BY <1>1
  <2> HIDE DEF state
  <2>3. queue' \in Seq(Row) /\ Inserted' = Inserted
        /\ Live' = IF state = "deleted" THEN Live \ {id} ELSE Live \cup {id}
    BY <2>1, <2>2, StateChanges
  <2> QED
    BY <2>3 DEF state
<1>4. Live' = Live
  BY <1>1, <1>3
<1> QED
  BY <1>2, <1>3, <1>4 DEF QInv, Typed, Held, Kept, QueueStep

\* Failures, crashes and administration change no row.
LEMMA OtherStep ==
    ASSUME QInv, NEW s \in Servers,
           HookFails(s) \/ RecordFails(s) \/ Crash(s) \/ \E p \in Plugins : Toggle(s, p)
    PROVE  QInv' /\ QueueStep
<1>1. UNCHANGED <<queue, handled>>
  BY DEF HookFails, RecordFails, Crash, Toggle
<1>2. Kept' /\ QueueStep /\ Inserted' = Inserted
  BY <1>1, RowsStay DEF QueueStep
<1> DEFINE Worker == [rows : SUBSET Nat, current : Nat,
                      step : {"idle", "batch", "hook", "done", "failed"}]
<1>3. work[s] \in Worker /\ work \in [Servers -> Worker]
  BY DEF QInv, Typed
<1>4. CASE HookFails(s)
  <2>1. [work[s] EXCEPT !.step = "failed"] \in Worker
    BY <1>3
  <2>2. work' = [work EXCEPT ![s] = [work[s] EXCEPT !.step = "failed"]]
    BY <1>4 DEF HookFails
  <2>3. Typed'
    <3>1. work' \in [Servers -> Worker]
      BY <1>3, <2>1, <2>2
    <3>2. UNCHANGED <<active, saver, queue>>
      BY <1>4 DEF HookFails
    <3> QED
      BY <3>1, <3>2 DEF QInv, Typed
  <2>4. Held'
    BY <1>1, <1>2, <1>3, <1>4 DEF HookFails, QInv, Held
  <2> QED
    BY <1>2, <2>3, <2>4 DEF QInv
<1>5. CASE RecordFails(s)
  <2>1. Onward(work[s]) \in Worker
    BY <1>3 DEF Onward, Rest
  <2>2. work' = [work EXCEPT ![s] = Onward(work[s])]
    BY <1>5 DEF RecordFails
  <2>3. Typed'
    BY <1>1, <1>3, <1>5, <2>1, <2>2 DEF RecordFails, QInv, Typed
  <2>4. Onward(work[s]).rows \subseteq work[s].rows
        /\ Onward(work[s]).step \notin {"hook", "done", "failed"}
    BY <1>3 DEF Onward, Rest
  <2>5. Held'
    BY <1>1, <1>2, <1>3, <2>2, <2>4 DEF QInv, Held
  <2> QED
    BY <1>2, <2>3, <2>5 DEF QInv
<1>6. CASE Crash(s)
  <2>1. Typed'
    BY <1>1, <1>6 DEF Crash, Rest, QInv, Typed, Saver
  <2>2. Held'
    BY <1>1, <1>2, <1>3, <1>6 DEF Crash, Rest, QInv, Held
  <2> QED
    BY <1>2, <2>1, <2>2 DEF QInv
<1>7. ASSUME NEW p \in Plugins, Toggle(s, p) PROVE QInv' /\ QueueStep
  <2>1. Typed'
    BY <1>1, <1>7 DEF Toggle, QInv, Typed
  <2>2. Held'
    BY <1>1, <1>2, <1>7 DEF Toggle, QInv, Held
  <2> QED
    BY <1>2, <2>1, <2>2 DEF QInv
<1> QED
  BY <1>4, <1>5, <1>6, <1>7

LEMMA StepImplements == QInv /\ [Next]_vars => QInv' /\ QueueStep
<1> SUFFICES ASSUME QInv, [Next]_vars PROVE QInv' /\ QueueStep
  OBVIOUS
<1>1. ASSUME NEW s \in Servers, Run(s) PROVE QInv' /\ QueueStep
  BY <1>1, ClaimStep, DeliveryStep, RecordStep, OtherStep DEF Run
<1>2. CASE UNCHANGED vars
  BY <1>2, RowsStay DEF vars, QInv, Typed, Held, QueueStep
<1> QED
  BY <1>1, <1>2, SaveStep, TimeStep, OtherStep DEF Next

-----------------------------------------------------------------------------
LEMMA QueueStarts == Init => QInv /\ Queue!QueueInit
<1> SUFFICES ASSUME Init PROVE QInv /\ Queue!QueueInit
  OBVIOUS
<1>1. queue = <<>> /\ Inserted = {} /\ Live = {} /\ handled = {}
  BY EmptySeq DEF Init, Inserted, Live
<1>2. Typed
  BY <1>1, EmptySeq DEF Init, Typed, Saver, Rest
<1> QED
  BY <1>1, <1>2 DEF Init, QInv, Held, Kept, Rest, Queue!QueueInit

\* ContentChangeQueue implements AtLeastOnce: whatever fails, lapses or crashes,
\* a row of plugin_content_changes is only deleted after its hook has returned
\* without an error or has found its plugin inactive.
THEOREM QueueImplementsAtLeastOnce == Spec => Queue!QueueSafety
<1>1. Init => QInv /\ Queue!QueueInit
  BY QueueStarts
<1>2. QueueStep => [Queue!QueueNext]_(Queue!queueVars)
  BY DEF QueueStep, Queue!QueueNext, Queue!queueVars
<1>3. QInv /\ [Next]_vars => QInv' /\ [Queue!QueueNext]_(Queue!queueVars)
  BY <1>2, StepImplements
<1> QED
  BY <1>1, <1>3, PTL DEF Spec, Queue!QueueSafety

-----------------------------------------------------------------------------
(* Leases *)

\* A worker's rows are leased until their lease lapses.
Leases ==
    \A s \in Servers :
        /\ Holds(s) \subseteq Inserted
        /\ work[s].current \notin work[s].rows
        /\ \A id \in Holds(s) \ lapsed : queue[id].state = "leased"

LInv == QInv /\ Leases /\ LeaseExcludes

\* Steps that give no worker a row and keep the state of the rows held.
LEMMA LeasesStay ==
    ASSUME LInv, QInv', Inserted \subseteq Inserted', lapsed \subseteq lapsed',
           \A t \in Servers :
               /\ Holds(t)' \subseteq Holds(t)
               /\ (work[t].current \notin work[t].rows)'
               /\ \A id \in Holds(t)' \ lapsed' : queue'[id].state = queue[id].state
    PROVE  LInv'
<1>1. Leases'
  BY DEF LInv, Leases
<1>2. LeaseExcludes'
  BY DEF LInv, LeaseExcludes
<1> QED
  BY <1>1, <1>2 DEF LInv

LEMMA IdleLeases ==
    ASSUME LInv, QInv', UNCHANGED <<queue, work, lapsed>>
    PROVE  LInv'
<1>1. Inserted' = Inserted /\ \A t \in Servers : Holds(t)' = Holds(t)
  BY DEF Inserted, Holds
<1> QED
  BY <1>1, LeasesStay DEF LInv, Leases

LEMMA SaveLeases ==
    ASSUME LInv, QInv', NEW c \in Changes, Commit(c) \/ Save(c)
    PROVE  LInv'
<1>1. UNCHANGED <<work, lapsed, handled>> /\ (UNCHANGED queue \/ Insert(c))
  BY DEF Commit, Save, QueuedChanges, EnqueuePluginContentChanges, EnqueueFails, DeliverDirectly
<1>2. CASE UNCHANGED queue
  BY <1>1, <1>2, IdleLeases
<1>3. CASE Insert(c)
  <2>1. Inserted \subseteq Inserted' /\ \A id \in Inserted : queue'[id] = queue[id]
    BY <1>1, <1>3, InsertAppends DEF LInv
  <2>2. \A t \in Servers : Holds(t)' = Holds(t) /\ Holds(t) \subseteq Inserted
    BY <1>1 DEF Holds, LInv, Leases
  <2> QED
    BY <1>1, <2>1, <2>2, LeasesStay DEF LInv, Leases
<1> QED
  BY <1>1, <1>2, <1>3

\* A claim takes rows that are ready, and so held by nobody whose lease stands.
LEMMA ClaimLeases ==
    ASSUME LInv, QInv', NEW s \in Servers, ClaimPluginContentChanges(s)
    PROVE  LInv'
<1> DEFINE rows == First(BatchSize, InState("ready"))
<1>1. /\ rows \subseteq Inserted
      /\ \A id \in rows : queue[id].state = "ready"
  BY DEF First, InState
<1>2. /\ queue' = [id \in Inserted |->
                     IF id \in rows THEN [queue[id] EXCEPT !.state = "leased"] ELSE queue[id]]
      /\ work' = [work EXCEPT ![s] = [rows |-> rows, current |-> 0, step |-> "batch"]]
      /\ lapsed' = lapsed
  BY DEF ClaimPluginContentChanges
<1> HIDE DEF rows
<1>3. /\ queue \in [Inserted -> Row] /\ Inserted = 1..Len(queue) /\ Len(queue) \in Nat
      /\ DOMAIN work = Servers
  BY LenProperties DEF LInv, QInv, Typed, Inserted
<1>4. Inserted' = Inserted
  BY <1>2 DEF Inserted
<1>5. \A id \in Inserted : queue'[id].state = IF id \in rows THEN "leased" ELSE queue[id].state
  BY <1>2, <1>3 DEF Row
<1>6. 0 \notin rows
  BY <1>1, <1>3
<1>7. Holds(s)' = rows /\ (work[s].current \notin work[s].rows)'
  BY <1>2, <1>3, <1>6 DEF Holds
<1>8. \A t \in Servers \ {s} : Holds(t)' = Holds(t) /\ work'[t] = work[t]
  BY <1>2, <1>3 DEF Holds
<1>9. Leases'
  BY <1>1, <1>2, <1>4, <1>5, <1>7, <1>8 DEF LInv, Leases
<1>10. \A t \in Servers : Holds(t) \cap rows \subseteq lapsed
  BY <1>1 DEF LInv, Leases
<1>11. LeaseExcludes'
  BY <1>2, <1>7, <1>8, <1>10 DEF LInv, LeaseExcludes
<1> QED
  BY <1>9, <1>11 DEF LInv

\* The other steps of a worker take rows from it and leave the queue alone.
LEMMA WorkLeases ==
    ASSUME LInv, QInv', NEW s \in Servers,
           (\E id \in Inserted : Deliver(s, id)) \/ HookReturns(s) \/ HookFails(s)
               \/ RecordFails(s) \/ Crash(s)
    PROVE  LInv'
<1>1. UNCHANGED <<queue, lapsed>>
  BY DEF Deliver, HookReturns, HookFails, RecordFails, Crash
<1>2. DOMAIN work = Servers /\ work[s].rows \subseteq Nat
      /\ work[s] = [rows |-> work[s].rows, current |-> work[s].current, step |-> work[s].step]
  BY DEF LInv, QInv, Typed
<1>3. /\ \A t \in Servers \ {s} : work'[t] = work[t]
      /\ work'[s].rows \subseteq work[s].rows
      /\ work'[s].current \in {0, work[s].current} \cup (work[s].rows \ work'[s].rows)
  <2>1. CASE \E id \in Inserted : Deliver(s, id)
    <3>1. PICK id \in Inserted : Deliver(s, id)
      BY <2>1
    <3>2. id \in work[s].rows
      BY <3>1 DEF Deliver
    <3>3. work'[s].rows = work[s].rows \ {id} /\ work'[s].current = id
      BY <1>2, <3>1 DEF Deliver
    <3>4. \A t \in Servers \ {s} : work'[t] = work[t]
      BY <1>2, <3>1 DEF Deliver
    <3> QED
      BY <3>2, <3>3, <3>4
  <2>2. CASE HookReturns(s) \/ HookFails(s)
    BY <1>2, <2>2 DEF HookReturns, HookFails
  <2>3. CASE RecordFails(s)
    BY <1>2, <2>3 DEF RecordFails, Onward, Rest
  <2>4. CASE Crash(s)
    BY <1>2, <2>4 DEF Crash, Rest
  <2> QED
    BY <2>1, <2>2, <2>3, <2>4
<1>4. Inserted' = Inserted
  BY <1>1 DEF Inserted
<1>5. Holds(s)' \subseteq Holds(s)
  BY <1>3 DEF Holds
<1>6. 0 \notin work[s].rows
  <2>1. work[s].rows \subseteq 1..Len(queue)
    BY LenProperties DEF LInv, QInv, Typed, Held, Inserted
  <2> QED
    BY <2>1
<1>7. work'[s].current \notin work'[s].rows
  BY <1>3, <1>6 DEF LInv, Leases
<1>8. \A t \in Servers \ {s} : Holds(t)' = Holds(t)
  BY <1>3 DEF Holds
<1> QED
  BY <1>1, <1>3, <1>4, <1>5, <1>7, <1>8, LeasesStay DEF LInv, Leases

\* The outcome is written to a row that the worker gives up, and that others
\* only hold after its lease lapsed.
LEMMA RecordLeases ==
    ASSUME LInv, QInv', NEW s \in Servers,
           CompletePluginContentChange(s) \/ RetryPluginContentChange(s)
    PROVE  LInv'
<1> DEFINE id == work[s].current
<1>1. PICK state \in {"deleted", "waiting"} :
          Recorded(s, state) /\ work[s].step \in {"done", "failed"}
  BY DEF CompletePluginContentChange, RetryPluginContentChange
<1>2. id \in Inserted /\ id # 0
  <2>1. id \in Inserted
    BY <1>1 DEF LInv, QInv, Held
  <2>2. Inserted = 1..Len(queue)
    BY LenProperties DEF LInv, QInv, Typed, Inserted
  <2> QED
    BY <2>1, <2>2
<1>3. DOMAIN work = Servers
      /\ work[s] = [rows |-> work[s].rows, current |-> work[s].current, step |-> work[s].step]
  BY DEF LInv, QInv, Typed
<1>4. /\ \A t \in Servers \ {s} : work'[t] = work[t]
      /\ work'[s].rows = work[s].rows /\ work'[s].current = 0
  BY <1>1, <1>3 DEF Recorded, Onward, Rest
<1>5. 0 \notin work[s].rows
  <2>1. work[s].rows \subseteq 1..Len(queue)
    BY LenProperties DEF LInv, QInv, Typed, Held, Inserted
  <2> QED
    BY <2>1
<1>6. lapsed' = lapsed /\ Inserted' = Inserted
      /\ \A other \in Inserted \ {id} : queue'[other] = queue[other]
  BY <1>1 DEF Recorded, Inserted
<1>7. Holds(s)' = work[s].rows /\ id \notin work[s].rows /\ Holds(s)' \subseteq Holds(s)
  BY <1>4 DEF Holds, LInv, Leases
<1>8. \A t \in Servers \ {s} : Holds(t)' = Holds(t)
  BY <1>4 DEF Holds
<1>9. id \in Holds(s)
  BY <1>2 DEF Holds
<1>10. \A t \in Servers : id \notin Holds(t)' \ lapsed'
  BY <1>6, <1>7, <1>8, <1>9 DEF LInv, LeaseExcludes
<1>11. \A t \in Servers : Holds(t)' \subseteq Inserted
  BY <1>7, <1>8 DEF LInv, Leases
<1> QED
  BY <1>4, <1>5, <1>6, <1>7, <1>8, <1>10, <1>11, LeasesStay DEF LInv, Leases

LEMMA TimeLeases ==
    ASSUME LInv, QInv', NEW id \in Inserted, Time(id)
    PROVE  LInv'
<1>1. /\ work' = work /\ lapsed \subseteq lapsed'
      /\ queue[id].state = "leased" => id \in lapsed'
      /\ queue' = [queue EXCEPT ![id].state = "ready"]
  BY DEF Time, LeaseLapses, RetryTimeComes
<1>2. Inserted' = Inserted /\ \A other \in Inserted \ {id} : queue'[other] = queue[other]
  BY <1>1 DEF Inserted
<1>3. \A t \in Servers : Holds(t)' = Holds(t)
  BY <1>1 DEF Holds
<1>4. \A t \in Servers : id \notin Holds(t)' \ lapsed'
  BY <1>1, <1>3 DEF LInv, Leases
<1> QED
  BY <1>1, <1>2, <1>3, <1>4, LeasesStay DEF LInv, Leases

\* As long as no lease lapses, no two workers hold one row: LeaseExcludes, for
\* any servers, plugins, changes and batches.
THEOREM LeasesExclude == Spec => []LeaseExcludes
<1>1. Init => LInv
  <2> SUFFICES ASSUME Init PROVE LInv
    OBVIOUS
  <2>1. QInv
    BY QueueStarts
  <2>2. \A s \in Servers : Holds(s) = {} /\ work[s].current \notin work[s].rows
    BY DEF Init, Rest, Holds
  <2> QED
    BY <2>1, <2>2 DEF LInv, Leases, LeaseExcludes
<1>2. LInv /\ [Next]_vars => LInv'
  <2> SUFFICES ASSUME LInv, [Next]_vars PROVE LInv'
    OBVIOUS
  <2>1. QInv'
    BY StepImplements DEF LInv
  <2>2. ASSUME NEW s \in Servers, Run(s) \/ Crash(s) PROVE LInv'
    BY <2>1, <2>2, ClaimLeases, WorkLeases, RecordLeases DEF Run
  <2>3. ASSUME NEW s \in Servers, NEW p \in Plugins, Toggle(s, p) PROVE LInv'
    BY <2>1, <2>3, IdleLeases DEF Toggle
  <2>4. CASE UNCHANGED vars
    BY <2>1, <2>4, IdleLeases DEF vars
  <2> QED
    BY <2>1, <2>2, <2>3, <2>4, SaveLeases, TimeLeases DEF Next
<1>3. LInv => LeaseExcludes
  BY DEF LInv
<1> QED
  BY <1>1, <1>2, <1>3, PTL DEF Spec

-----------------------------------------------------------------------------
(* The reviews of a page (PageReviews), and of its history only what made  *)
(* each revision.                                                          *)

\* Requests that are adding a suggestion.
Adding == {u \in Clients : tx[u] # None /\ tx[u].op = "comment"}

\* A request knows a revision there was and, unless it opens a review, its review.
Located(u) ==
    tx[u] # None =>
        /\ tx[u].phase = "checked" => tx[u].op = "request"
        /\ tx[u].phase # "checked" => tx[u].rev \in 1..Len(history)
        /\ tx[u].op # "request" => tx[u].phase # "checked" /\ tx[u].id \in DOMAIN reviews

\* While its review is active, nothing but link rewriting came after its snapshot.
Unsaved(u) ==
    tx[u] # None /\ tx[u].op # "request" /\ reviews[tx[u].id].status \in Active =>
        \A n \in (tx[u].rev + 1)..Len(history) : history[n] = "links"

OnePending ==
    \A i, j \in DOMAIN reviews : reviews[i].status = "pending" /\ reviews[j].status = "pending" => i = j

\* Suggestions of a pending review are numbered, and there is room for those under way.
Room ==
    /\ Cardinality(Adding) <= MaxSuggestions
    /\ \A i \in DOMAIN reviews : reviews[i].status = "pending" =>
          \E k \in Nat : reviews[i].open = 1..k /\ k + Cardinality(Adding) <= MaxSuggestions

VInv ==
    /\ ReviewTypeOK /\ reviews \in Seq(Review) /\ Len(history) >= 1
    /\ \A u \in Clients : Located(u) /\ Unsaved(u)
    /\ OnePending /\ Room

\* What the types say.
LEMMA ReviewTypes ==
    ASSUME VInv
    PROVE  /\ Len(reviews) \in Nat /\ DOMAIN reviews = 1..Len(reviews)
           /\ Len(history) \in Nat /\ DOMAIN history = 1..Len(history)
           /\ history \in Seq({"save", "links"})
           /\ \A i \in DOMAIN reviews : reviews[i] \in Review /\ reviews[i].rev \in 1..Len(history)
           /\ \A u \in Clients : tx[u] # None => tx[u] \in Tx
           /\ tx \in [Clients -> Tx \cup {None}]
           /\ page \in [live : BOOLEAN, status : Statuses]
<1>1. /\ reviews \in Seq(Review) /\ history \in Seq({"save", "links"})
      /\ page \in [live : BOOLEAN, status : Statuses]
      /\ tx \in [Clients -> Tx \cup {None}]
      /\ \A i \in DOMAIN reviews : reviews[i] \in Review /\ reviews[i].rev \in 1..Len(history)
  BY DEF VInv, ReviewTypeOK, Newest
<1>2. /\ Len(reviews) \in Nat /\ DOMAIN reviews = 1..Len(reviews)
      /\ Len(history) \in Nat /\ DOMAIN history = 1..Len(history)
  BY <1>1, LenProperties
<1> QED
  BY <1>1, <1>2

LEMMA ReviewBounds ==
    /\ IsFiniteSet(Clients) /\ Administrators \subseteq Clients
    /\ MaxRevisions \in Nat /\ MaxReviews \in Nat /\ MaxSuggestions \in Nat
    /\ "draft" \in Statuses /\ "verified" \in Statuses
  BY ReviewAssumption

\* Sets of numbers.
LEMMA SuggestionsNumbered ==
    ASSUME NEW k \in Nat
    PROVE  /\ Cardinality(1..k) = k /\ IsFiniteSet(1..k)
           /\ (1..k) \cup {k + 1} = 1..(k + 1)
<1>1. Cardinality(1..k) = k /\ IsFiniteSet(1..k)
  <2>1. /\ IsFiniteSet(1..k)
        /\ Cardinality(1..k) = IF 1 > k THEN 0 ELSE k - 1 + 1
    BY FS_Interval
  <2> QED
    BY <2>1
<1> QED
  BY <1>1

\* A request that ends makes room, one that only proceeds takes none.
LEMMA AddingShrinks ==
    ASSUME IsFiniteSet(Clients), NEW u \in Clients, tx \in [Clients -> Tx \cup {None}],
           tx' = [tx EXCEPT ![u] = None]
    PROVE  /\ Adding' = Adding \ {u} /\ IsFiniteSet(Adding) /\ Cardinality(Adding) \in Nat
           /\ Cardinality(Adding') = IF u \in Adding THEN Cardinality(Adding) - 1 ELSE Cardinality(Adding)
<1>1. IsFiniteSet(Adding)
  <2>1. Adding \subseteq Clients
    BY DEF Adding
  <2> QED
    BY <2>1, FS_Subset
<1>2. Adding' = Adding \ {u}
  BY DEF Adding
<1>3. /\ Cardinality(Adding) \in Nat
      /\ Cardinality(Adding \ {u}) = IF u \in Adding THEN Cardinality(Adding) - 1 ELSE Cardinality(Adding)
  BY <1>1, FS_RemoveElement, FS_CardinalityType
<1> QED
  BY <1>1, <1>2, <1>3

\* A step in which requests only end, and after which a review is only active if it was
\* and nothing was saved.
LEMMA ReviewStep ==
    ASSUME VInv, page' \in [live : BOOLEAN, status : Statuses],
           history' \in Seq({"save", "links"}), Len(history') >= Len(history),
           \A n \in 1..Len(history) : history'[n] = history[n],
           reviews' \in Seq(Review), Len(reviews') >= Len(reviews),
           \A i \in DOMAIN reviews' : reviews'[i].rev \in 1..Len(history'),
           \A i \in DOMAIN reviews : reviews'[i].status \in Active =>
                /\ reviews[i].status \in Active
                /\ \A n \in (Len(history) + 1)..Len(history') : history'[n] = "links",
           tx' \in [Clients -> Tx \cup {None}],
           \A u \in Clients : tx'[u] = tx[u] \/ tx'[u] = None,
           OnePending', Room'
    PROVE  VInv'
<1>1. /\ Len(reviews) \in Nat /\ DOMAIN reviews = 1..Len(reviews)
      /\ Len(history) \in Nat /\ DOMAIN history = 1..Len(history)
      /\ Len(reviews') \in Nat /\ DOMAIN reviews' = 1..Len(reviews')
      /\ Len(history') \in Nat /\ DOMAIN history' = 1..Len(history')
  BY ReviewTypes, LenProperties
<1>2. \A i \in DOMAIN reviews' : reviews'[i] \in Review
  BY <1>1
<1>3. ReviewTypeOK'
  BY <1>2 DEF ReviewTypeOK, Newest
<1>4. ASSUME NEW u \in Clients, tx'[u] # None
      PROVE  Located(u)' /\ Unsaved(u)'
  <2>1. tx'[u] = tx[u] /\ tx[u] # None /\ Located(u) /\ Unsaved(u)
    BY <1>4 DEF VInv
  <2>2. DOMAIN reviews \subseteq DOMAIN reviews' /\ 1..Len(history) \subseteq 1..Len(history')
    BY <1>1
  <2>3. Located(u)'
    BY <2>1, <2>2 DEF Located
  <2>4. Unsaved(u)'
    <3> SUFFICES ASSUME tx[u].op # "request", reviews'[tx[u].id].status \in Active,
                        NEW n \in (tx[u].rev + 1)..Len(history')
                 PROVE  history'[n] = "links"
      BY <2>1 DEF Unsaved, Active
    <3>1. tx[u].id \in DOMAIN reviews /\ tx[u].rev \in 1..Len(history)
      BY <2>1 DEF Located
    <3>2. /\ reviews[tx[u].id].status \in Active
          /\ \A m \in (Len(history) + 1)..Len(history') : history'[m] = "links"
      BY <3>1
    <3>3. CASE n <= Len(history)
      <4>1. n \in 1..Len(history) /\ n \in (tx[u].rev + 1)..Len(history)
        BY <1>1, <3>1, <3>3
      <4>2. history[n] = "links"
        BY <2>1, <3>2, <4>1 DEF Unsaved
      <4> QED
        BY <4>1, <4>2
    <3>4. CASE n > Len(history)
      BY <1>1, <3>1, <3>2, <3>4
    <3> QED
      BY <1>1, <3>1, <3>3, <3>4
  <2> QED
    BY <2>3, <2>4
<1>5. \A u \in Clients : Located(u)' /\ Unsaved(u)'
  BY <1>4 DEF Located, Unsaved
<1>6. Len(history') >= 1
  BY <1>1 DEF VInv
<1> QED
  BY <1>3, <1>5, <1>6 DEF VInv

\* Pending reviews that stay as they are keep their room.
LEMMA RoomStands ==
    ASSUME VInv, IsFiniteSet(Clients), MaxSuggestions \in Nat,
           Adding' \subseteq Adding,
           \A i \in DOMAIN reviews' : reviews'[i].status = "pending" =>
                i \in DOMAIN reviews /\ reviews[i].status = "pending" /\ reviews'[i].open = reviews[i].open
    PROVE  OnePending' /\ Room'
<1>1. OnePending'
  BY DEF OnePending, VInv
<1>2. /\ Cardinality(Adding) \in Nat /\ Cardinality(Adding') \in Nat
      /\ Cardinality(Adding') <= Cardinality(Adding)
  <2>1. Adding \subseteq Clients
    BY DEF Adding
  <2>2. IsFiniteSet(Adding)
    BY <2>1, FS_Subset
  <2>3. IsFiniteSet(Adding') /\ Cardinality(Adding') <= Cardinality(Adding)
    BY <2>2, FS_Subset, FS_CardinalityType
  <2> QED
    BY <2>2, <2>3, FS_CardinalityType
<1>3. Room
  BY DEF VInv
<1>4. Cardinality(Adding') <= MaxSuggestions
  BY <1>2, <1>3 DEF Room
<1>5. ASSUME NEW i \in DOMAIN reviews', reviews'[i].status = "pending"
      PROVE  \E k \in Nat : reviews'[i].open = 1..k /\ k + Cardinality(Adding') <= MaxSuggestions
  <2>1. i \in DOMAIN reviews /\ reviews[i].status = "pending" /\ reviews'[i].open = reviews[i].open
    BY <1>5
  <2>2. PICK k \in Nat : reviews[i].open = 1..k /\ k + Cardinality(Adding) <= MaxSuggestions
    BY <1>3, <2>1 DEF Room
  <2>3. k + Cardinality(Adding') <= MaxSuggestions
    BY <1>2, <2>2
  <2> QED
    BY <2>1, <2>2, <2>3
<1> QED
  BY <1>1, <1>4, <1>5 DEF Room

\* A request that goes on, and what its first statement has seen.
LEMMA RequestStep ==
    ASSUME VInv, NEW u \in Clients, NEW x \in Tx, tx' = [tx EXCEPT ![u] = x],
           page' = page, history' = history, reviews' = reviews,
           x.phase = "checked" => x.op = "request",
           x.phase # "checked" => x.rev \in 1..Len(history),
           x.op # "request" =>
                /\ x.phase # "checked" /\ x.id \in DOMAIN reviews
                /\ \/ x.rev = Len(history)
                   \/ tx[u] # None /\ tx[u].op = x.op /\ tx[u].id = x.id /\ tx[u].rev = x.rev,
           Room'
    PROVE  VInv'
<1>1. /\ tx \in [Clients -> Tx \cup {None}] /\ Len(history) \in Nat
      /\ \A t \in Clients : Located(t) /\ Unsaved(t)
  BY ReviewTypes DEF VInv
<1>2. tx'[u] = x /\ \A t \in Clients : t # u => tx'[t] = tx[t]
  BY <1>1
<1>3. Located(u)'
  BY <1>2 DEF Located
<1>4. Unsaved(u)'
  <2> SUFFICES ASSUME x.op # "request", reviews[x.id].status \in Active,
                      NEW n \in (x.rev + 1)..Len(history)
               PROVE  history[n] = "links"
    BY <1>2 DEF Unsaved, Active
  <2>1. CASE x.rev = Len(history)
    BY <1>1, <2>1
  <2>2. CASE tx[u] # None /\ tx[u].op = x.op /\ tx[u].id = x.id /\ tx[u].rev = x.rev
    BY <1>1, <2>2 DEF Unsaved
  <2> QED
    BY <2>1, <2>2
<1>5. \A t \in Clients : Located(t)' /\ Unsaved(t)'
  <2> SUFFICES ASSUME NEW t \in Clients PROVE Located(t)' /\ Unsaved(t)'
    OBVIOUS
  <2>1. CASE t # u
    BY <1>1, <1>2, <2>1 DEF Located, Unsaved, Active
  <2> QED
    BY <1>3, <1>4, <2>1
<1>6. ReviewTypeOK'
  BY <1>1, <1>2 DEF VInv, ReviewTypeOK, Newest
<1>7. OnePending' /\ reviews' \in Seq(Review) /\ Len(history') >= 1
  BY DEF VInv, OnePending
<1> QED
  BY <1>5, <1>6, <1>7 DEF VInv

-----------------------------------------------------------------------------
(* Requests that begin and go on *)

\* A request that does not start to add a suggestion takes no room.
LEMMA AddingSame ==
    ASSUME VInv, NEW u \in Clients, NEW x \in Tx,
           tx' = [tx EXCEPT ![u] = x], reviews' = reviews,
           x.op # "comment"
    PROVE  Room'
<1>1. tx \in [Clients -> Tx \cup {None}]
  BY ReviewTypes
<1>2. Adding' \subseteq Adding
  BY <1>1 DEF Adding
<1>3. IsFiniteSet(Clients) /\ MaxSuggestions \in Nat
  BY ReviewBounds
<1> QED
  BY <1>2, <1>3, RoomStands

LEMMA StartKeeps ==
    ASSUME VInv, NEW u \in Clients, NEW id \in DOMAIN reviews,
           NEW op \in {"cancel", "decide", "comment", "apply"}, NEW read \in SUBSET (1..MaxSuggestions),
           NEW all \in BOOLEAN, Start(u, op, id, read, all),
           op = "comment" => Room'
    PROVE  VInv'
<1> DEFINE x == [op |-> op, phase |-> "waiting", id |-> id, rev |-> Len(history),
                 read |-> read, all |-> all, assigned |-> FALSE, targets |-> {}]
<1>1. /\ tx' = [tx EXCEPT ![u] = x]
      /\ page' = page /\ history' = history /\ reviews' = reviews
  BY DEF Start, Newest
<1>2. x \in Tx
  BY ReviewTypes DEF Tx
<1>3. x.op = op /\ x.phase = "waiting" /\ x.id = id /\ x.rev = Len(history)
  OBVIOUS
<1>4. Len(history) \in 1..Len(history)
  <2>1. reviews[id].rev \in 1..Len(history) /\ Len(history) \in Nat
    BY ReviewTypes
  <2> QED
    BY <2>1
<1> HIDE DEF x
<1>5. Room'
  BY <1>1, <1>2, <1>3, AddingSame
<1> QED
  BY <1>1, <1>2, <1>3, <1>4, <1>5, RequestStep

LEMMA RequestReviewKeeps ==
    ASSUME VInv, NEW u \in Clients, NEW targets \in Targets,
           RequestReview(u, targets)
    PROVE  VInv'
<1> DEFINE x == [op |-> "request", phase |-> "checked", id |-> 0, rev |-> 0,
                 read |-> {}, all |-> FALSE, assigned |-> FALSE, targets |-> targets]
<1>1. /\ tx' = [tx EXCEPT ![u] = x]
      /\ page' = page /\ history' = history /\ reviews' = reviews
  BY DEF RequestReview
<1>2. x \in Tx
  BY DEF Tx, Targets
<1>3. x.op = "request" /\ x.phase = "checked"
  OBVIOUS
<1> HIDE DEF x
<1>4. Room'
  BY <1>1, <1>2, <1>3, AddingSame
<1> QED
  BY <1>1, <1>2, <1>3, <1>4, RequestStep

LEMMA ReviewPageStateKeeps ==
    ASSUME VInv, NEW u \in Clients, ReviewPageState(u)
    PROVE  VInv'
<1> DEFINE x == [tx[u] EXCEPT !.phase = "waiting", !.rev = Len(history)]
<1>1. tx[u] # None /\ tx[u].phase = "checked" /\ page' = page /\ history' = history /\ reviews' = reviews
  BY DEF ReviewPageState
<1>2. tx[u] \in Tx /\ tx \in [Clients -> Tx \cup {None}] /\ Len(history) \in Nat
  BY <1>1, ReviewTypes
<1>3. tx' = [tx EXCEPT ![u] = x]
  BY <1>2 DEF ReviewPageState, Newest, Tx
<1>4. tx[u].op = "request"
  BY <1>1 DEF VInv, Located
<1>5. x \in Tx /\ x.op = "request" /\ x.phase = "waiting" /\ x.rev = Len(history)
  BY <1>2, <1>4 DEF Tx
<1>6. Len(history) \in 1..Len(history)
  BY <1>2 DEF VInv
<1> HIDE DEF x
<1>7. Room'
  BY <1>1, <1>3, <1>5, AddingSame
<1> QED
  BY <1>1, <1>3, <1>5, <1>6, <1>7, RequestStep

\* A reviewer who adds a suggestion takes room that is left.
LEMMA AddReviewCommentKeeps ==
    ASSUME VInv, NEW u \in Clients, NEW id \in DOMAIN reviews,
           AddReviewComment(u, id)
    PROVE  VInv'
<1>1. /\ reviews[id].status = "pending" /\ tx[u] = None /\ reviews' = reviews
      /\ Cardinality(reviews[id].open) + Cardinality(Adding) < MaxSuggestions
      /\ Start(u, "comment", id, {}, FALSE)
  <2>1. /\ reviews[id].status = "pending" /\ Start(u, "comment", id, {}, FALSE)
        /\ Cardinality(reviews[id].open)
              + Cardinality({d \in Clients : tx[d] # None /\ tx[d].op = "comment"}) < MaxSuggestions
    BY DEF AddReviewComment, CanSuggest
  <2>2. tx[u] = None /\ reviews' = reviews
    BY <2>1 DEF Start
  <2>3. /\ Cardinality(reviews[id].open) = Cardinality(reviews[id].open)
        /\ Cardinality({d \in Clients : tx[d] # None /\ tx[d].op = "comment"}) = Cardinality(Adding)
    BY DEF Adding
  <2> QED
    BY <2>1, <2>2, <2>3
<1>2. /\ IsFiniteSet(Adding) /\ Cardinality(Adding) \in Nat /\ MaxSuggestions \in Nat
  <2>1. IsFiniteSet(Clients) /\ Adding \subseteq Clients /\ MaxSuggestions \in Nat
    BY ReviewBounds DEF Adding
  <2> QED
    BY <2>1, FS_Subset, FS_CardinalityType
<1>3. Adding' \subseteq Adding \cup {u}
  <2>1. \A t \in Clients : t # u => tx'[t] = tx[t]
    BY ReviewTypes, <1>1 DEF Start
  <2> QED
    BY <2>1 DEF Adding
<1>4. Cardinality(Adding') \in Nat /\ Cardinality(Adding') <= Cardinality(Adding) + 1
  <2>1. IsFiniteSet(Adding \cup {u}) /\ Cardinality(Adding \cup {u}) <= Cardinality(Adding) + 1
    <3>1. /\ IsFiniteSet(Adding \cup {u})
          /\ Cardinality(Adding \cup {u}) = IF u \in Adding THEN Cardinality(Adding) ELSE Cardinality(Adding) + 1
      BY <1>2, FS_AddElement
    <3> QED
      BY <1>2, <3>1
  <2>2. IsFiniteSet(Adding') /\ Cardinality(Adding') <= Cardinality(Adding \cup {u})
    BY <1>3, <2>1, FS_Subset
  <2> QED
    BY <1>2, <2>1, <2>2, FS_CardinalityType
<1>5. PICK k \in Nat : reviews[id].open = 1..k
  BY <1>1 DEF VInv, Room
<1>6. k + Cardinality(Adding) < MaxSuggestions
  BY <1>1, <1>5, SuggestionsNumbered
<1>7. \A i \in DOMAIN reviews' : reviews'[i].status = "pending" => i = id
  BY <1>1 DEF VInv, OnePending
<1>8. k + Cardinality(Adding') <= MaxSuggestions /\ Cardinality(Adding') <= MaxSuggestions
  BY <1>2, <1>4, <1>6
<1>9. Room'
  BY <1>1, <1>5, <1>7, <1>8 DEF Room
<1> QED
  BY <1>1, <1>9, StartKeeps

LEMMA StartsKeep ==
    ASSUME VInv, NEW u \in Clients, NEW id \in DOMAIN reviews,
           \/ CancelReview(u, id) \/ DecideReview(u, id) \/ AddReviewComment(u, id)
           \/ \E selected \in SUBSET (1..MaxSuggestions) : ApplyReviewSuggestions(u, id, selected)
    PROVE  VInv'
<1>1. CASE CancelReview(u, id)
  BY <1>1, StartKeeps DEF CancelReview
<1>2. CASE DecideReview(u, id)
  BY <1>2, StartKeeps DEF DecideReview
<1>3. CASE AddReviewComment(u, id)
  BY <1>3, AddReviewCommentKeeps
<1>4. ASSUME NEW selected \in SUBSET (1..MaxSuggestions), ApplyReviewSuggestions(u, id, selected)
      PROVE  VInv'
  <2>1. selectedReviewSuggestions(id, selected) \in SUBSET (1..MaxSuggestions)
    <3>1. reviews[id] \in Review
      BY ReviewTypes
    <3> QED
      BY <3>1 DEF selectedReviewSuggestions, Review
  <2>2. PICK read \in SUBSET (1..MaxSuggestions), all \in BOOLEAN : Start(u, "apply", id, read, all)
    BY <1>4, <2>1 DEF ApplyReviewSuggestions
  <2> QED
    BY <2>2, StartKeeps
<1> QED
  BY <1>1, <1>2, <1>3, <1>4

LEMMA LockReviewPageKeeps ==
    ASSUME VInv, NEW u \in Clients, LockReviewPage(u), page.live
    PROVE  VInv'
<1>1. /\ tx[u] # None /\ tx[u].phase = "waiting" /\ tx[u].op = "decide"
      /\ page' = page /\ history' = history /\ reviews' = reviews
  BY DEF LockReviewPage, Granted
<1>2. tx[u] \in Tx /\ tx \in [Clients -> Tx \cup {None}] /\ Located(u)
  BY <1>1, ReviewTypes DEF VInv
<1>3. PICK b \in BOOLEAN : tx' = [tx EXCEPT ![u] = [tx[u] EXCEPT !.phase = "page", !.assigned = b]]
  <2> DEFINE b == u \in Administrators \cup reviews[tx[u].id].reviewers
  <2>1. tx' = [tx EXCEPT ![u].phase = "page", ![u].assigned = b]
    BY DEF LockReviewPage
  <2>2. b \in BOOLEAN
    OBVIOUS
  <2> HIDE DEF b
  <2> QED
    BY <1>2, <2>1, <2>2
<1> DEFINE x == [tx[u] EXCEPT !.phase = "page", !.assigned = b]
<1>4. /\ x \in Tx /\ x.op = "decide" /\ x.phase = "page"
      /\ x.id = tx[u].id /\ x.rev = tx[u].rev
  BY <1>1, <1>2 DEF Tx
<1>5. x.rev \in 1..Len(history) /\ x.id \in DOMAIN reviews
  BY <1>1, <1>2, <1>4 DEF Located
<1> HIDE DEF x
<1>6. tx' = [tx EXCEPT ![u] = x]
  BY <1>3 DEF x
<1>7. Room'
  BY <1>1, <1>4, <1>6, AddingSame
<1> QED
  BY <1>1, <1>4, <1>5, <1>6, <1>7, RequestStep

-----------------------------------------------------------------------------
(* Requests that end, and other writers *)

\* What ends a request or leaves all of them alone.
Ends == tx' = tx \/ \E u \in Clients : tx' = [tx EXCEPT ![u] = None]

LEMMA EndsAre ==
    ASSUME VInv, Ends
    PROVE  /\ tx' \in [Clients -> Tx \cup {None}]
           /\ \A u \in Clients : tx'[u] = tx[u] \/ tx'[u] = None
           /\ Adding' \subseteq Adding
<1>1. tx \in [Clients -> Tx \cup {None}]
  BY ReviewTypes
<1>2. /\ tx' \in [Clients -> Tx \cup {None}]
      /\ \A u \in Clients : tx'[u] = tx[u] \/ tx'[u] = None
  BY <1>1 DEF Ends
<1> QED
  BY <1>2 DEF Adding

\* A step that leaves reviews and history alone.
LEMMA ReviewsStand ==
    ASSUME VInv, Ends, reviews' = reviews, history' = history,
           page' \in [live : BOOLEAN, status : Statuses]
    PROVE  VInv'
<1>1. OnePending' /\ Room'
  BY EndsAre, ReviewBounds, RoomStands
<1>2. /\ reviews' \in Seq(Review) /\ history' \in Seq({"save", "links"}) /\ Len(history) \in Nat
      /\ \A i \in DOMAIN reviews' : reviews'[i].rev \in 1..Len(history')
  BY ReviewTypes DEF VInv
<1>3. Len(history') >= Len(history) /\ Len(reviews') >= Len(reviews)
  BY <1>2, ReviewTypes
<1>4. \A n \in (Len(history) + 1)..Len(history') : history'[n] = "links"
  BY <1>2
<1> QED
  BY <1>1, <1>2, <1>3, <1>4, EndsAre, ReviewStep

\* A step that changes one review.
LEMMA OneReview ==
    ASSUME VInv, Ends, NEW id \in DOMAIN reviews, NEW x \in Review,
           reviews' = [reviews EXCEPT ![id] = x], history' = history,
           page' \in [live : BOOLEAN, status : Statuses],
           x.rev = reviews[id].rev, reviews[id].status = "pending", Room'
    PROVE  VInv'
<1>1. /\ reviews \in Seq(Review) /\ history \in Seq({"save", "links"})
      /\ Len(reviews) \in Nat /\ Len(history) \in Nat /\ DOMAIN reviews = 1..Len(reviews)
      /\ \A i \in DOMAIN reviews : reviews[i].rev \in 1..Len(history)
  BY ReviewTypes DEF VInv
<1>2. /\ reviews' \in Seq(Review) /\ Len(reviews') = Len(reviews) /\ DOMAIN reviews' = DOMAIN reviews
  BY <1>1, ExceptSeq
<1>3. \A i \in DOMAIN reviews : reviews'[i] = IF i = id THEN x ELSE reviews[i]
  BY <1>1
<1>4. \A i \in DOMAIN reviews' : reviews'[i].rev \in 1..Len(history')
  BY <1>1, <1>2, <1>3
<1>5. \A i \in DOMAIN reviews : reviews'[i].status \in Active => reviews[i].status \in Active
  BY <1>3 DEF Active
<1>6. OnePending'
  <2>1. \A i \in DOMAIN reviews : reviews'[i].status = "pending" => reviews[i].status = "pending"
    BY <1>3
  <2> QED
    BY <1>2, <2>1 DEF OnePending, VInv
<1>7. \A n \in (Len(history) + 1)..Len(history') : history'[n] = "links"
  BY <1>1
<1>8. Len(history') >= Len(history) /\ Len(reviews') >= Len(reviews) /\ history' \in Seq({"save", "links"})
  BY <1>1, <1>2
<1> QED
  BY <1>2, <1>4, <1>5, <1>6, <1>7, <1>8, EndsAre, ReviewStep

\* A review that closes, gets other reviewers or asks for changes.
LEMMA ReviewSettles ==
    ASSUME VInv, Ends, NEW id \in DOMAIN reviews, NEW x \in Review,
           reviews' = [reviews EXCEPT ![id] = x], history' = history,
           page' \in [live : BOOLEAN, status : Statuses],
           x.rev = reviews[id].rev, reviews[id].status = "pending", x.open = reviews[id].open
    PROVE  VInv'
<1>1. /\ reviews \in Seq(Review) /\ DOMAIN reviews' = DOMAIN reviews
      /\ \A i \in DOMAIN reviews : reviews'[i] = IF i = id THEN x ELSE reviews[i]
  BY DEF VInv
<1>2. Room'
  BY <1>1, EndsAre, ReviewBounds, RoomStands
<1> QED
  BY <1>2, OneReview

LEMMA RequestPageReviewKeeps ==
    ASSUME VInv, NEW u \in Clients, RequestPageReview(u)
    PROVE  VInv'
<1>1. /\ Ends /\ history' = history /\ tx' = [tx EXCEPT ![u] = None]
      /\ tx[u] # None /\ tx[u].op = "request" /\ tx[u].phase = "waiting"
  BY DEF RequestPageReview, Granted, End, Ends
<1>2. /\ reviews \in Seq(Review) /\ history \in Seq({"save", "links"})
      /\ Len(reviews) \in Nat /\ Len(history) \in Nat /\ DOMAIN reviews = 1..Len(reviews)
      /\ page \in [live : BOOLEAN, status : Statuses] /\ tx[u] \in Tx
      /\ \A i \in DOMAIN reviews : reviews[i].rev \in 1..Len(history)
  BY <1>1, ReviewTypes DEF VInv
<1>3. CASE UNCHANGED <<reviews, page>>
  BY <1>1, <1>2, <1>3, ReviewsStand
<1>4. CASE ~UNCHANGED <<reviews, page>>
  <2> DEFINE x == [status |-> "pending", rev |-> tx[u].rev, prev |-> page.status,
                   by |-> u, reviewers |-> tx[u].targets, open |-> {}]
  <2>1. /\ ~HasPending /\ reviews' = Append(reviews, x) /\ page' = [page EXCEPT !.status = "draft"]
    BY <1>4 DEF RequestPageReview
  <2>2. tx[u].rev \in 1..Len(history)
    BY <1>1 DEF VInv, Located
  <2>3. x \in Review /\ x.rev \in 1..Len(history) /\ x.open = {}
    BY <1>2, <2>2 DEF Review, Active, Closed, Tx
  <2> HIDE DEF x
  <2>4. /\ reviews' \in Seq(Review) /\ Len(reviews') = Len(reviews) + 1
        /\ DOMAIN reviews' = 1..(Len(reviews) + 1)
        /\ \A i \in DOMAIN reviews : reviews'[i] = reviews[i]
        /\ reviews'[Len(reviews) + 1] = x
    BY <1>2, <2>1, <2>3, AppendProperties
  <2>5. \A i \in DOMAIN reviews : reviews[i].status # "pending"
    BY <2>1 DEF HasPending
  <2>6. \A i \in DOMAIN reviews' : i \in DOMAIN reviews \/ i = Len(reviews) + 1
    BY <1>2, <2>4
  <2>7. OnePending'
    BY <2>4, <2>5, <2>6 DEF OnePending
  <2>8. Cardinality(Adding') \in Nat /\ Cardinality(Adding') <= MaxSuggestions
    <3>1. Adding \subseteq Clients /\ IsFiniteSet(Clients) /\ MaxSuggestions \in Nat
      BY ReviewBounds DEF Adding
    <3>2. IsFiniteSet(Adding)
      BY <3>1, FS_Subset
    <3>3. IsFiniteSet(Adding') /\ Cardinality(Adding') <= Cardinality(Adding)
      BY <1>1, <3>2, EndsAre, FS_Subset
    <3>4. Cardinality(Adding) <= MaxSuggestions
      BY DEF VInv, Room
    <3> QED
      BY <3>1, <3>2, <3>3, <3>4, FS_CardinalityType
  <2>9. {} = 1..0 /\ 0 + Cardinality(Adding') <= MaxSuggestions
    BY <2>8
  <2>10. Room'
    <3> SUFFICES ASSUME NEW i \in DOMAIN reviews', reviews'[i].status = "pending"
                 PROVE  \E k \in Nat : reviews'[i].open = 1..k /\ k + Cardinality(Adding') <= MaxSuggestions
      BY <2>8 DEF Room
    <3>1. reviews'[i].open = {}
      BY <2>3, <2>4, <2>5, <2>6
    <3> QED
      BY <2>9, <3>1
  <2>11. \A i \in DOMAIN reviews' : reviews'[i].rev \in 1..Len(history')
    BY <1>1, <1>2, <2>3, <2>4, <2>6
  <2>12. \A i \in DOMAIN reviews : reviews'[i].status \in Active => reviews[i].status \in Active
    BY <2>4
  <2>13. \A n \in (Len(history) + 1)..Len(history') : history'[n] = "links"
    BY <1>1, <1>2
  <2>14. page' \in [live : BOOLEAN, status : Statuses]
    BY <1>2, <2>1, ReviewBounds
  <2>15. Len(history') >= Len(history) /\ Len(reviews') >= Len(reviews) /\ history' \in Seq({"save", "links"})
    BY <1>1, <1>2, <2>4
  <2> QED
    BY <1>1, <2>4, <2>7, <2>10, <2>11, <2>12, <2>13, <2>14, <2>15, EndsAre, ReviewStep
<1> QED
  BY <1>3, <1>4

LEMMA UpdateReviewKeeps ==
    ASSUME VInv, NEW id \in DOMAIN reviews, NEW targets \in Targets,
           UpdatePageReview(id, targets)
    PROVE  VInv'
<1> DEFINE x == [reviews[id] EXCEPT !.reviewers = targets]
<1>1. /\ reviews[id] \in Review /\ reviews[id].status = "pending"
      /\ page' = page /\ history' = history /\ tx' = tx /\ page \in [live : BOOLEAN, status : Statuses]
  BY ReviewTypes DEF UpdatePageReview
<1>2. x \in Review /\ x.rev = reviews[id].rev /\ x.open = reviews[id].open
  BY <1>1 DEF Review, Targets
<1>3. reviews' = [reviews EXCEPT ![id] = x]
  BY <1>1 DEF UpdatePageReview, replacePageReviewers, Review
<1> HIDE DEF x
<1> QED
  BY <1>1, <1>2, <1>3, ReviewSettles DEF Ends

\* A decision or a cancellation, in which the status of a pending review changes.
LEMMA StatusSettles ==
    ASSUME VInv, NEW id \in DOMAIN reviews, Ends,
           NEW status \in Active \cup Closed,
           reviews' = [reviews EXCEPT ![id].status = status], reviews[id].status = "pending",
           history' = history, page' \in [live : BOOLEAN, status : Statuses]
    PROVE  VInv'
<1> DEFINE x == [reviews[id] EXCEPT !.status = status]
<1>1. reviews[id] \in Review
  BY ReviewTypes
<1>2. x \in Review /\ x.rev = reviews[id].rev /\ x.open = reviews[id].open
  BY <1>1 DEF Review
<1>3. reviews' = [reviews EXCEPT ![id] = x]
  OBVIOUS
<1> HIDE DEF x
<1> QED
  BY <1>2, <1>3, ReviewSettles

LEMMA CancelPageReviewKeeps ==
    ASSUME VInv, NEW u \in Clients, CancelPageReview(u)
    PROVE  VInv'
<1> DEFINE id == tx[u].id
<1>1. /\ Ends /\ history' = history /\ tx[u] # None /\ tx[u].op = "cancel"
      /\ page \in [live : BOOLEAN, status : Statuses]
  BY ReviewTypes DEF CancelPageReview, Granted, End, Ends
<1>2. id \in DOMAIN reviews
  BY <1>1 DEF VInv, Located
<1>3. reviews[id] \in Review
  BY <1>2, ReviewTypes
<1>4. CASE page.live /\ reviews[id].status = "pending"
  <2>1. reviews' = [reviews EXCEPT ![id].status = "canceled"]
    BY <1>4 DEF CancelPageReview
  <2>2. page' = page \/ page' = [page EXCEPT !.status = reviews[id].prev]
    BY <1>4 DEF CancelPageReview
  <2>3. page' \in [live : BOOLEAN, status : Statuses]
    BY <1>1, <1>3, <2>2 DEF Review
  <2>4. "canceled" \in Active \cup Closed
    BY DEF Closed
  <2> HIDE DEF id
  <2> QED
    BY <1>1, <1>2, <1>4, <2>1, <2>3, <2>4, StatusSettles
<1>5. CASE ~(page.live /\ reviews[id].status = "pending")
  <2>1. reviews' = reviews /\ page' = page
    BY <1>5 DEF CancelPageReview
  <2> QED
    BY <1>1, <2>1, ReviewsStand
<1> QED
  BY <1>4, <1>5

LEMMA DecidePageReviewKeeps ==
    ASSUME VInv, NEW u \in Clients, NEW decision \in {"approved", "changes_requested"},
           DecidePageReview(u, decision)
    PROVE  VInv'
<1> DEFINE id == tx[u].id
           r == reviews[id]
<1>1. /\ Ends /\ history' = history /\ tx[u] # None /\ tx[u].op = "decide"
      /\ page \in [live : BOOLEAN, status : Statuses]
  BY ReviewTypes DEF DecidePageReview, End, Ends
<1>2. id \in DOMAIN reviews
  BY <1>1 DEF VInv, Located
<1>3. CASE r.status = "pending" /\ r.rev = tx[u].rev /\ tx[u].assigned
  <2>1. /\ reviews' = [reviews EXCEPT ![id].status = decision]
        /\ page' = markPageReviewApproved(decision)
    BY <1>3 DEF DecidePageReview
  <2>2. page' \in [live : BOOLEAN, status : Statuses]
    BY <1>1, <2>1, ReviewBounds DEF markPageReviewApproved
  <2>3. decision \in Active \cup Closed
    BY DEF Closed, Active
  <2>4. reviews[id].status = "pending"
    BY <1>3
  <2> HIDE DEF id, r
  <2> QED
    BY <1>1, <1>2, <2>1, <2>2, <2>3, <2>4, StatusSettles
<1>4. CASE ~(r.status = "pending" /\ r.rev = tx[u].rev /\ tx[u].assigned)
  <2>1. reviews' = reviews /\ page' = page
    BY <1>4 DEF DecidePageReview
  <2> QED
    BY <1>1, <2>1, ReviewsStand
<1> QED
  BY <1>3, <1>4

LEMMA AddPageReviewCommentKeeps ==
    ASSUME VInv, NEW u \in Clients, AddPageReviewComment(u)
    PROVE  VInv'
<1> DEFINE id == tx[u].id
           r == reviews[id]
           ok == page.live /\ r.status = "pending" /\ r.rev = tx[u].rev
<1>1. /\ Ends /\ history' = history /\ page' = page /\ tx[u] # None /\ tx[u].op = "comment"
      /\ tx' = [tx EXCEPT ![u] = None] /\ page \in [live : BOOLEAN, status : Statuses]
      /\ tx \in [Clients -> Tx \cup {None}]
      /\ reviews' = IF ok THEN insertPageReviewComment(id) ELSE reviews
  BY ReviewTypes DEF AddPageReviewComment, Granted, End, Ends
<1>2. id \in DOMAIN reviews /\ r \in Review
  <2>1. id \in DOMAIN reviews
    BY <1>1 DEF VInv, Located
  <2> QED
    BY <2>1, ReviewTypes
<1>3. CASE ~ok
  <2>1. reviews' = reviews
    BY <1>1, <1>3
  <2> QED
    BY <1>1, <2>1, ReviewsStand
<1>4. CASE ok
  <2>1. r.status = "pending" /\ Room
    BY <1>4 DEF VInv
  <2>2. PICK k \in Nat : r.open = 1..k /\ k + Cardinality(Adding) <= MaxSuggestions
    BY <1>2, <2>1 DEF Room
  <2>3. Cardinality(r.open) = k
    BY <2>2, SuggestionsNumbered
  <2> DEFINE x == [r EXCEPT !.open = 1..(k + 1)]
  <2>4. reviews' = [reviews EXCEPT ![id] = x]
    <3>1. r.open \cup {Cardinality(r.open) + 1} = 1..(k + 1)
      BY <2>2, <2>3, SuggestionsNumbered
    <3>2. reviews' = [reviews EXCEPT ![id].open = r.open \cup {Cardinality(r.open) + 1}]
      BY <1>1, <1>2, <1>4 DEF insertPageReviewComment, Review
    <3> QED
      BY <3>1, <3>2
  <2>5. u \in Adding
    BY <1>1 DEF Adding
  <2>6. /\ Cardinality(Adding) \in Nat /\ Cardinality(Adding') = Cardinality(Adding) - 1 /\ MaxSuggestions \in Nat
    BY <1>1, <2>5, ReviewBounds, AddingShrinks
  <2>7. (k + 1) + Cardinality(Adding') <= MaxSuggestions /\ k + 1 <= MaxSuggestions
        /\ Cardinality(Adding') <= MaxSuggestions
    <3>1. Cardinality(Adding') \in Nat
      <4>1. IsFiniteSet(Adding) /\ Adding' = Adding \ {u}
        BY <1>1, ReviewBounds, AddingShrinks
      <4> QED
        BY <4>1, FS_RemoveElement, FS_CardinalityType
    <3> QED
      BY <2>2, <2>6, <3>1
  <2>8. x \in Review /\ x.rev = r.rev /\ x.open = 1..(k + 1)
    <3>1. 1..(k + 1) \subseteq 1..MaxSuggestions
      BY <2>6, <2>7
    <3> QED
      BY <1>2, <3>1 DEF Review
  <2> HIDE DEF x, ok
  <2>9. /\ DOMAIN reviews' = DOMAIN reviews /\ reviews'[id] = x
        /\ \A i \in DOMAIN reviews : i # id => reviews'[i] = reviews[i]
    BY <1>2, <2>4
  <2>10. Room'
    <3> SUFFICES ASSUME NEW i \in DOMAIN reviews', reviews'[i].status = "pending"
                 PROVE  \E n \in Nat : reviews'[i].open = 1..n /\ n + Cardinality(Adding') <= MaxSuggestions
      BY <2>7 DEF Room
    <3>1. i = id
      BY <1>2, <2>1, <2>9 DEF VInv, OnePending
    <3> QED
      BY <2>7, <2>8, <2>9, <3>1
  <2>11. x.rev = reviews[id].rev /\ reviews[id].status = "pending"
    BY <2>1, <2>8
  <2> HIDE DEF id, r
  <2> QED
    BY <1>1, <1>2, <2>4, <2>8, <2>10, <2>11, OneReview
<1> QED
  BY <1>3, <1>4

\* A save leaves no review active.
LEMMA SupersededIs ==
    ASSUME VInv
    PROVE  /\ Superseded \in Seq(Review) /\ DOMAIN Superseded = DOMAIN reviews
           /\ Len(Superseded) = Len(reviews)
           /\ \A i \in DOMAIN reviews :
                 /\ Superseded[i].rev = reviews[i].rev /\ Superseded[i].open = reviews[i].open
                 /\ Superseded[i].status \notin Active
                 /\ reviews[i].status \in Active => Superseded[i].status = "superseded"
                 /\ reviews[i].status \notin Active => Superseded[i] = reviews[i]
<1> DEFINE S == Superseded
<1>1. /\ Len(reviews) \in Nat /\ DOMAIN reviews = 1..Len(reviews)
      /\ \A i \in DOMAIN reviews : reviews[i] \in Review
  BY ReviewTypes
<1>2. DOMAIN S = DOMAIN reviews
  BY DEF Superseded
<1>3. ASSUME NEW i \in DOMAIN reviews
      PROVE  /\ S[i] \in Review /\ S[i].rev = reviews[i].rev /\ S[i].open = reviews[i].open
             /\ S[i].status \notin Active
             /\ reviews[i].status \in Active => S[i].status = "superseded"
             /\ reviews[i].status \notin Active => S[i] = reviews[i]
  <2>1. reviews[i] \in Review
    BY <1>1
  <2>2. CASE reviews[i].status \in Active
    <3>1. S[i] = [reviews[i] EXCEPT !.status = "superseded"]
      BY <2>2 DEF Superseded
    <3>2. /\ S[i] \in Review /\ S[i].rev = reviews[i].rev /\ S[i].open = reviews[i].open
          /\ S[i].status = "superseded"
      BY <2>1, <3>1 DEF Review, Closed
    <3> QED
      BY <2>2, <3>2 DEF Active
  <2>3. CASE reviews[i].status \notin Active
    BY <2>1, <2>3 DEF Superseded
  <2> QED
    BY <2>2, <2>3
<1>4. S \in [1..Len(reviews) -> Review]
  <2>1. S = [i \in 1..Len(reviews) |-> S[i]]
    BY <1>1 DEF Superseded
  <2> HIDE DEF S
  <2> QED
    BY <1>1, <1>3, <2>1
<1> HIDE DEF S
<1>5. S \in Seq(Review) /\ Len(S) = Len(reviews)
  <2>1. S \in Seq(Review)
    BY <1>1, <1>4, SeqDef
  <2>2. Len(S) \in Nat /\ DOMAIN S = 1..Len(S)
    BY <2>1, LenProperties
  <2> QED
    BY <1>1, <1>2, <2>1, <2>2
<1> QED
  BY <1>2, <1>3, <1>5 DEF S

LEMMA SavingSettles ==
    ASSUME VInv, Ends, history' = Append(history, "save"),
           page' \in [live : BOOLEAN, status : Statuses],
           reviews' \in Seq(Review), DOMAIN reviews' = DOMAIN reviews, Len(reviews') = Len(reviews),
           \A i \in DOMAIN reviews : /\ reviews'[i].rev = reviews[i].rev
                                     /\ reviews'[i].status \notin Active
    PROVE  VInv'
<1>1. /\ history \in Seq({"save", "links"}) /\ Len(history) \in Nat /\ Len(reviews) \in Nat
      /\ \A i \in DOMAIN reviews : reviews[i].rev \in 1..Len(history)
  BY ReviewTypes
<1>2. /\ history' \in Seq({"save", "links"}) /\ Len(history') = Len(history) + 1
      /\ \A n \in 1..Len(history) : history'[n] = history[n]
  BY <1>1, AppendProperties
<1>3. \A i \in DOMAIN reviews' : reviews'[i].status # "pending"
  BY DEF Active
<1>4. OnePending' /\ Room'
  BY <1>3, EndsAre, ReviewBounds, RoomStands
<1>5. Len(history') >= Len(history) /\ Len(reviews') >= Len(reviews)
  BY <1>1, <1>2
<1>6. \A i \in DOMAIN reviews' : reviews'[i].rev \in 1..Len(history')
  BY <1>1, <1>2
<1> QED
  BY <1>2, <1>4, <1>5, <1>6, EndsAre, ReviewStep

LEMMA SavePageKeeps ==
    ASSUME VInv, NEW status \in Statuses, SavePage(status)
    PROVE  VInv'
<1>1. /\ history' = Append(history, "save") /\ page' = [page EXCEPT !.status = status]
      /\ reviews' = Superseded /\ tx' = tx
  BY DEF SavePage
<1>2. page' \in [live : BOOLEAN, status : Statuses]
  BY <1>1, ReviewTypes
<1> QED
  BY <1>1, <1>2, SupersededIs, SavingSettles DEF Ends

\* What an application of suggestions leaves of the reviews.
LEMMA AppliedIs ==
    ASSUME VInv, NEW id \in DOMAIN reviews, NEW applied, ApplyPreparedPageUpdate(id, applied)
    PROVE  /\ reviews' \in Seq(Review) /\ DOMAIN reviews' = DOMAIN reviews /\ Len(reviews') = Len(reviews)
           /\ reviews'[id].open = reviews[id].open \ applied
           /\ \A i \in DOMAIN reviews : i # id => reviews'[i] = Superseded[i]
           /\ \A i \in DOMAIN reviews : /\ reviews'[i].rev = reviews[i].rev
                                        /\ reviews'[i].status = Superseded[i].status
                                        /\ reviews'[i].status \notin Active
<1> DEFINE x == [Superseded[id] EXCEPT !.open = reviews[id].open \ applied]
<1>1. /\ Superseded \in Seq(Review) /\ DOMAIN Superseded = DOMAIN reviews
      /\ Len(Superseded) = Len(reviews) /\ DOMAIN reviews = 1..Len(reviews)
      /\ Superseded[id].open = reviews[id].open
      /\ \A i \in DOMAIN reviews : /\ Superseded[i].rev = reviews[i].rev
                                   /\ Superseded[i].status \notin Active
  BY SupersededIs, ReviewTypes
<1>2. Superseded[id] \in Review
  BY <1>1
<1>3. reviews' = [Superseded EXCEPT ![id] = x]
  BY <1>1 DEF ApplyPreparedPageUpdate
<1>4. /\ x \in Review /\ x.open = reviews[id].open \ applied
      /\ x.rev = reviews[id].rev /\ x.status \notin Active /\ x.status = Superseded[id].status
  BY <1>1, <1>2 DEF Review
<1> HIDE DEF x
<1>5. PICK T \in Seq(Review) : T = Superseded
  BY <1>1
<1>6. /\ reviews' \in Seq(Review) /\ Len(reviews') = Len(reviews) /\ DOMAIN reviews' = DOMAIN reviews
      /\ \A i \in DOMAIN reviews : reviews'[i] = IF i = id THEN x ELSE T[i]
  <2>1. reviews' = [T EXCEPT ![id] = x] /\ id \in 1..Len(T) /\ DOMAIN T = DOMAIN reviews /\ Len(T) = Len(reviews)
    BY <1>1, <1>3, <1>5
  <2> QED
    BY <1>4, <2>1, ExceptSeq
<1> QED
  BY <1>1, <1>4, <1>5, <1>6

LEMMA ApplyKeeps ==
    ASSUME VInv, NEW u \in Clients, ApplyPageReviewSuggestions(u)
    PROVE  VInv'
<1>1. /\ Ends /\ page' = page /\ tx[u] # None /\ tx[u].op = "apply"
      /\ page \in [live : BOOLEAN, status : Statuses]
  BY ReviewTypes DEF ApplyPageReviewSuggestions, Granted, End, Ends
<1>2. tx[u].id \in DOMAIN reviews
  BY <1>1 DEF VInv, Located
<1>3. CASE ApplyPreparedPageUpdate(tx[u].id, tx[u].read)
  <2>1. history' = Append(history, "save")
    BY <1>3 DEF ApplyPreparedPageUpdate
  <2> QED
    BY <1>1, <1>2, <1>3, <2>1, AppliedIs, SavingSettles
<1>4. CASE UNCHANGED <<history, reviews>>
  BY <1>1, <1>4, ReviewsStand
<1> QED
  BY <1>3, <1>4 DEF ApplyPageReviewSuggestions

LEMMA RewriteLinksKeeps ==
    ASSUME VInv, RewriteLinks
    PROVE  VInv'
<1>1. /\ history' = Append(history, "links") /\ page' = page /\ reviews' = reviews /\ tx' = tx
  BY DEF RewriteLinks
<1>2. /\ history \in Seq({"save", "links"}) /\ Len(history) \in Nat /\ Len(reviews) \in Nat
      /\ \A i \in DOMAIN reviews : reviews[i].rev \in 1..Len(history)
      /\ page \in [live : BOOLEAN, status : Statuses] /\ reviews \in Seq(Review)
  BY ReviewTypes DEF VInv
<1>3. /\ history' \in Seq({"save", "links"}) /\ Len(history') = Len(history) + 1
      /\ \A n \in 1..Len(history) : history'[n] = history[n]
      /\ history'[Len(history) + 1] = "links"
  BY <1>1, <1>2, AppendProperties
<1>4. OnePending' /\ Room'
  BY <1>1, EndsAre, ReviewBounds, RoomStands DEF Ends
<1>5. Len(history') >= Len(history) /\ Len(reviews') >= Len(reviews)
  BY <1>1, <1>2, <1>3
<1>6. \A i \in DOMAIN reviews' : reviews'[i].rev \in 1..Len(history')
  BY <1>1, <1>2, <1>3
<1>7. \A n \in (Len(history) + 1)..Len(history') : history'[n] = "links"
  BY <1>2, <1>3
<1> QED
  BY <1>1, <1>2, <1>3, <1>4, <1>5, <1>6, <1>7, EndsAre, ReviewStep DEF Ends

LEMMA ReviewsBegin ==
    ASSUME ReviewInit
    PROVE  VInv
<1>1. /\ page \in [live : {TRUE}, status : Statuses] /\ history = <<"save">> /\ reviews = <<>>
      /\ tx = [u \in Clients |-> None]
  BY DEF ReviewInit
<1>2. history \in Seq({"save", "links"}) /\ Len(history) = 1 /\ reviews \in Seq(Review) /\ DOMAIN reviews = {}
  BY <1>1
<1>3. ReviewTypeOK
  BY <1>1, <1>2 DEF ReviewTypeOK
<1>4. \A u \in Clients : Located(u) /\ Unsaved(u)
  BY <1>1 DEF Located, Unsaved
<1>5. Cardinality(Adding) = 0 /\ MaxSuggestions \in Nat
  <2>1. Adding = {}
    BY <1>1 DEF Adding
  <2> QED
    BY <2>1, FS_EmptySet, ReviewBounds
<1>6. OnePending /\ Room
  BY <1>2, <1>5 DEF OnePending, Room
<1> QED
  BY <1>2, <1>3, <1>4, <1>6 DEF VInv

LEMMA ReviewsKeep ==
    ASSUME VInv, [ReviewNext]_(reviewVars)
    PROVE  VInv'
<1>0. page \in [live : BOOLEAN, status : Statuses] /\ tx \in [Clients -> Tx \cup {None}]
  BY ReviewTypes
<1>1. ASSUME NEW u \in Clients, Requesting(u)
      PROVE  VInv'
  <2>1. ASSUME NEW targets \in Targets, RequestReview(u, targets)
        PROVE  VInv'
    BY <2>1, RequestReviewKeeps
  <2>2. CASE ReviewPageState(u) \/ RequestPageReview(u) \/ CancelPageReview(u)
    BY <2>2, ReviewPageStateKeeps, RequestPageReviewKeeps, CancelPageReviewKeeps
  <2>3. ASSUME NEW id \in DOMAIN reviews, CancelReview(u, id)
        PROVE  VInv'
    BY <2>3, StartsKeep
  <2>4. ASSUME NEW id \in DOMAIN reviews, NEW targets \in Targets, UpdateReview(u, id, targets)
        PROVE  VInv'
    BY <2>4, UpdateReviewKeeps DEF UpdateReview
  <2> QED
    BY <1>1, <2>1, <2>2, <2>3, <2>4 DEF Requesting
<1>2. ASSUME NEW u \in Clients, Deciding(u)
      PROVE  VInv'
  <2>1. ASSUME NEW id \in DOMAIN reviews, DecideReview(u, id)
        PROVE  VInv'
    BY <2>1, StartsKeep
  <2>2. CASE LockReviewPage(u) /\ page.live
    BY <2>2, LockReviewPageKeeps
  <2>3. CASE LockReviewPage(u) /\ ~page.live
    <3>1. Ends /\ page' = page /\ history' = history /\ reviews' = reviews
      BY <2>3 DEF LockReviewPage, End, Ends
    <3> QED
      BY <1>0, <3>1, ReviewsStand
  <2>4. ASSUME NEW decision \in {"approved", "changes_requested"}, DecidePageReview(u, decision)
        PROVE  VInv'
    BY <2>4, DecidePageReviewKeeps
  <2> QED
    BY <1>2, <2>1, <2>2, <2>3, <2>4 DEF Deciding
<1>3. ASSUME NEW u \in Clients, Commenting(u)
      PROVE  VInv'
  <2>1. ASSUME NEW id \in DOMAIN reviews,
               \/ AddReviewComment(u, id)
               \/ \E selected \in SUBSET (1..MaxSuggestions) : ApplyReviewSuggestions(u, id, selected)
        PROVE  VInv'
    BY <2>1, StartsKeep
  <2> QED
    BY <1>3, <2>1, AddPageReviewCommentKeeps, ApplyKeeps DEF Commenting
<1>4. ASSUME NEW u \in Clients, Rollback(u)
      PROVE  VInv'
  <2>1. Ends /\ page' = page /\ history' = history /\ reviews' = reviews
    BY <1>4 DEF Rollback, End, Ends
  <2> QED
    BY <1>0, <2>1, ReviewsStand
<1>5. CASE Writing
  <2>1. ASSUME NEW status \in Statuses, SavePage(status)
        PROVE  VInv'
    BY <2>1, SavePageKeeps
  <2>2. ASSUME NEW status \in Statuses, BulkSetPageStatus(status)
        PROVE  VInv'
    <3>1. Ends /\ page' = [page EXCEPT !.status = status] /\ history' = history /\ reviews' = reviews
      BY <2>2 DEF BulkSetPageStatus, Ends
    <3> QED
      BY <1>0, <3>1, ReviewsStand
  <2>3. ASSUME NEW live \in BOOLEAN, SetLive(live)
        PROVE  VInv'
    <3>1. Ends /\ page' = [page EXCEPT !.live = live] /\ history' = history /\ reviews' = reviews
      BY <2>3 DEF SetLive, Ends
    <3> QED
      BY <1>0, <3>1, ReviewsStand
  <2> QED
    BY <1>5, <2>1, <2>2, <2>3, RewriteLinksKeeps DEF Writing
<1>6. CASE UNCHANGED reviewVars
  <2>1. Ends /\ page' = page /\ history' = history /\ reviews' = reviews
    BY <1>6 DEF reviewVars, Ends
  <2> QED
    BY <1>0, <2>1, ReviewsStand
<1> QED
  BY <1>1, <1>2, <1>3, <1>4, <1>5, <1>6 DEF ReviewNext

\* Reviews, requests and revisions are what a transaction under way takes them to be,
\* whatever the others do between its snapshot and its lock.
THEOREM ReviewInvariance == ReviewSpec => []VInv
<1>1. ReviewInit => VInv
  BY ReviewsBegin
<1>2. VInv /\ [ReviewNext]_(reviewVars) => VInv'
  BY ReviewsKeep
<1> QED
  BY <1>1, <1>2, PTL DEF ReviewSpec

-----------------------------------------------------------------------------
(* What becomes of a review *)

\* A review stays, stays pending, is superseded, or ends in a transaction about it.
Settled(i) ==
    \/ reviews'[i] = reviews[i]
    \/ reviews[i].status = "pending" /\ reviews'[i].status = "pending"
    \/ reviews[i].status \in Active /\ reviews'[i].status = "superseded"
    \/ \E u \in Clients :
          /\ tx[u] # None /\ tx[u].op \in {"cancel", "decide"} /\ tx[u].id = i
          /\ reviews[i].status = "pending" /\ reviews'[i].status # "superseded"
          /\ tx[u].op = "cancel" => reviews'[i].status = "canceled"
          /\ tx[u].op = "decide" => reviews'[i].status \in {"approved", "changes_requested"}
          /\ tx[u].op = "decide" \/ page'.status # page.status => reviews[i].rev = tx[u].rev

LEMMA OutcomeOfRequests ==
    ASSUME VInv, NEW i \in DOMAIN reviews, NEW u \in Clients, Requesting(u)
    PROVE  Settled(i)
<1>0. /\ \A j \in DOMAIN reviews : reviews[j] \in Review
      /\ reviews \in Seq(Review) /\ DOMAIN reviews = 1..Len(reviews) /\ Len(reviews) \in Nat
  BY ReviewTypes DEF VInv
<1>1. ASSUME \/ \E targets \in Targets : RequestReview(u, targets)
             \/ ReviewPageState(u)
             \/ \E id \in DOMAIN reviews : CancelReview(u, id)
      PROVE  Settled(i)
  BY <1>1 DEF Settled, RequestReview, ReviewPageState, CancelReview, Start
<1>2. CASE RequestPageReview(u)
  <2>1. \/ reviews' = reviews
        \/ \E x : reviews' = Append(reviews, x)
    BY <1>2 DEF RequestPageReview
  <2>2. reviews'[i] = reviews[i]
    BY <1>0, <2>1
  <2> QED
    BY <2>2 DEF Settled
<1>3. ASSUME NEW id \in DOMAIN reviews, NEW targets \in Targets, UpdateReview(u, id, targets)
      PROVE  Settled(i)
  <2>1. /\ reviews' = [reviews EXCEPT ![id].reviewers = targets]
        /\ reviews[id].status = "pending"
    BY <1>3 DEF UpdateReview, UpdatePageReview, replacePageReviewers
  <2>2. reviews'[i] = reviews[i] \/ (i = id /\ reviews'[i] = [reviews[i] EXCEPT !.reviewers = targets])
    <3>1. CASE i = id
      BY <1>0, <1>3, <2>1, <3>1
    <3>2. CASE i # id
      BY <1>0, <1>3, <2>1, <3>2
    <3> QED
      BY <3>1, <3>2
  <2>3. reviews[i] \in Review
    BY <1>0
  <2>4. [reviews[i] EXCEPT !.reviewers = targets].status = reviews[i].status
    BY <2>3 DEF Review
  <2> QED
    BY <2>1, <2>2, <2>4 DEF Settled
<1>4. CASE CancelPageReview(u)
  <2>1. tx[u] # None /\ tx[u].op = "cancel"
    BY <1>4 DEF CancelPageReview, Granted
  <2>2. CASE page.live /\ reviews[tx[u].id].status = "pending"
    <3>1. reviews' = [reviews EXCEPT ![tx[u].id].status = "canceled"]
      BY <1>4, <2>2 DEF CancelPageReview
    <3>2. CASE i # tx[u].id
      BY <1>0, <3>1, <3>2 DEF Settled
    <3>3. CASE i = tx[u].id
      <4>1. reviews[i] \in Review
        BY <1>0
      <4>2. reviews'[i] = [reviews[i] EXCEPT !.status = "canceled"]
        BY <3>1, <3>3
      <4>3. reviews'[i].status = "canceled"
        BY <4>1, <4>2 DEF Review
      <4>4. page'.status # page.status => reviews[i].rev = tx[u].rev
        BY <1>4, <2>2, <3>3 DEF CancelPageReview
      <4> QED
        BY <2>1, <2>2, <3>3, <4>3, <4>4 DEF Settled
    <3> QED
      BY <3>2, <3>3
  <2>3. CASE ~(page.live /\ reviews[tx[u].id].status = "pending")
    <3>1. reviews' = reviews
      BY <1>4, <2>3 DEF CancelPageReview
    <3> QED
      BY <3>1 DEF Settled
  <2> QED
    BY <2>2, <2>3
<1> QED
  BY <1>1, <1>2, <1>3, <1>4 DEF Requesting

LEMMA OutcomeOfDecisions ==
    ASSUME VInv, NEW i \in DOMAIN reviews, NEW u \in Clients, Deciding(u)
    PROVE  Settled(i)
<1>1. ASSUME LockReviewPage(u) \/ \E id \in DOMAIN reviews : DecideReview(u, id)
      PROVE  Settled(i)
  BY <1>1 DEF Settled, LockReviewPage, DecideReview, Start
<1>2. ASSUME NEW decision \in {"approved", "changes_requested"}, DecidePageReview(u, decision)
      PROVE  Settled(i)
  <2> DEFINE r == reviews[tx[u].id]
  <2>1. tx[u] # None /\ tx[u].op = "decide"
    BY <1>2 DEF DecidePageReview
  <2>2. CASE r.status = "pending" /\ r.rev = tx[u].rev /\ tx[u].assigned
    <3>1. reviews' = [reviews EXCEPT ![tx[u].id].status = decision]
      BY <1>2, <2>2 DEF DecidePageReview
    <3>2. CASE i # tx[u].id
      BY <3>1, <3>2 DEF Settled, VInv
    <3>3. CASE i = tx[u].id
      <4>1. reviews[i] \in Review
        BY ReviewTypes
      <4>2. reviews'[i] = [reviews[i] EXCEPT !.status = decision]
        BY <3>1, <3>3
      <4>3. reviews'[i].status = decision
        BY <4>1, <4>2 DEF Review
      <4> QED
        BY <2>1, <2>2, <3>3, <4>3 DEF Settled
    <3> QED
      BY <3>2, <3>3
  <2>3. CASE ~(r.status = "pending" /\ r.rev = tx[u].rev /\ tx[u].assigned)
    <3>1. reviews' = reviews
      BY <1>2, <2>3 DEF DecidePageReview
    <3> QED
      BY <3>1 DEF Settled
  <2> QED
    BY <2>2, <2>3
<1> QED
  BY <1>1, <1>2 DEF Deciding

LEMMA OutcomeOfFeedback ==
    ASSUME VInv, NEW i \in DOMAIN reviews, NEW u \in Clients, Commenting(u)
    PROVE  Settled(i)
<1>1. ASSUME \E id \in DOMAIN reviews :
                \/ AddReviewComment(u, id)
                \/ \E selected \in SUBSET (1..MaxSuggestions) : ApplyReviewSuggestions(u, id, selected)
      PROVE  Settled(i)
  BY <1>1 DEF Settled, AddReviewComment, ApplyReviewSuggestions, Start
<1>2. CASE AddPageReviewComment(u)
  <2> DEFINE r == reviews[tx[u].id]
             more == r.open \cup {Cardinality(r.open) + 1}
  <2>1. \/ reviews' = reviews
        \/ r.status = "pending" /\ reviews' = insertPageReviewComment(tx[u].id)
    BY <1>2 DEF AddPageReviewComment
  <2>2. reviews[i] \in Review
    BY ReviewTypes
  <2>3. CASE r.status = "pending" /\ reviews' = insertPageReviewComment(tx[u].id)
    <3>1. CASE i = tx[u].id
      <4>1. reviews'[i] = [reviews[i] EXCEPT !.open = reviews[i].open \cup {Cardinality(reviews[i].open) + 1}]
        BY <2>2, <2>3, <3>1 DEF insertPageReviewComment, Review
      <4>2. reviews'[i].status = reviews[i].status
        BY <2>2, <4>1 DEF Review
      <4> QED
        BY <2>3, <3>1, <4>2 DEF Settled
    <3>2. CASE i # tx[u].id
      <4>1. reviews'[i] = reviews[i]
        BY <2>3, <3>2 DEF insertPageReviewComment
      <4> QED
        BY <4>1 DEF Settled
    <3> QED
      BY <3>1, <3>2
  <2> QED
    BY <2>1, <2>3 DEF Settled
<1>3. CASE ApplyPageReviewSuggestions(u)
  <2>1. \/ reviews' = reviews
        \/ /\ ApplyPreparedPageUpdate(tx[u].id, tx[u].read)
           /\ reviews[tx[u].id].status = "pending"
    BY <1>3 DEF ApplyPageReviewSuggestions
  <2>2. CASE /\ ApplyPreparedPageUpdate(tx[u].id, tx[u].read)
             /\ reviews[tx[u].id].status = "pending"
    <3>1. tx[u].id \in DOMAIN reviews
      BY <1>3 DEF ApplyPageReviewSuggestions, Granted, VInv, Located
    <3>2. /\ reviews'[i].status = Superseded[i].status
          /\ i # tx[u].id => reviews'[i] = Superseded[i]
      BY <2>2, <3>1, AppliedIs
    <3>3. /\ reviews[i].status \in Active => Superseded[i].status = "superseded"
          /\ reviews[i].status \notin Active => Superseded[i] = reviews[i]
      BY SupersededIs
    <3>4. i = tx[u].id => reviews[i].status \in Active
      BY <2>2 DEF Active
    <3> QED
      BY <3>2, <3>3, <3>4 DEF Settled
  <2> QED
    BY <2>1, <2>2 DEF Settled
<1> QED
  BY <1>1, <1>2, <1>3 DEF Commenting

LEMMA Outcomes ==
    ASSUME VInv, ReviewNext, NEW i \in DOMAIN reviews
    PROVE  Settled(i)
<1>1. ASSUME NEW u \in Clients, Rollback(u)
      PROVE  Settled(i)
  BY <1>1 DEF Rollback, Settled
<1>2. CASE Writing
  <2>1. reviews' = reviews \/ reviews' = Superseded
    BY <1>2 DEF Writing, SavePage, BulkSetPageStatus, RewriteLinks, SetLive
  <2> QED
    BY <2>1, SupersededIs DEF Settled
<1> QED
  BY <1>1, <1>2, OutcomeOfRequests, OutcomeOfDecisions, OutcomeOfFeedback DEF ReviewNext

\* A decision, and a cancellation that puts the former status back, never pass over a save
\* (lockReviewPage, validateReviewDecisionState, supersedePageReviews).
THEOREM OutcomesSeeSaves == ReviewSpec => OutcomeSeesSaves
<1> DEFINE A == \A i \in DOMAIN reviews : Decided(i) \/ Restored(i) =>
                   \A n \in (reviews[i].rev + 1)..Len(history) : history[n] = "links"
<1>1. VInv /\ [ReviewNext]_(reviewVars) => [A]_(reviewVars)
  <2> SUFFICES ASSUME VInv, ReviewNext, NEW i \in DOMAIN reviews, Decided(i) \/ Restored(i)
               PROVE  \A n \in (reviews[i].rev + 1)..Len(history) : history[n] = "links"
    OBVIOUS
  <2>1. reviews[i].status = "pending" /\ reviews[i].status \in Active
    BY DEF Decided, Restored, Active
  <2>2. PICK u \in Clients : /\ tx[u] # None /\ tx[u].op \in {"cancel", "decide"} /\ tx[u].id = i
                           /\ reviews[i].rev = tx[u].rev
    <3>1. Settled(i)
      BY Outcomes
    <3> QED
      BY <2>1, <3>1 DEF Settled, Decided, Restored
  <2>3. Unsaved(u)
    BY DEF VInv
  <2> QED
    BY <2>1, <2>2, <2>3 DEF Unsaved
<1> QED
  BY <1>1, ReviewInvariance, PTL DEF OutcomeSeesSaves, ReviewSpec, Newest

\* A closed review never changes again, whatever was under way when it closed.
THEOREM ClosedReviewsAreFinal == ReviewSpec => ClosedIsFinal
<1> DEFINE A == \A i \in DOMAIN reviews : reviews[i].status \in Closed => reviews'[i] = reviews[i]
<1>1. VInv /\ [ReviewNext]_(reviewVars) => [A]_(reviewVars)
  <2> SUFFICES ASSUME VInv, ReviewNext, NEW i \in DOMAIN reviews, reviews[i].status \in Closed
               PROVE  reviews'[i] = reviews[i]
    OBVIOUS
  <2>1. reviews[i].status # "pending" /\ reviews[i].status \notin Active
    BY DEF Closed, Active
  <2>2. Settled(i)
    BY Outcomes
  <2> QED
    BY <2>1, <2>2 DEF Settled
<1> QED
  BY <1>1, ReviewInvariance, PTL DEF ClosedIsFinal, ReviewSpec

\* Suggestions are only applied to the revision they were made on, and "apply all" leaves
\* none behind (prepareReviewSuggestionApplication).
THEOREM SuggestionsApplyToReviewed == ReviewSpec => AppliedOnReviewed
<1> DEFINE A == \A c \in Clients :
                   tx[c] # None /\ tx[c].op = "apply" /\ history' # history /\ tx'[c] = None =>
                   /\ reviews[tx[c].id].rev = Newest
                   /\ tx[c].all => reviews'[tx[c].id].open = {}
<1>1. VInv /\ [ReviewNext]_(reviewVars) => [A]_(reviewVars)
  <2> SUFFICES ASSUME VInv, ReviewNext, NEW u \in Clients, Applies(u)
               PROVE  /\ reviews[tx[u].id].rev = Newest
                      /\ tx[u].all => reviews'[tx[u].id].open = {}
    BY DEF Applies
  <2>1. tx[u] # None /\ tx[u].op = "apply" /\ history' # history /\ tx'[u] # tx[u]
    BY DEF Applies
  <2>2. PICK t \in Clients : ApplyPageReviewSuggestions(t)
    <3>1. ~Writing
      BY <2>1 DEF Writing, SavePage, BulkSetPageStatus, RewriteLinks, SetLive
    <3>2. ASSUME NEW t \in Clients, Requesting(t) \/ Deciding(t) \/ Rollback(t)
          PROVE  FALSE
      BY <2>1, <3>2 DEF Requesting, Deciding, Rollback, RequestReview,
         ReviewPageState, RequestPageReview, CancelReview, UpdateReview,
         UpdatePageReview, CancelPageReview, DecideReview, LockReviewPage,
         DecidePageReview, Start
    <3>3. PICK t \in Clients : Commenting(t)
      BY <3>1, <3>2 DEF ReviewNext
    <3> QED
      BY <2>1, <3>3 DEF Commenting, AddReviewComment, ApplyReviewSuggestions,
         AddPageReviewComment, Start
  <2>3. t = u
    <3>1. tx' = [tx EXCEPT ![t] = None]
      BY <2>2 DEF ApplyPageReviewSuggestions, End
    <3> QED
      BY <2>1, <3>1, ReviewTypes
  <2>4. /\ reviews[tx[u].id].rev = Len(history)
        /\ tx[u].read = lockOpenReviewSuggestions(u)
        /\ ApplyPreparedPageUpdate(tx[u].id, tx[u].read)
    BY <2>1, <2>2, <2>3 DEF ApplyPageReviewSuggestions, sameReviewSuggestionIDs, Newest
  <2>5. tx[u].id \in DOMAIN reviews
    BY <2>1 DEF VInv, Located
  <2>6. reviews'[tx[u].id].open = reviews[tx[u].id].open \ tx[u].read
    BY <2>4, <2>5, AppliedIs
  <2> QED
    BY <2>4, <2>6 DEF lockOpenReviewSuggestions, Newest
<1> QED
  BY <1>1, ReviewInvariance, PTL DEF AppliedOnReviewed, ReviewSpec, Applies

\* Every variable of the reviews has its type: a review is about a revision there is, and
\* has no more suggestions than fit.
THEOREM ReviewTypeCorrectness == ReviewSpec => []ReviewTypeOK
<1>1. VInv => ReviewTypeOK
  BY DEF VInv
<1> QED
  BY <1>1, ReviewInvariance, PTL
=============================================================================
