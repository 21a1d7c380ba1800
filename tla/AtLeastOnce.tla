----------------------------- MODULE AtLeastOnce -----------------------------
(***************************************************************************)
(* What a durable queue promises of the events it has accepted: each is    *)
(* delivered at least once before it leaves the queue, and leaves it in    *)
(* the end.  Deliveries may be repeated, in any order.                     *)
(***************************************************************************)
CONSTANT Events

VARIABLES
    pending,   \* accepted and still in the queue
    delivered  \* delivered at least once

queueVars == <<pending, delivered>>

QueueInit == pending = {} /\ delivered = {}

\* Events that were never delivered come in, several at a time.
Accept ==
    /\ pending \subseteq pending'
    /\ (pending' \ pending) \cap delivered = {}
    /\ UNCHANGED delivered

DeliverEvent(e) == delivered' = delivered \cup {e} /\ UNCHANGED pending

RemoveEvent(e) ==
    /\ e \in delivered
    /\ pending' = pending \ {e}
    /\ UNCHANGED delivered

QueueNext == Accept \/ \E e \in pending : DeliverEvent(e) \/ RemoveEvent(e)

QueueSafety == QueueInit /\ [][QueueNext]_queueVars
QueueLiveness == \A e \in Events : e \in pending ~> e \in delivered \ pending

QueueSpec == QueueSafety /\ QueueLiveness
=============================================================================
