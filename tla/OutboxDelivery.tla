--------------------------- MODULE OutboxDelivery ---------------------------
(***************************************************************************)
(* What the transactional outbox promises, with the database, the claims,  *)
(* the retries and the crashes of the outbox worker abstracted away.       *)
(*                                                                         *)
(* An event is recorded by the transaction that writes its row.  It may    *)
(* then reach Kafka, any number of times, and the row may be settled       *)
(* (marked as sent) only once it did: delivery is at least once.           *)
(***************************************************************************)
CONSTANT Event

VARIABLES recorded,   \* events whose row is committed
          delivered,  \* events of which Kafka holds at least one copy
          settled     \* events whose row is marked as sent

vars == <<recorded, delivered, settled>>

Init == recorded = {} /\ delivered = {} /\ settled = {}

Record(e) == /\ e \notin recorded
             /\ recorded' = recorded \union {e}
             /\ UNCHANGED <<delivered, settled>>

Deliver(e) == /\ e \in recorded \ delivered
              /\ delivered' = delivered \union {e}
              /\ UNCHANGED <<recorded, settled>>

Settle(e) == /\ e \in delivered \ settled
             /\ settled' = settled \union {e}
             /\ UNCHANGED <<recorded, delivered>>

Next == \E e \in Event : Record(e) \/ Deliver(e) \/ Settle(e)

Spec == Init /\ [][Next]_vars
=============================================================================
