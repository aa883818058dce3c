------------------------------ MODULE Checkout ------------------------------
(***************************************************************************)
(* POST /orders of the API (OrdersService.createOrder): concurrent         *)
(* requests that carry idempotency keys, the payment gateway that is       *)
(* charged before the transaction, and the transaction that inserts the    *)
(* order, its payment and two outbox events.                               *)
(*                                                                         *)
(* A request names its order by a fresh UUID; here the request itself is   *)
(* the id.  A client that retries is another request with the same key.    *)
(***************************************************************************)
EXTENDS Integers, FiniteSets

CONSTANTS Request,    \* requests, and the order ids they generate
          NoOrder,    \* the order of a reply that names none
          Key,        \* idempotency keys
          KeyOf,      \* Request -> the key of its header
          MaxFaults   \* bound: crashes of the API and transactions that fail

ASSUME KeyAssumption == KeyOf \in [Request -> Key] /\ NoOrder \notin Request
ASSUME BoundAssumption == IsFiniteSet(Request) /\ MaxFaults \in Nat

Answer == {"confirmed", "failed", "unknown"}
Outcome == {"none", "created", "existing", "conflict", "error"}

VARIABLES orders,    \* the committed orders, each with its payment and events
          charges,   \* charge() calls made, as [req, answer]
          requests,  \* Request -> [pc, answer]
          replies,   \* Request -> [outcome, order]
          faults     \* count of the bounded faults

vars == <<orders, charges, requests, replies, faults>>

\* payment: the gateway's answer the row was inserted with.
OrderRow == [id : Request, key : Key, payment : Answer]
NoReply == [outcome |-> "none", order |-> NoOrder]

Init == /\ orders = {}
        /\ charges = {}
        /\ requests = [r \in Request |-> [pc |-> "ready", answer |-> "unknown"]]
        /\ replies = [r \in Request |-> NoReply]
        /\ faults = 0

OrdersOf(k) == {row \in orders : row.key = k}

\* The request ends with an answer to the client.
Reply(r, outcome, id) ==
    /\ requests' = [requests EXCEPT ![r].pc = "done"]
    /\ replies' = [replies EXCEPT ![r] = [outcome |-> outcome, order |-> id]]

-----------------------------------------------------------------------------
\* The SELECT by idempotency key finds an order: answer it, charge nothing.
FindExisting(r) ==
    /\ requests[r].pc = "ready"
    /\ \E row \in OrdersOf(KeyOf[r]) : Reply(r, "existing", row.id)
    /\ UNCHANGED <<orders, charges, faults>>

\* The SELECT finds nothing.
FindNothing(r) ==
    /\ requests[r].pc = "ready" /\ OrdersOf(KeyOf[r]) = {}
    /\ requests' = [requests EXCEPT ![r].pc = "charge"]
    /\ UNCHANGED <<orders, charges, replies, faults>>

\* The gateway is charged, outside of any transaction.
ChargeCard(r) ==
    /\ requests[r].pc = "charge"
    /\ \E a \in Answer :
          /\ charges' = charges \union {[req |-> r, answer |-> a]}
          /\ requests' = [requests EXCEPT ![r] = [pc |-> "insert", answer |-> a]]
    /\ UNCHANGED <<orders, replies, faults>>

\* Mutants: the table has no UNIQUE constraint on the key; the row is
\* inserted as confirmed whatever the gateway answered.
MutantInsertDuplicate(r) ==
    /\ requests[r].pc = "insert"
    /\ orders' = orders \union {[id |-> r, key |-> KeyOf[r], payment |-> requests[r].answer]}
    /\ Reply(r, "created", r)
    /\ UNCHANGED <<charges, faults>>
MutantInsertConfirmed(r) ==
    /\ requests[r].pc = "insert" /\ OrdersOf(KeyOf[r]) = {}
    /\ orders' = orders \union {[id |-> r, key |-> KeyOf[r], payment |-> "confirmed"]}
    /\ Reply(r, "created", r)
    /\ UNCHANGED <<charges, faults>>

\* BEGIN ... COMMIT of the order, the payment and the two outbox events.
InsertOrder(r) ==
    /\ requests[r].pc = "insert" /\ OrdersOf(KeyOf[r]) = {}
    /\ orders' = orders \union {[id |-> r, key |-> KeyOf[r], payment |-> requests[r].answer]}
    /\ Reply(r, "created", r)
    /\ UNCHANGED <<charges, faults>>

\* The UNIQUE constraint on idempotency_key (23505) turns into a 409.
InsertConflicts(r) ==
    /\ requests[r].pc = "insert" /\ OrdersOf(KeyOf[r]) # {}
    /\ Reply(r, "conflict", NoOrder)
    /\ UNCHANGED <<orders, charges, faults>>

\* The transaction fails for another reason: rolled back, or committed with
\* the acknowledgement lost.
InsertFails(r) ==
    /\ requests[r].pc = "insert" /\ OrdersOf(KeyOf[r]) = {}
    /\ faults < MaxFaults
    /\ faults' = faults + 1
    /\ orders' \in {orders, orders \union {[id |-> r, key |-> KeyOf[r],
                                            payment |-> requests[r].answer]}}
    /\ Reply(r, "error", NoOrder)
    /\ UNCHANGED charges

\* The API process dies; the client sees an error.
Crash(r) ==
    /\ requests[r].pc \in {"charge", "insert"} /\ faults < MaxFaults
    /\ faults' = faults + 1
    /\ Reply(r, "error", NoOrder)
    /\ UNCHANGED <<orders, charges>>

RequestStep(r) == \/ FindExisting(r) \/ FindNothing(r) \/ ChargeCard(r)
                  \/ InsertOrder(r) \/ InsertConflicts(r)

Next == \E r \in Request : RequestStep(r) \/ InsertFails(r) \/ Crash(r)

Spec == Init /\ [][Next]_vars

-----------------------------------------------------------------------------
\* Type invariant.
TypeOK == /\ orders \subseteq OrderRow
          /\ charges \subseteq [req : Request, answer : Answer]
          /\ requests \in [Request -> [pc : {"ready", "charge", "insert", "done"},
                                       answer : Answer]]
          /\ replies \in [Request -> [outcome : Outcome, order : Request \union {NoOrder}]]
          /\ faults \in Nat

\* The idempotency key identifies the order: however requests with one key
\* interleave, every one that is answered with an order is answered with the
\* same one, and that order is committed.
RepliesAgree ==
    \A r \in Request : replies[r].order # NoOrder =>
        /\ \E row \in orders : row.id = replies[r].order /\ row.key = KeyOf[r]
        /\ \A s \in Request : /\ KeyOf[s] = KeyOf[r]
                              /\ replies[s].order # NoOrder
                              => replies[s].order = replies[r].order

\* A 409 is not a dead end: the order of the key is committed, so a client
\* that repeats the request is answered with it.
ConflictIsResolved ==
    \A r \in Request : replies[r].outcome = "conflict" => OrdersOf(KeyOf[r]) # {}

\* The row tells what the gateway answered the request that wrote it, and a
\* reused key is charged again only by a request that read no order before.
\* A charge without an order of its own ended in a conflict, an error, or is
\* still under way.
ChargesAreAccounted ==
    /\ \A row \in orders : [req |-> row.id, answer |-> row.payment] \in charges
    /\ \A c \in charges :
          \/ \E row \in orders : row.id = c.req
          \/ requests[c.req].pc = "insert"
          \/ replies[c.req].outcome \in {"conflict", "error"}

\* The documented elimination of "missed account reconciliations": once its
\* request has ended, a confirmed charge has an order under its key, so a
\* payment row that the reconciliation job can find.
ChargedIsRecorded ==
    \A c \in charges : c.answer = "confirmed" /\ requests[c.req].pc = "done"
                           => OrdersOf(KeyOf[c.req]) # {}
=============================================================================
