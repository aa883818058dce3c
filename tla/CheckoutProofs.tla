--------------------------- MODULE CheckoutProofs ---------------------------
(***************************************************************************)
(* What POST /orders guarantees for every set of requests and keys, every  *)
(* assignment of keys to requests and any number of crashes: the key       *)
(* identifies the order, and every charge is accounted for.                *)
(***************************************************************************)
EXTENDS Checkout, TLAPS

\* The strengthening: the UNIQUE constraint as it is seen from outside, what a
\* request that has not ended has not done yet, and that the answer it holds
\* is one the gateway gave it.
OneRowPerKey == \A p, q \in orders : p.key = q.key => p = q
RowsCarryTheirKey == \A row \in orders : row.key = KeyOf[row.id]
UnansweredUntilDone == \A r \in Request : requests[r].pc # "done" => replies[r] = NoReply
HeldAnswerIsCharged ==
    \A r \in Request : requests[r].pc = "insert" =>
        [req |-> r, answer |-> requests[r].answer] \in charges
NamedOrderExists ==
    \A r \in Request : replies[r].order # NoOrder =>
        \E row \in orders : row.id = replies[r].order /\ row.key = KeyOf[r]

IInv == /\ TypeOK /\ OneRowPerKey /\ RowsCarryTheirKey /\ UnansweredUntilDone
        /\ HeldAnswerIsCharged /\ NamedOrderExists /\ ConflictIsResolved
        /\ ChargesAreAccounted

-----------------------------------------------------------------------------
\* A reply of a request and what it does to the two tables it is kept in.
LEMMA ReplyShape ==
    ASSUME TypeOK, NEW r \in Request, NEW outcome \in Outcome,
           NEW id \in Request \union {NoOrder}, Reply(r, outcome, id)
    PROVE  /\ requests' \in [Request -> [pc : {"ready", "charge", "insert", "done"},
                                         answer : Answer]]
           /\ replies' \in [Request -> [outcome : Outcome, order : Request \union {NoOrder}]]
           /\ requests'[r].pc = "done"
           /\ replies'[r].outcome = outcome /\ replies'[r].order = id
           /\ \A s \in Request \ {r} : requests'[s] = requests[s] /\ replies'[s] = replies[s]
BY DEF TypeOK, Reply

LEMMA Start == Init => IInv
<1> SUFFICES ASSUME Init PROVE IInv
  OBVIOUS
<1>1. TypeOK
  BY BoundAssumption DEF Init, TypeOK, Answer, NoReply, Outcome
<1>2. OneRowPerKey /\ RowsCarryTheirKey /\ UnansweredUntilDone /\ HeldAnswerIsCharged
  BY DEF Init, OneRowPerKey, RowsCarryTheirKey, UnansweredUntilDone, HeldAnswerIsCharged
<1>3. NamedOrderExists /\ ConflictIsResolved /\ ChargesAreAccounted
  BY DEF Init, NamedOrderExists, ConflictIsResolved, ChargesAreAccounted, NoReply
<1>4. QED
  BY <1>1, <1>2, <1>3 DEF IInv

-----------------------------------------------------------------------------
\* A request ends and no row is written: the SELECT found an order, the INSERT
\* met the UNIQUE constraint, or the request failed.
LEMMA EndsWithoutRow ==
    ASSUME IInv, NEW r \in Request, NEW outcome \in {"existing", "conflict", "error"},
           NEW id \in Request \union {NoOrder}, Reply(r, outcome, id),
           requests[r].pc # "done", faults' \in Nat, UNCHANGED <<orders, charges>>,
           id # NoOrder => \E row \in orders : row.id = id /\ row.key = KeyOf[r],
           outcome = "conflict" => OrdersOf(KeyOf[r]) # {},
           outcome = "existing" => requests[r].pc = "ready"
    PROVE  IInv'
<1> USE DEF IInv
<1>1. /\ requests' \in [Request -> [pc : {"ready", "charge", "insert", "done"}, answer : Answer]]
      /\ replies' \in [Request -> [outcome : Outcome, order : Request \union {NoOrder}]]
      /\ requests'[r].pc = "done"
      /\ replies'[r].outcome = outcome /\ replies'[r].order = id
      /\ \A s \in Request \ {r} : requests'[s] = requests[s] /\ replies'[s] = replies[s]
  <2>1. outcome \in Outcome
    BY DEF Outcome
  <2> QED
    BY <2>1, ReplyShape
<1>2. TypeOK'
  BY <1>1 DEF TypeOK
<1>3. OneRowPerKey' /\ RowsCarryTheirKey'
  BY DEF OneRowPerKey, RowsCarryTheirKey
<1>4. UnansweredUntilDone' /\ HeldAnswerIsCharged'
  BY <1>1 DEF UnansweredUntilDone, HeldAnswerIsCharged
<1>5. NamedOrderExists' /\ ConflictIsResolved'
  BY <1>1 DEF NamedOrderExists, ConflictIsResolved, OrdersOf
<1>6. ChargesAreAccounted'
  <2>1. replies[r].outcome = "none"
    BY DEF UnansweredUntilDone, NoReply
  <2> QED
    BY <1>1, <2>1 DEF ChargesAreAccounted, TypeOK
<1> QED
  BY <1>2, <1>3, <1>4, <1>5, <1>6

\* A request ends and its row is committed, whether or not the client hears
\* of it.
LEMMA EndsWithRow ==
    ASSUME IInv, NEW r \in Request, requests[r].pc = "insert", OrdersOf(KeyOf[r]) = {},
           orders' = orders \union {[id |-> r, key |-> KeyOf[r],
                                     payment |-> requests[r].answer]},
           NEW outcome \in {"created", "error"}, NEW id \in {r, NoOrder},
           Reply(r, outcome, id), faults' \in Nat, charges' = charges
    PROVE  IInv'
<1> USE DEF IInv
<1>1. /\ requests' \in [Request -> [pc : {"ready", "charge", "insert", "done"}, answer : Answer]]
      /\ replies' \in [Request -> [outcome : Outcome, order : Request \union {NoOrder}]]
      /\ requests'[r].pc = "done"
      /\ replies'[r].outcome = outcome /\ replies'[r].order = id
      /\ \A s \in Request \ {r} : requests'[s] = requests[s] /\ replies'[s] = replies[s]
  <2>1. outcome \in Outcome /\ id \in Request \union {NoOrder}
    BY DEF Outcome
  <2> QED
    BY <2>1, ReplyShape
<1> DEFINE new == [id |-> r, key |-> KeyOf[r], payment |-> requests[r].answer]
<1>2. new \in OrderRow
  BY KeyAssumption DEF OrderRow, TypeOK
<1>3. TypeOK'
  BY <1>1, <1>2 DEF TypeOK
<1>4. OneRowPerKey' /\ RowsCarryTheirKey'
  BY DEF OneRowPerKey, RowsCarryTheirKey, OrdersOf
<1>5. UnansweredUntilDone' /\ HeldAnswerIsCharged'
  BY <1>1 DEF UnansweredUntilDone, HeldAnswerIsCharged
<1>6. NamedOrderExists'
  <2> SUFFICES ASSUME NEW s \in Request, replies'[s].order # NoOrder
               PROVE  \E row \in orders' : row.id = replies'[s].order /\ row.key = KeyOf[s]
    BY DEF NamedOrderExists
  <2>1. CASE s = r
    <3>1. new \in orders' /\ new.id = replies'[s].order /\ new.key = KeyOf[s]
      BY <1>1, <2>1
    <3> QED
      BY <3>1
  <2>2. CASE s # r
    BY <1>1, <2>2 DEF NamedOrderExists
  <2> QED
    BY <2>1, <2>2
<1>7. ConflictIsResolved'
  BY <1>1 DEF ConflictIsResolved, OrdersOf
<1>8. ChargesAreAccounted'
  <2>1. [req |-> r, answer |-> requests[r].answer] \in charges
    BY DEF HeldAnswerIsCharged
  <2>2. new \in orders' /\ new.id = r
    OBVIOUS
  <2>3. \A row \in orders' : [req |-> row.id, answer |-> row.payment] \in charges'
    <3>1. orders' = orders \union {new} /\ charges' = charges
      OBVIOUS
    <3>2. [req |-> new.id, answer |-> new.payment] \in charges
      BY <2>1
    <3> HIDE DEF new
    <3> QED
      BY <3>1, <3>2 DEF ChargesAreAccounted
  <2>4. ASSUME NEW c \in charges'
        PROVE  \/ \E row \in orders' : row.id = c.req
               \/ requests'[c.req].pc = "insert"
               \/ replies'[c.req].outcome \in {"conflict", "error"}
    <3>1. CASE c.req = r
      BY <3>1, <2>2
    <3>2. CASE c.req # r
      BY <3>2, <1>1 DEF ChargesAreAccounted, TypeOK
    <3> QED
      BY <3>1, <3>2
  <2> QED
    BY <2>3, <2>4 DEF ChargesAreAccounted
<1> QED
  BY <1>3, <1>4, <1>5, <1>6, <1>7, <1>8

\* One step per action of a request.
LEMMA Step == IInv /\ [Next]_vars => IInv'
<1> SUFFICES ASSUME IInv, [Next]_vars PROVE IInv'
  OBVIOUS
<1> USE DEF IInv
<1>0. faults \in Nat /\ faults + 1 \in Nat
  BY DEF TypeOK
<1>1. ASSUME NEW r \in Request, FindExisting(r) PROVE IInv'
  <2>1. PICK row \in OrdersOf(KeyOf[r]) : Reply(r, "existing", row.id)
    BY <1>1 DEF FindExisting
  <2>2. row \in orders /\ row.key = KeyOf[r] /\ row.id \in Request
    BY DEF OrdersOf, TypeOK, OrderRow
  <2> QED
    BY <1>0, <1>1, <2>1, <2>2, EndsWithoutRow DEF FindExisting
<1>2. ASSUME NEW r \in Request, FindNothing(r) PROVE IInv'
  <2>1. /\ requests' \in [Request -> [pc : {"ready", "charge", "insert", "done"}, answer : Answer]]
        /\ requests'[r].pc = "charge" /\ requests[r].pc = "ready"
        /\ \A s \in Request \ {r} : requests'[s] = requests[s]
        /\ UNCHANGED <<orders, charges, replies, faults>>
    BY <1>2 DEF FindNothing, TypeOK
  <2>2. TypeOK' /\ OneRowPerKey' /\ RowsCarryTheirKey'
    BY <2>1 DEF TypeOK, OneRowPerKey, RowsCarryTheirKey
  <2>3. UnansweredUntilDone' /\ HeldAnswerIsCharged'
    BY <2>1 DEF UnansweredUntilDone, HeldAnswerIsCharged
  <2>4. NamedOrderExists' /\ ConflictIsResolved'
    BY <2>1 DEF NamedOrderExists, ConflictIsResolved, OrdersOf
  <2>5. ChargesAreAccounted'
    BY <2>1 DEF ChargesAreAccounted, TypeOK
  <2> QED
    BY <2>2, <2>3, <2>4, <2>5
<1>3. ASSUME NEW r \in Request, ChargeCard(r) PROVE IInv'
  <2>1. PICK a \in Answer :
          /\ charges' = charges \union {[req |-> r, answer |-> a]}
          /\ requests' = [requests EXCEPT ![r] = [pc |-> "insert", answer |-> a]]
    BY <1>3 DEF ChargeCard
  <2>2. /\ requests' \in [Request -> [pc : {"ready", "charge", "insert", "done"}, answer : Answer]]
        /\ requests'[r].pc = "insert" /\ requests'[r].answer = a /\ requests[r].pc = "charge"
        /\ \A s \in Request \ {r} : requests'[s] = requests[s]
        /\ UNCHANGED <<orders, replies, faults>>
    BY <1>3, <2>1 DEF ChargeCard, TypeOK
  <2>3. TypeOK' /\ OneRowPerKey' /\ RowsCarryTheirKey'
    BY <2>1, <2>2 DEF TypeOK, OneRowPerKey, RowsCarryTheirKey
  <2>4. UnansweredUntilDone' /\ HeldAnswerIsCharged'
    BY <2>1, <2>2 DEF UnansweredUntilDone, HeldAnswerIsCharged
  <2>5. NamedOrderExists' /\ ConflictIsResolved'
    BY <2>2 DEF NamedOrderExists, ConflictIsResolved, OrdersOf
  <2>6. ChargesAreAccounted'
    BY <2>1, <2>2 DEF ChargesAreAccounted, TypeOK
  <2> QED
    BY <2>3, <2>4, <2>5, <2>6
<1>4. ASSUME NEW r \in Request, InsertOrder(r) PROVE IInv'
  BY <1>0, <1>4, EndsWithRow DEF InsertOrder
<1>5. ASSUME NEW r \in Request, InsertConflicts(r) PROVE IInv'
  BY <1>0, <1>5, EndsWithoutRow DEF InsertConflicts
<1>6. ASSUME NEW r \in Request, InsertFails(r) PROVE IInv'
  <2>1. CASE orders' = orders
    BY <1>0, <1>6, <2>1, EndsWithoutRow DEF InsertFails
  <2>2. CASE orders' # orders
    BY <1>0, <1>6, <2>2, EndsWithRow DEF InsertFails
  <2> QED
    BY <2>1, <2>2
<1>7. ASSUME NEW r \in Request, Crash(r) PROVE IInv'
  BY <1>0, <1>7, EndsWithoutRow DEF Crash
<1>8. CASE UNCHANGED vars
  BY <1>8 DEF vars, TypeOK, OneRowPerKey, RowsCarryTheirKey, UnansweredUntilDone,
              HeldAnswerIsCharged, NamedOrderExists, ConflictIsResolved, ChargesAreAccounted,
              OrdersOf
<1> QED
  BY <1>1, <1>2, <1>3, <1>4, <1>5, <1>6, <1>7, <1>8 DEF Next, RequestStep

LEMMA Always == Spec => []IInv
<1> QED
  BY Start, Step, PTL DEF Spec

-----------------------------------------------------------------------------
\* Every state is well typed (createOrder and the rows it writes).
THEOREM CheckoutTyped == Spec => []TypeOK
<1>1. IInv => TypeOK
  BY DEF IInv
<1> QED
  BY <1>1, Always, PTL

\* The idempotency key identifies the order: requests with one key that are
\* answered with an order are answered with the same, committed one.
THEOREM RepliesAlwaysAgree == Spec => []RepliesAgree
<1>1. IInv => RepliesAgree
  BY DEF IInv, RepliesAgree, NamedOrderExists, OneRowPerKey
<1> QED
  BY <1>1, Always, PTL

\* Behind every 409 there is a committed order that a repeated request finds.
THEOREM ConflictsAreResolved == Spec => []ConflictIsResolved
<1>1. IInv => ConflictIsResolved
  BY DEF IInv
<1> QED
  BY <1>1, Always, PTL

\* A payment row holds an answer the gateway really gave its request, and a
\* charge without an order of its own ended in a conflict or an error.
THEOREM ChargesAlwaysAccounted == Spec => []ChargesAreAccounted
<1>1. IInv => ChargesAreAccounted
  BY DEF IInv
<1> QED
  BY <1>1, Always, PTL
=============================================================================
