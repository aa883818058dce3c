-------------------------- MODULE PaymentSagaProofs --------------------------
(***************************************************************************)
(* The payment saga keeps order, payment and announced events in agreement,*)
(* and confirms nothing the gateway has not captured, for any number of    *)
(* orders, webhooks, verifiers and overlapping runs of the job.            *)
(*                                                                         *)
(* Four parties write the same rows on the word of the gateway, some of    *)
(* them long after they heard it.  What saves ConfirmedIsCaptured is that  *)
(* a charge once confirmed stays so, so that whoever heard it is right;    *)
(* and every writer may assume a row, as work is created only for one.     *)
(* The second half counts settlements and holders, and shows the           *)
(* refinement of PaymentLifecycle.                                         *)
(***************************************************************************)
EXTENDS PaymentSaga, FiniteSetTheorems, TLAPS

Opened(o) == payments[o] # "none"

\* What a verifier works on exists, and the confirmation it heard is true.
VerifierRight(w) ==
    /\ w.pc # "idle" => w.ord \in Order
    /\ w.ord \in Order => Opened(w.ord)
    /\ w.pc = "apply" => w.found \in {"confirmed", "failed"}
    /\ w.pc = "apply" /\ w.found = "confirmed" => gateway[w.ord] = "confirmed"

\* The same of a run of the job.
ReconcilerRight(s) ==
    /\ \A o \in s.batch : Opened(o)
    /\ s.pc \notin {"idle", "lookup"} => s.ord \in s.batch
    /\ s.pc = "apply" => s.found \in {"confirmed", "failed"}
    /\ s.pc = "apply" /\ s.found = "confirmed" => gateway[s.ord] = "confirmed"

WorkersRight == /\ \A v \in Verifier : VerifierRight(verifiers[v])
                /\ \A r \in Reconciler : ReconcilerRight(reconcilers[r])

\* The same of what is on its way: messages, webhooks and a checkout's answer.
UnderWayRight ==
    /\ \A o \in Order : /\ topic[o] > 0 \/ o \in dlq => Opened(o)
                        /\ answer[o] = "confirmed" => gateway[o] = "confirmed"
    /\ \A h \in Webhook :
          hooks[h] # NotIssued =>
             /\ hooks[h].ord \in Order
             /\ hooks[h].status = "confirmed" => gateway[hooks[h].ord] = "confirmed"
    /\ \A h \in handled : hooks[h] # NotIssued /\ Opened(hooks[h].ord)

\* The status of a payment has been announced.
StatusAnnounced ==
    \A o \in Order : Opened(o) => EventOf[payments[o]] \in announced[o]

Rows == ConfirmedIsCaptured /\ OrderAgreesWithPayment /\ StatusAnnounced

SagaInv == TypeOK /\ WorkersRight /\ UnderWayRight /\ Rows

\* No payment is forgotten and no confirmation is taken back.
Forward == \A x \in Order : /\ Opened(x) => Opened(x)'
                            /\ gateway[x] = "confirmed" => gateway'[x] = "confirmed"

-----------------------------------------------------------------------------
\* What a committed transition leaves in the rows of its order.
LEMMA TransitionEffect ==
    ASSUME TypeOK, NEW o \in Order, NEW s \in HookStatus, Transition(o, s)
    PROVE  /\ orders' \in [Order -> OrderStatus] /\ payments' \in [Order -> PaymentStatus]
           /\ announced' \in [Order -> SUBSET EventType] /\ settlements' \in [Order -> Nat]
           /\ topic' \in [Order -> Nat]
           /\ \A x \in Order \ {o} :
                 /\ orders'[x] = orders[x] /\ payments'[x] = payments[x]
                 /\ announced'[x] = announced[x] /\ settlements'[x] = settlements[x]
                 /\ topic'[x] = topic[x]
           /\ payments'[o] \in {"CONFIRMED", "FAILED", "PENDING_VERIFICATION"}
           /\ payments'[o] = "CONFIRMED" <=> s = "confirmed"
           /\ payments'[o] = "PENDING_VERIFICATION" <=> s = "unknown"
           /\ orders'[o] = OrderOf[payments'[o]]
           /\ announced'[o] = announced[o] \union {EventOf[payments'[o]]}
           /\ settlements'[o] = settlements[o] + (IF s = "unknown" THEN 0 ELSE 1)
<1>t. /\ orders \in [Order -> OrderStatus] /\ payments \in [Order -> PaymentStatus]
      /\ announced \in [Order -> SUBSET EventType] /\ settlements \in [Order -> Nat]
      /\ topic \in [Order -> Nat]
    BY DEF TypeOK
<1>1. CASE s = "confirmed"
  <2>1. Write(o, "CONFIRMED", "CONFIRMED", "confirmed")
      BY <1>1 DEF Transition
  <2> QED
      BY <1>1, <1>t, <2>1 DEF Write, OrderOf, EventOf, OrderStatus, PaymentStatus, EventType
<1>2. CASE s = "failed"
  <2>1. Write(o, "CANCELED", "FAILED", "failed")
      BY <1>2 DEF Transition
  <2> QED
      BY <1>2, <1>t, <2>1 DEF Write, OrderOf, EventOf, OrderStatus, PaymentStatus, EventType
<1>3. CASE s = "unknown"
  <2>1. Write(o, "PENDING", "PENDING_VERIFICATION", "verification.requested")
      BY <1>3 DEF Transition
  <2> QED
      BY <1>3, <1>t, <2>1 DEF Write, OrderOf, EventOf, OrderStatus, PaymentStatus, EventType
<1> QED
    BY <1>1, <1>2, <1>3 DEF HookStatus

\* A transition on a word that is true keeps the rows right.
LEMMA TransitionKeepsRows ==
    ASSUME TypeOK, Rows, NEW o \in Order, NEW s \in HookStatus, Transition(o, s),
           gateway' = gateway, s = "confirmed" => gateway[o] = "confirmed"
    PROVE  Rows' /\ Forward /\ Opened(o)'
<1>1. /\ payments'[o] \in {"CONFIRMED", "FAILED", "PENDING_VERIFICATION"}
      /\ payments'[o] = "CONFIRMED" <=> s = "confirmed"
      /\ orders'[o] = OrderOf[payments'[o]]
      /\ EventOf[payments'[o]] \in announced'[o]
      /\ \A x \in Order \ {o} : /\ orders'[x] = orders[x] /\ payments'[x] = payments[x]
                                /\ announced'[x] = announced[x]
    BY TransitionEffect
<1>2. ConfirmedIsCaptured'
    BY <1>1 DEF Rows, ConfirmedIsCaptured
<1>3. OrderAgreesWithPayment'
    BY <1>1 DEF Rows, OrderAgreesWithPayment, OrderOf
<1>4. StatusAnnounced'
    BY <1>1 DEF Rows, StatusAnnounced, Opened, EventOf
<1>5. Forward /\ Opened(o)'
    BY <1>1 DEF Forward, Opened
<1> QED
    BY <1>2, <1>3, <1>4, <1>5 DEF Rows

\* A step that leaves rows and events alone keeps them right: the gateway
\* takes nothing back.
LEMMA RowsUntouched ==
    ASSUME Rows, UNCHANGED <<orders, payments, announced>>,
           \A o \in Order : gateway[o] = "confirmed" => gateway'[o] = "confirmed"
    PROVE  Rows' /\ Forward
BY DEF Rows, ConfirmedIsCaptured, OrderAgreesWithPayment, StatusAnnounced, Opened, Forward

\* A settlement is a transition, or nothing.  It sends no message.
LEMMA SettleEffect ==
    ASSUME TypeOK, Rows, NEW o \in Order, NEW s \in {"confirmed", "failed"},
           SettlePayment(o, s) \/ NoWrite, gateway' = gateway,
           s = "confirmed" => gateway[o] = "confirmed"
    PROVE  /\ orders' \in [Order -> OrderStatus] /\ payments' \in [Order -> PaymentStatus]
           /\ announced' \in [Order -> SUBSET EventType] /\ settlements' \in [Order -> Nat]
           /\ topic' = topic
           /\ Rows' /\ Forward
<1>1. CASE NoWrite
    BY <1>1, RowsUntouched DEF NoWrite, TypeOK
<1>2. CASE ~NoWrite
  <2>1. Transition(o, s) /\ s \in HookStatus
      BY <1>2 DEF SettlePayment, HookStatus, NoWrite
  <2>2. topic' = topic
      BY <2>1 DEF Transition, Write
  <2> QED
      BY <2>1, <2>2, TransitionEffect, TransitionKeepsRows
<1> QED
    BY <1>1, <1>2

-----------------------------------------------------------------------------
\* What a worker heard and works on stays right.
LEMMA RightStays ==
    ASSUME Forward
    PROVE  /\ \A w \in VerifierState : VerifierRight(w) => VerifierRight(w)'
           /\ \A s \in ReconcilerState : ReconcilerRight(s) => ReconcilerRight(s)'
BY DEF Forward, VerifierState, ReconcilerState, VerifierRight, ReconcilerRight

LEMMA WorkersAtRest ==
    ASSUME TypeOK, WorkersRight, Forward, UNCHANGED <<verifiers, reconcilers>>
    PROVE  WorkersRight'
<1>1. /\ \A v \in Verifier : verifiers[v] \in VerifierState
      /\ \A r \in Reconciler : reconcilers[r] \in ReconcilerState
    BY DEF TypeOK
<1> QED
    BY <1>1, RightStays DEF WorkersRight

\* One verifier moves to a state that is right.
LEMMA VerifierMoves ==
    ASSUME TypeOK, WorkersRight, Forward, NEW v \in Verifier, NEW w \in VerifierState,
           verifiers' = [verifiers EXCEPT ![v] = w], VerifierRight(w),
           reconcilers' = reconcilers
    PROVE  verifiers' \in [Verifier -> VerifierState] /\ WorkersRight'
<1>1. /\ verifiers \in [Verifier -> VerifierState]
      /\ \A u \in Verifier : verifiers[u] \in VerifierState
      /\ \A r \in Reconciler : reconcilers[r] \in ReconcilerState
    BY DEF TypeOK
<1>2. verifiers' \in [Verifier -> VerifierState]
    BY <1>1
<1>3. ASSUME NEW u \in Verifier PROVE VerifierRight(verifiers[u])'
  <2>1. PICK x \in VerifierState : x = verifiers'[u] /\ VerifierRight(x)
      BY <1>1 DEF WorkersRight
  <2>2. VerifierRight(x)'
      BY <2>1, RightStays
  <2> QED
      BY <2>1, <2>2 DEF VerifierRight
<1>4. \A r \in Reconciler : ReconcilerRight(reconcilers[r])'
    BY <1>1, RightStays DEF WorkersRight
<1> QED
    BY <1>2, <1>3, <1>4 DEF WorkersRight

\* One run of the job moves to a state that is right.
LEMMA ReconcilerMoves ==
    ASSUME TypeOK, WorkersRight, Forward, NEW r \in Reconciler, NEW s \in ReconcilerState,
           reconcilers' = [reconcilers EXCEPT ![r] = s], ReconcilerRight(s),
           verifiers' = verifiers
    PROVE  reconcilers' \in [Reconciler -> ReconcilerState] /\ WorkersRight'
<1>1. /\ reconcilers \in [Reconciler -> ReconcilerState]
      /\ \A q \in Reconciler : reconcilers[q] \in ReconcilerState
      /\ \A v \in Verifier : verifiers[v] \in VerifierState
    BY DEF TypeOK
<1>2. reconcilers' \in [Reconciler -> ReconcilerState]
    BY <1>1
<1>3. ASSUME NEW q \in Reconciler PROVE ReconcilerRight(reconcilers[q])'
  <2>1. PICK x \in ReconcilerState : x = reconcilers'[q] /\ ReconcilerRight(x)
      BY <1>1 DEF WorkersRight
  <2>2. ReconcilerRight(x)'
      BY <2>1, RightStays
  <2> QED
      BY <2>1, <2>2 DEF ReconcilerRight
<1>4. \A v \in Verifier : VerifierRight(verifiers[v])'
    BY <1>1, RightStays DEF WorkersRight
<1> QED
    BY <1>2, <1>3, <1>4 DEF WorkersRight

\* Idle workers are right, and so is one that changes its pc for anything but
\* the write of an answer.
LEMMA IdleIsRight ==
    /\ IdleVerifier \in VerifierState /\ VerifierRight(IdleVerifier)
    /\ IdleReconciler \in ReconcilerState /\ ReconcilerRight(IdleReconciler)
BY SetAssumption, BoundAssumption
   DEF IdleVerifier, IdleReconciler, VerifierState, ReconcilerState, VerifierPc,
       ReconcilerPc, Lookup, VerifierRight, ReconcilerRight

LEMMA MovesTo ==
    ASSUME TypeOK, WorkersRight, NEW v \in Verifier, NEW pc \in VerifierPc \ {"idle"},
           NEW f \in Lookup, Moves(v, pc, f), verifiers[v].pc # "idle",
           pc = "apply" => /\ f \in {"confirmed", "failed"}
                           /\ f = "confirmed" => gateway[verifiers[v].ord] = "confirmed"
    PROVE  \E w \in VerifierState :
              verifiers' = [verifiers EXCEPT ![v] = w] /\ VerifierRight(w)
<1> DEFINE w == [pc |-> pc, ord |-> verifiers[v].ord, attempt |-> verifiers[v].attempt,
                 found |-> f]
<1>1. verifiers \in [Verifier -> VerifierState] /\ VerifierRight(verifiers[v])
    BY DEF TypeOK, WorkersRight
<1>2. w \in VerifierState
    BY <1>1 DEF VerifierState
<1>3. verifiers' = [verifiers EXCEPT ![v] = w]
    BY DEF Moves
<1>4. VerifierRight(w)
    BY <1>1 DEF VerifierRight
<1> QED
    BY <1>2, <1>3, <1>4

LEMMA JobMovesTo ==
    ASSUME TypeOK, WorkersRight, NEW r \in Reconciler, NEW pc \in {"mark", "touch"},
           JobMoves(r, pc), reconcilers[r].pc \in {"apply", "mark"}
    PROVE  \E s \in ReconcilerState :
              reconcilers' = [reconcilers EXCEPT ![r] = s] /\ ReconcilerRight(s)
<1> DEFINE x == reconcilers[r]
           s == Job(r, pc, x.ord, "none")
<1>1. x \in ReconcilerState /\ ReconcilerRight(x)
    BY DEF TypeOK, WorkersRight
<1>2. s \in ReconcilerState /\ ReconcilerRight(s)
    BY <1>1 DEF Job, ReconcilerState, ReconcilerPc, Lookup, ReconcilerRight
<1> QED
    BY <1>2 DEF JobMoves

LEMMA SagaInvInit == Init => SagaInv
<1> SUFFICES ASSUME Init PROVE SagaInv
    OBVIOUS
<1>1. TypeOK
    BY IdleIsRight, SetAssumption DEF Init, TypeOK, NotIssued, Charge, ChargeAnswer,
       HookStatus, OrderStatus, PaymentStatus, EventType
<1>2. WorkersRight
    BY IdleIsRight DEF Init, WorkersRight
<1>3. UnderWayRight
    BY DEF Init, UnderWayRight, Opened
<1>4. Rows
    BY DEF Init, Rows, ConfirmedIsCaptured, OrderAgreesWithPayment, StatusAnnounced,
           Opened, OrderOf, EventOf
<1> QED
    BY <1>1, <1>2, <1>3, <1>4 DEF SagaInv

-----------------------------------------------------------------------------
LEMMA SagaInvStep == SagaInv /\ [Next]_vars => SagaInv'
<1> SUFFICES ASSUME SagaInv, [Next]_vars PROVE SagaInv'
    OBVIOUS
<1> USE DEF outside, tables, broker, redis, procs
<1>i. TypeOK /\ WorkersRight /\ UnderWayRight /\ Rows
    BY DEF SagaInv
<1>1. ASSUME NEW o \in Order, ChargeCard(o) PROVE SagaInv'
  <2>1. Rows' /\ Forward
      BY <1>1, <1>i, RowsUntouched DEF ChargeCard, Charge, ChargeAnswer, TypeOK
  <2>2. WorkersRight'
      BY <1>1, <1>i, <2>1, WorkersAtRest DEF ChargeCard
  <2>3. TypeOK'
      BY <1>1, <1>i DEF ChargeCard, Charge, ChargeAnswer, TypeOK
  <2>4. UnderWayRight'
      BY <1>1, <1>i, <2>1 DEF ChargeCard, Charge, ChargeAnswer, UnderWayRight, WorkersRight, VerifierRight, TypeOK, Forward
  <2> QED
      BY <2>1, <2>2, <2>3, <2>4 DEF SagaInv
<1>2. ASSUME NEW o \in Order, GatewayDecides(o) PROVE SagaInv'
  <2>1. Rows' /\ Forward
      BY <1>2, <1>i, RowsUntouched DEF GatewayDecides, Charge, TypeOK
  <2>2. WorkersRight'
      BY <1>2, <1>i, <2>1, WorkersAtRest DEF GatewayDecides
  <2>3. TypeOK'
      BY <1>2, <1>i DEF GatewayDecides, Charge, TypeOK
  <2>4. UnderWayRight'
      BY <1>2, <1>i, <2>1 DEF GatewayDecides, Charge, UnderWayRight, WorkersRight, VerifierRight, TypeOK, Forward
  <2> QED
      BY <2>1, <2>2, <2>3, <2>4 DEF SagaInv
<1>3. ASSUME NEW h \in Webhook, NEW o \in Order, IssueWebhook(h, o) PROVE SagaInv'
  <2>1. Rows' /\ Forward
      BY <1>3, <1>i, RowsUntouched DEF IssueWebhook, NotIssued, HookStatus, TypeOK
  <2>2. WorkersRight'
      BY <1>3, <1>i, <2>1, WorkersAtRest DEF IssueWebhook
  <2>3. TypeOK'
      BY <1>3, <1>i DEF IssueWebhook, NotIssued, HookStatus, TypeOK
  <2>4. UnderWayRight'
      BY <1>3, <1>i, <2>1 DEF IssueWebhook, NotIssued, HookStatus, UnderWayRight, WorkersRight, VerifierRight, TypeOK, Forward
  <2> QED
      BY <2>1, <2>2, <2>3, <2>4 DEF SagaInv
<1>4. ASSUME NEW o \in Order, CommitCheckout(o) PROVE SagaInv'
  <2>1. /\ o \in Order /\ answer[o] \in HookStatus
        /\ Transition(o, answer[o]) /\ gateway' = gateway
        /\ answer[o] = "confirmed" => gateway[o] = "confirmed"
      BY <1>4, <1>i DEF CommitCheckout, TypeOK, ChargeAnswer, HookStatus, UnderWayRight
  <2>2. /\ orders' \in [Order -> OrderStatus] /\ payments' \in [Order -> PaymentStatus]
        /\ announced' \in [Order -> SUBSET EventType] /\ settlements' \in [Order -> Nat]
        /\ topic' \in [Order -> Nat]
        /\ \A x \in Order \ {o} : topic'[x] = topic[x]
      BY <1>i, <2>1, TransitionEffect
  <2>3. Rows' /\ Forward /\ payments'[o] # "none"
      BY <1>i, <2>1, TransitionKeepsRows DEF Opened
  <2>4. WorkersRight'
      BY <1>4, <1>i, <2>3, WorkersAtRest DEF CommitCheckout
  <2>5. TypeOK'
      BY <1>4, <1>i, <2>2 DEF CommitCheckout, TypeOK
  <2>6. UnderWayRight'
    <3>1. \A x \in Order : topic'[x] > 0 \/ x \in dlq' => Opened(x)'
        BY <1>4, <1>i, <2>1, <2>2, <2>3 DEF CommitCheckout, UnderWayRight, Forward, Opened
    <3> QED
        BY <1>4, <1>i, <2>1, <2>3, <3>1 DEF CommitCheckout, UnderWayRight, Forward, Opened, TypeOK
  <2> QED
      BY <2>3, <2>4, <2>5, <2>6 DEF SagaInv
<1>5. ASSUME NEW o \in Order, Reprocess(o) PROVE SagaInv'
  <2>1. Rows' /\ Forward
      BY <1>5, <1>i, RowsUntouched DEF Reprocess, TypeOK
  <2>2. WorkersRight'
      BY <1>5, <1>i, <2>1, WorkersAtRest DEF Reprocess
  <2>3. TypeOK'
      BY <1>5, <1>i DEF Reprocess, TypeOK
  <2>4. UnderWayRight'
      BY <1>5, <1>i, <2>1 DEF Reprocess, UnderWayRight, WorkersRight, VerifierRight, TypeOK, Forward
  <2> QED
      BY <2>1, <2>2, <2>3, <2>4 DEF SagaInv
<1>6. ASSUME NEW h \in Webhook, HandleWebhook(h) PROVE SagaInv'
  <2>1. /\ hooks[h].ord \in Order /\ hooks[h].status \in HookStatus
        /\ Transition(hooks[h].ord, hooks[h].status) /\ gateway' = gateway
        /\ hooks[h].status = "confirmed" => gateway[hooks[h].ord] = "confirmed"
      BY <1>6, <1>i DEF HandleWebhook, TypeOK, UnderWayRight
  <2>2. /\ orders' \in [Order -> OrderStatus] /\ payments' \in [Order -> PaymentStatus]
        /\ announced' \in [Order -> SUBSET EventType] /\ settlements' \in [Order -> Nat]
        /\ topic' \in [Order -> Nat]
        /\ \A x \in Order \ {hooks[h].ord} : topic'[x] = topic[x]
      BY <1>i, <2>1, TransitionEffect
  <2>3. Rows' /\ Forward /\ payments'[hooks[h].ord] # "none"
      BY <1>i, <2>1, TransitionKeepsRows DEF Opened
  <2>4. WorkersRight'
      BY <1>6, <1>i, <2>3, WorkersAtRest DEF HandleWebhook
  <2>5. TypeOK'
      BY <1>6, <1>i, <2>2 DEF HandleWebhook, TypeOK
  <2>6. UnderWayRight'
    <3>1. \A x \in Order : topic'[x] > 0 \/ x \in dlq' => Opened(x)'
        BY <1>6, <1>i, <2>1, <2>2, <2>3 DEF HandleWebhook, UnderWayRight, Forward, Opened
    <3> QED
        BY <1>6, <1>i, <2>1, <2>3, <3>1 DEF HandleWebhook, UnderWayRight, Forward, Opened, TypeOK
  <2> QED
      BY <2>3, <2>4, <2>5, <2>6 DEF SagaInv
<1>7. ASSUME NEW o \in Order, DuplicateMessage(o) PROVE SagaInv'
  <2>1. Rows' /\ Forward
      BY <1>7, <1>i, RowsUntouched DEF DuplicateMessage, TypeOK
  <2>2. WorkersRight'
      BY <1>7, <1>i, <2>1, WorkersAtRest DEF DuplicateMessage
  <2>3. TypeOK'
      BY <1>7, <1>i DEF DuplicateMessage, TypeOK
  <2>4. UnderWayRight'
      BY <1>7, <1>i, <2>1 DEF DuplicateMessage, UnderWayRight, WorkersRight, VerifierRight, TypeOK, Forward
  <2> QED
      BY <2>1, <2>2, <2>3, <2>4 DEF SagaInv
<1>8. ASSUME NEW o \in Order, LockExpires(o) PROVE SagaInv'
  <2>1. Rows' /\ Forward
      BY <1>8, <1>i, RowsUntouched DEF LockExpires, TypeOK
  <2>2. WorkersRight'
      BY <1>8, <1>i, <2>1, WorkersAtRest DEF LockExpires
  <2>3. TypeOK'
      BY <1>8, <1>i DEF LockExpires, TypeOK
  <2>4. UnderWayRight'
      BY <1>8, <1>i, <2>1 DEF LockExpires, UnderWayRight, WorkersRight, VerifierRight, TypeOK, Forward
  <2> QED
      BY <2>1, <2>2, <2>3, <2>4 DEF SagaInv
<1>9. ASSUME NEW v \in Verifier, NEW o \in Order, ReceiveVerification(v, o) PROVE SagaInv'
  <2>1. \E w \in VerifierState :
           verifiers' = [verifiers EXCEPT ![v] = w] /\ VerifierRight(w)
    <3> DEFINE w == [pc |-> "acquire", ord |-> o, attempt |-> 1, found |-> "none"]
    <3>1. w \in VerifierState
        BY BoundAssumption DEF VerifierState, VerifierPc, Lookup
    <3>2. verifiers' = [verifiers EXCEPT ![v] = w] /\ VerifierRight(w)
        BY <1>9, <1>i DEF ReceiveVerification, UnderWayRight, VerifierRight
    <3> QED
        BY <3>1, <3>2
  <2>2. Rows' /\ Forward
      BY <1>9, <1>i, RowsUntouched DEF ReceiveVerification, TypeOK
  <2>3. verifiers' \in [Verifier -> VerifierState] /\ WorkersRight'
      BY <1>9, <1>i, <2>1, <2>2, VerifierMoves DEF ReceiveVerification
  <2>4. TypeOK'
      BY <1>9, <1>i, <2>3 DEF ReceiveVerification, TypeOK
  <2>5. UnderWayRight'
      BY <1>9, <1>i, <2>2 DEF ReceiveVerification, UnderWayRight, WorkersRight, VerifierRight, TypeOK, Forward
  <2> QED
      BY <2>2, <2>3, <2>4, <2>5 DEF SagaInv
<1>10. ASSUME NEW v \in Verifier, AcquireLock(v) PROVE SagaInv'
  <2>1. \E w \in VerifierState :
           verifiers' = [verifiers EXCEPT ![v] = w] /\ VerifierRight(w)
      BY <1>10, <1>i, MovesTo, IdleIsRight DEF AcquireLock, VerifierPc, Lookup
  <2>2. Rows' /\ Forward
      BY <1>10, <1>i, RowsUntouched DEF AcquireLock, TypeOK
  <2>3. verifiers' \in [Verifier -> VerifierState] /\ WorkersRight'
      BY <1>10, <1>i, <2>1, <2>2, VerifierMoves DEF AcquireLock
  <2>4. TypeOK'
      BY <1>10, <1>i, <2>3 DEF AcquireLock, TypeOK
  <2>5. UnderWayRight'
      BY <1>10, <1>i, <2>2 DEF AcquireLock, UnderWayRight, WorkersRight, VerifierRight, TypeOK, Forward
  <2> QED
      BY <2>2, <2>3, <2>4, <2>5 DEF SagaInv
<1>11. ASSUME NEW v \in Verifier, LookupPayment(v) PROVE SagaInv'
  <2>1. \E w \in VerifierState :
           verifiers' = [verifiers EXCEPT ![v] = w] /\ VerifierRight(w)
    <3>1. PICK f \in LookupAnswers(verifiers[v].ord) :
             Moves(v, IF f = "error" THEN "release" ELSE "apply", f)
        BY <1>11 DEF LookupPayment
    <3>2. /\ f \in {"error", "confirmed", "failed"}
          /\ f = "confirmed" => gateway[verifiers[v].ord] = "confirmed"
        BY DEF LookupAnswers
    <3> QED
        BY <1>11, <1>i, <3>1, <3>2, MovesTo DEF LookupPayment, VerifierPc, Lookup
  <2>2. Rows' /\ Forward
      BY <1>11, <1>i, RowsUntouched DEF LookupPayment, TypeOK
  <2>3. verifiers' \in [Verifier -> VerifierState] /\ WorkersRight'
      BY <1>11, <1>i, <2>1, <2>2, VerifierMoves DEF LookupPayment
  <2>4. TypeOK'
      BY <1>11, <1>i, <2>3 DEF LookupPayment, TypeOK
  <2>5. UnderWayRight'
      BY <1>11, <1>i, <2>2 DEF LookupPayment, UnderWayRight, WorkersRight, VerifierRight, TypeOK, Forward
  <2> QED
      BY <2>2, <2>3, <2>4, <2>5 DEF SagaInv
<1>12. ASSUME NEW v \in Verifier, ApplyVerification(v) PROVE SagaInv'
  <2>1. \E w \in VerifierState :
           verifiers' = [verifiers EXCEPT ![v] = w] /\ VerifierRight(w)
      BY <1>12, <1>i, MovesTo, IdleIsRight DEF ApplyVerification, VerifierPc, Lookup
  <2> DEFINE o == verifiers[v].ord
             f == verifiers[v].found
  <2>a. verifiers[v] \in VerifierState /\ VerifierRight(verifiers[v]) /\ verifiers[v].pc = "apply"
      BY <1>12, <1>i DEF ApplyVerification, WorkersRight, TypeOK
  <2>b. /\ o \in Order /\ f \in {"confirmed", "failed"}
        /\ f = "confirmed" => gateway[o] = "confirmed"
      BY <2>a DEF VerifierRight
  <2>2. /\ orders' \in [Order -> OrderStatus] /\ payments' \in [Order -> PaymentStatus]
        /\ announced' \in [Order -> SUBSET EventType] /\ settlements' \in [Order -> Nat]
        /\ topic' = topic /\ Rows' /\ Forward
    <3>1. (SettlePayment(o, f) \/ NoWrite) /\ gateway' = gateway
        BY <1>12 DEF ApplyVerification
    <3> QED
        BY <1>i, <2>b, <3>1, SettleEffect
  <2>3. verifiers' \in [Verifier -> VerifierState] /\ WorkersRight'
      BY <1>12, <1>i, <2>1, <2>2, VerifierMoves DEF ApplyVerification
  <2>4. TypeOK'
      BY <1>12, <1>i, <2>2, <2>3 DEF ApplyVerification, TypeOK
  <2>5. UnderWayRight'
      BY <1>12, <1>i, <2>2 DEF ApplyVerification, UnderWayRight, TypeOK, Forward
  <2> QED
      BY <2>2, <2>3, <2>4, <2>5 DEF SagaInv
<1>13. ASSUME NEW v \in Verifier, ReleaseLock(v) PROVE SagaInv'
  <2>1. \E w \in VerifierState :
           verifiers' = [verifiers EXCEPT ![v] = w] /\ VerifierRight(w)
      BY <1>13, <1>i, MovesTo, IdleIsRight DEF ReleaseLock, VerifierPc, Lookup
  <2>2. Rows' /\ Forward
      BY <1>13, <1>i, RowsUntouched DEF ReleaseLock, TypeOK
  <2>3. verifiers' \in [Verifier -> VerifierState] /\ WorkersRight'
      BY <1>13, <1>i, <2>1, <2>2, VerifierMoves DEF ReleaseLock
  <2>4. TypeOK'
      BY <1>13, <1>i, <2>3 DEF ReleaseLock, TypeOK
  <2>5. UnderWayRight'
      BY <1>13, <1>i, <2>2 DEF ReleaseLock, UnderWayRight, WorkersRight, VerifierRight, TypeOK, Forward
  <2> QED
      BY <2>2, <2>3, <2>4, <2>5 DEF SagaInv
<1>14. ASSUME NEW v \in Verifier, CountAttempt(v) PROVE SagaInv'
  <2>1. \E w \in VerifierState :
           verifiers' = [verifiers EXCEPT ![v] = w] /\ VerifierRight(w)
    <3> DEFINE x == verifiers[v]
               w == [pc |-> "acquire", ord |-> x.ord, attempt |-> x.attempt + 1, found |-> x.found]
               d == [pc |-> "dlq", ord |-> x.ord, attempt |-> x.attempt, found |-> x.found]
    <3>1. x \in VerifierState /\ VerifierRight(x) /\ x.pc = "failed"
        BY <1>14, <1>i DEF CountAttempt, TypeOK, WorkersRight
    <3>2. x.attempt < MaxAttempts => x.attempt + 1 \in 0..MaxAttempts
        BY <3>1, BoundAssumption DEF VerifierState
    <3>3. /\ x.attempt < MaxAttempts => w \in VerifierState
          /\ d \in VerifierState /\ VerifierRight(w) /\ VerifierRight(d)
        BY <3>1, <3>2 DEF VerifierState, VerifierPc, VerifierRight
    <3>4. \/ x.attempt < MaxAttempts /\ verifiers' = [verifiers EXCEPT ![v] = w]
          \/ verifiers' = [verifiers EXCEPT ![v] = d]
          \/ verifiers' = [verifiers EXCEPT ![v] = IdleVerifier]
        BY <1>14, <1>i DEF CountAttempt, TypeOK, VerifierState
    <3> HIDE DEF w, d
    <3> QED
        BY <3>3, <3>4, IdleIsRight
  <2>2. Rows' /\ Forward
      BY <1>14, <1>i, RowsUntouched DEF CountAttempt, TypeOK
  <2>3. verifiers' \in [Verifier -> VerifierState] /\ WorkersRight'
      BY <1>14, <1>i, <2>1, <2>2, VerifierMoves DEF CountAttempt
  <2>4. TypeOK'
      BY <1>14, <1>i, <2>3 DEF CountAttempt, TypeOK
  <2>5. UnderWayRight'
      BY <1>14, <1>i, <2>2 DEF CountAttempt, UnderWayRight, WorkersRight, VerifierRight, TypeOK, Forward
  <2> QED
      BY <2>2, <2>3, <2>4, <2>5 DEF SagaInv
<1>15. ASSUME NEW v \in Verifier, PublishDlq(v) PROVE SagaInv'
  <2>1. \E w \in VerifierState :
           verifiers' = [verifiers EXCEPT ![v] = w] /\ VerifierRight(w)
      BY <1>15, <1>i, MovesTo, IdleIsRight DEF PublishDlq
  <2>2. Rows' /\ Forward
      BY <1>15, <1>i, RowsUntouched DEF PublishDlq, TypeOK
  <2>3. verifiers' \in [Verifier -> VerifierState] /\ WorkersRight'
      BY <1>15, <1>i, <2>1, <2>2, VerifierMoves DEF PublishDlq
  <2>4. TypeOK'
    <3>1. verifiers[v].ord \in Order
        BY <1>15, <1>i DEF PublishDlq, WorkersRight, VerifierRight
    <3>2. topic' \in [Order -> Nat] /\ dlq' \subseteq Order
        BY <1>15, <1>i, <3>1 DEF PublishDlq, TypeOK
    <3> QED
        BY <1>15, <1>i, <2>3, <3>2 DEF PublishDlq, TypeOK
  <2>5. UnderWayRight'
      BY <1>15, <1>i, <2>2 DEF PublishDlq, UnderWayRight, WorkersRight, VerifierRight, TypeOK, Forward
  <2> QED
      BY <2>2, <2>3, <2>4, <2>5 DEF SagaInv
<1>16. ASSUME NEW v \in Verifier, CrashVerifier(v) PROVE SagaInv'
  <2>1. \E w \in VerifierState :
           verifiers' = [verifiers EXCEPT ![v] = w] /\ VerifierRight(w)
      BY <1>16, <1>i, MovesTo, IdleIsRight DEF CrashVerifier
  <2>2. Rows' /\ Forward
      BY <1>16, <1>i, RowsUntouched DEF CrashVerifier, TypeOK
  <2>3. verifiers' \in [Verifier -> VerifierState] /\ WorkersRight'
      BY <1>16, <1>i, <2>1, <2>2, VerifierMoves DEF CrashVerifier
  <2>4. TypeOK'
    <3>1. verifiers[v].ord \in Order
        BY <1>16, <1>i DEF CrashVerifier, WorkersRight, VerifierRight
    <3>2. topic' \in [Order -> Nat] /\ dlq' \subseteq Order
        BY <1>16, <1>i, <3>1 DEF CrashVerifier, TypeOK
    <3> QED
        BY <1>16, <1>i, <2>3, <3>2 DEF CrashVerifier, TypeOK
  <2>5. UnderWayRight'
      BY <1>16, <1>i, <2>2 DEF CrashVerifier, UnderWayRight, WorkersRight, VerifierRight, TypeOK, Forward
  <2> QED
      BY <2>2, <2>3, <2>4, <2>5 DEF SagaInv
<1>17. ASSUME NEW r \in Reconciler, FindPayments(r) PROVE SagaInv'
  <2>1. \E s \in ReconcilerState :
           reconcilers' = [reconcilers EXCEPT ![r] = s] /\ ReconcilerRight(s)
    <3> DEFINE due == {o \in Order : Pending(o) /\ ~checked[o]}
               s == [pc |-> "lookup", batch |-> due, ord |-> NoOrder, found |-> "none"]
    <3>1. s \in ReconcilerState /\ ReconcilerRight(s)
        BY DEF ReconcilerState, ReconcilerPc, Lookup, ReconcilerRight, Pending, Opened
    <3>2. reconcilers' = [reconcilers EXCEPT ![r] = s]
        BY <1>17 DEF FindPayments
    <3> QED
        BY <3>1, <3>2
  <2>2. Rows' /\ Forward
      BY <1>17, <1>i, RowsUntouched DEF FindPayments, TypeOK
  <2>3. reconcilers' \in [Reconciler -> ReconcilerState] /\ WorkersRight'
      BY <1>17, <1>i, <2>1, <2>2, ReconcilerMoves DEF FindPayments
  <2>4. TypeOK'
      BY <1>17, <1>i, <2>3 DEF FindPayments, TypeOK
  <2>5. UnderWayRight'
      BY <1>17, <1>i, <2>2 DEF FindPayments, UnderWayRight, WorkersRight, VerifierRight, TypeOK, Forward
  <2> QED
      BY <2>2, <2>3, <2>4, <2>5 DEF SagaInv
<1>18. ASSUME NEW r \in Reconciler, NEW o \in Order, NEW f \in Lookup, ReconcileLookup(r, o, f) PROVE SagaInv'
  <2>1. \E s \in ReconcilerState :
           reconcilers' = [reconcilers EXCEPT ![r] = s] /\ ReconcilerRight(s)
    <3> DEFINE x == reconcilers[r]
               m == Job(r, "mark", o, "none")
               a == Job(r, "apply", o, f)
    <3>1. x \in ReconcilerState /\ ReconcilerRight(x) /\ o \in x.batch
        BY <1>18, <1>i DEF ReconcileLookup, TypeOK, WorkersRight
    <3>2. f \in {"error", "confirmed", "failed"} /\ (f = "confirmed" => gateway[o] = "confirmed")
        BY <1>18 DEF ReconcileLookup, LookupAnswers
    <3>3. /\ m \in ReconcilerState /\ ReconcilerRight(m)
          /\ a \in ReconcilerState /\ (f # "error" => ReconcilerRight(a))
        BY <3>1, <3>2 DEF Job, ReconcilerState, ReconcilerPc, Lookup, ReconcilerRight
    <3>4. reconcilers' = [reconcilers EXCEPT ![r] = IF f = "error" THEN m ELSE a]
        BY <1>18 DEF ReconcileLookup
    <3> HIDE DEF m, a
    <3> QED
        BY <3>3, <3>4
  <2>2. Rows' /\ Forward
      BY <1>18, <1>i, RowsUntouched DEF ReconcileLookup, TypeOK
  <2>3. reconcilers' \in [Reconciler -> ReconcilerState] /\ WorkersRight'
      BY <1>18, <1>i, <2>1, <2>2, ReconcilerMoves DEF ReconcileLookup
  <2>4. TypeOK'
      BY <1>18, <1>i, <2>3 DEF ReconcileLookup, TypeOK
  <2>5. UnderWayRight'
      BY <1>18, <1>i, <2>2 DEF ReconcileLookup, UnderWayRight, WorkersRight, VerifierRight, TypeOK, Forward
  <2> QED
      BY <2>2, <2>3, <2>4, <2>5 DEF SagaInv
<1>19. ASSUME NEW r \in Reconciler, ApplyReconciliation(r) PROVE SagaInv'
  <2>1. \E s \in ReconcilerState :
           reconcilers' = [reconcilers EXCEPT ![r] = s] /\ ReconcilerRight(s)
      BY <1>19, <1>i, JobMovesTo DEF ApplyReconciliation
  <2> DEFINE o == reconcilers[r].ord
             f == reconcilers[r].found
  <2>a. reconcilers[r] \in ReconcilerState /\ ReconcilerRight(reconcilers[r]) /\ reconcilers[r].pc = "apply"
      BY <1>19, <1>i DEF ApplyReconciliation, WorkersRight, TypeOK
  <2>b. /\ o \in Order /\ f \in {"confirmed", "failed"}
        /\ f = "confirmed" => gateway[o] = "confirmed"
      BY <2>a DEF ReconcilerRight, ReconcilerState
  <2>2. /\ orders' \in [Order -> OrderStatus] /\ payments' \in [Order -> PaymentStatus]
        /\ announced' \in [Order -> SUBSET EventType] /\ settlements' \in [Order -> Nat]
        /\ topic' = topic /\ Rows' /\ Forward
    <3>1. (SettlePayment(o, f) \/ NoWrite) /\ gateway' = gateway
        BY <1>19 DEF ApplyReconciliation
    <3> QED
        BY <1>i, <2>b, <3>1, SettleEffect
  <2>3. reconcilers' \in [Reconciler -> ReconcilerState] /\ WorkersRight'
      BY <1>19, <1>i, <2>1, <2>2, ReconcilerMoves DEF ApplyReconciliation
  <2>4. TypeOK'
      BY <1>19, <1>i, <2>2, <2>3 DEF ApplyReconciliation, TypeOK
  <2>5. UnderWayRight'
      BY <1>19, <1>i, <2>2 DEF ApplyReconciliation, UnderWayRight, TypeOK, Forward
  <2> QED
      BY <2>2, <2>3, <2>4, <2>5 DEF SagaInv
<1>20. ASSUME NEW r \in Reconciler, ApplyReconciliationThrows(r) PROVE SagaInv'
  <2>1. \E s \in ReconcilerState :
           reconcilers' = [reconcilers EXCEPT ![r] = s] /\ ReconcilerRight(s)
      BY <1>20, <1>i, JobMovesTo DEF ApplyReconciliationThrows
  <2> DEFINE o == reconcilers[r].ord
             f == reconcilers[r].found
  <2>a. reconcilers[r] \in ReconcilerState /\ ReconcilerRight(reconcilers[r]) /\ reconcilers[r].pc = "apply"
      BY <1>20, <1>i DEF ApplyReconciliationThrows, WorkersRight, TypeOK
  <2>b. /\ o \in Order /\ f \in {"confirmed", "failed"}
        /\ f = "confirmed" => gateway[o] = "confirmed"
      BY <2>a DEF ReconcilerRight, ReconcilerState
  <2>2. /\ orders' \in [Order -> OrderStatus] /\ payments' \in [Order -> PaymentStatus]
        /\ announced' \in [Order -> SUBSET EventType] /\ settlements' \in [Order -> Nat]
        /\ topic' = topic /\ Rows' /\ Forward
    <3>1. (SettlePayment(o, f) \/ NoWrite) /\ gateway' = gateway
        BY <1>20 DEF ApplyReconciliationThrows
    <3> QED
        BY <1>i, <2>b, <3>1, SettleEffect
  <2>3. reconcilers' \in [Reconciler -> ReconcilerState] /\ WorkersRight'
      BY <1>20, <1>i, <2>1, <2>2, ReconcilerMoves DEF ApplyReconciliationThrows
  <2>4. TypeOK'
      BY <1>20, <1>i, <2>2, <2>3 DEF ApplyReconciliationThrows, TypeOK
  <2>5. UnderWayRight'
      BY <1>20, <1>i, <2>2 DEF ApplyReconciliationThrows, UnderWayRight, TypeOK, Forward
  <2> QED
      BY <2>2, <2>3, <2>4, <2>5 DEF SagaInv
<1>21. ASSUME NEW r \in Reconciler, MarkReconciliationNeeded(r) PROVE SagaInv'
  <2>1. \E s \in ReconcilerState :
           reconcilers' = [reconcilers EXCEPT ![r] = s] /\ ReconcilerRight(s)
      BY <1>21, <1>i, JobMovesTo DEF MarkReconciliationNeeded
  <2> DEFINE o == reconcilers[r].ord
  <2>2. o \in Order /\ Opened(o) /\ gateway' = gateway
    <3>1. reconcilers[r] \in ReconcilerState /\ ReconcilerRight(reconcilers[r])
        BY <1>21, <1>i DEF WorkersRight, TypeOK
    <3> QED
        BY <1>21, <3>1 DEF MarkReconciliationNeeded, ReconcilerState, ReconcilerRight
  <2> HIDE DEF o
  <2>3. /\ \/ NoWrite /\ checked' = checked
           \/ /\ ~Terminal(o)
              /\ Write(o, orders[o], "RECONCILIATION_NEEDED", "reconciliation.needed")
              /\ checked' = [checked EXCEPT ![o] = TRUE]
        /\ UNCHANGED <<outside, handled, copies, dlq, redis, verifiers, crashes>>
      BY <1>21 DEF MarkReconciliationNeeded, o
  <2>4. topic' = topic /\ settlements' = settlements
      BY <2>3 DEF NoWrite, Write
  <2>5. /\ orders' \in [Order -> OrderStatus] /\ payments' \in [Order -> PaymentStatus]
        /\ announced' \in [Order -> SUBSET EventType] /\ checked' \in [Order -> BOOLEAN]
        /\ Rows' /\ Forward
    <3>1. CASE NoWrite /\ checked' = checked
        BY <1>i, <2>2, <3>1, RowsUntouched DEF NoWrite, TypeOK
    <3>2. CASE /\ ~Terminal(o)
               /\ Write(o, orders[o], "RECONCILIATION_NEEDED", "reconciliation.needed")
               /\ checked' = [checked EXCEPT ![o] = TRUE]
      <4>1. /\ orders \in [Order -> OrderStatus] /\ payments \in [Order -> PaymentStatus]
            /\ announced \in [Order -> SUBSET EventType] /\ checked \in [Order -> BOOLEAN]
          BY <1>i DEF TypeOK
      <4>2. orders[o] = "PENDING"
          BY <1>i, <2>2, <3>2, <4>1 DEF Terminal, Opened, PaymentStatus, Rows,
             OrderAgreesWithPayment, OrderOf
      <4>3. /\ orders' = orders
            /\ payments' = [payments EXCEPT ![o] = "RECONCILIATION_NEEDED"]
            /\ announced' = [announced EXCEPT ![o] = @ \union {"reconciliation.needed"}]
          BY <2>2, <3>2, <4>1 DEF Write
      <4>4. Rows'
          BY <1>i, <2>2, <4>1, <4>2, <4>3 DEF Rows, ConfirmedIsCaptured,
             OrderAgreesWithPayment, StatusAnnounced, Opened, OrderOf, EventOf
      <4> QED
          BY <2>2, <3>2, <4>1, <4>3, <4>4 DEF PaymentStatus, EventType, Forward, Opened
    <3> QED
        BY <2>3, <3>1, <3>2
  <2>6. reconcilers' \in [Reconciler -> ReconcilerState] /\ WorkersRight'
      BY <1>i, <2>1, <2>3, <2>5, ReconcilerMoves
  <2>7. TypeOK'
      BY <1>i, <2>3, <2>4, <2>5, <2>6 DEF TypeOK
  <2>8. UnderWayRight'
      BY <1>i, <2>3, <2>4, <2>5 DEF UnderWayRight, TypeOK, Forward
  <2> QED
      BY <2>5, <2>6, <2>7, <2>8 DEF SagaInv
<1>22. ASSUME NEW r \in Reconciler, TouchReconciliation(r) PROVE SagaInv'
  <2>1. \E s \in ReconcilerState :
           reconcilers' = [reconcilers EXCEPT ![r] = s] /\ ReconcilerRight(s)
    <3> DEFINE x == reconcilers[r]
               rest == x.batch \ {x.ord}
               s == [pc |-> "lookup", batch |-> rest, ord |-> NoOrder, found |-> "none"]
    <3>1. x \in ReconcilerState /\ ReconcilerRight(x)
        BY <1>22, <1>i DEF TypeOK, WorkersRight
    <3>2. s \in ReconcilerState /\ ReconcilerRight(s)
        BY <3>1 DEF ReconcilerState, ReconcilerPc, Lookup, ReconcilerRight
    <3>3. \/ reconcilers' = [reconcilers EXCEPT ![r] = IdleReconciler]
          \/ reconcilers' = [reconcilers EXCEPT ![r] = s]
        BY <1>22 DEF TouchReconciliation
    <3> QED
        BY <3>2, <3>3, IdleIsRight
  <2>2. Rows' /\ Forward
      BY <1>22, <1>i, RowsUntouched DEF TouchReconciliation, TypeOK
  <2>3. reconcilers' \in [Reconciler -> ReconcilerState] /\ WorkersRight'
      BY <1>22, <1>i, <2>1, <2>2, ReconcilerMoves DEF TouchReconciliation
  <2>4. TypeOK'
      BY <1>22, <1>i, <2>3 DEF TouchReconciliation, TypeOK
  <2>5. UnderWayRight'
      BY <1>22, <1>i, <2>2 DEF TouchReconciliation, UnderWayRight, WorkersRight, VerifierRight, TypeOK, Forward
  <2> QED
      BY <2>2, <2>3, <2>4, <2>5 DEF SagaInv
<1>23. ASSUME NEW r \in Reconciler, AbortRun(r) PROVE SagaInv'
  <2>1. \E s \in ReconcilerState :
           reconcilers' = [reconcilers EXCEPT ![r] = s] /\ ReconcilerRight(s)
      BY <1>23, IdleIsRight DEF AbortRun
  <2>2. Rows' /\ Forward
      BY <1>23, <1>i, RowsUntouched DEF AbortRun, TypeOK
  <2>3. reconcilers' \in [Reconciler -> ReconcilerState] /\ WorkersRight'
      BY <1>23, <1>i, <2>1, <2>2, ReconcilerMoves DEF AbortRun
  <2>4. TypeOK'
      BY <1>23, <1>i, <2>3 DEF AbortRun, TypeOK
  <2>5. UnderWayRight'
      BY <1>23, <1>i, <2>2 DEF AbortRun, UnderWayRight, WorkersRight, VerifierRight, TypeOK, Forward
  <2> QED
      BY <2>2, <2>3, <2>4, <2>5 DEF SagaInv
<1>24. ASSUME NEW o \in Order, CheckAges(o) PROVE SagaInv'
  <2>1. Rows' /\ Forward
      BY <1>24, <1>i, RowsUntouched DEF CheckAges, TypeOK
  <2>2. WorkersRight'
      BY <1>24, <1>i, <2>1, WorkersAtRest DEF CheckAges
  <2>3. TypeOK'
      BY <1>24, <1>i DEF CheckAges, TypeOK
  <2>4. UnderWayRight'
      BY <1>24, <1>i, <2>1 DEF CheckAges, UnderWayRight, WorkersRight, VerifierRight, TypeOK, Forward
  <2> QED
      BY <2>1, <2>2, <2>3, <2>4 DEF SagaInv
<1>25. CASE UNCHANGED vars
    BY <1>25, <1>i DEF vars, SagaInv, TypeOK, WorkersRight, UnderWayRight, Rows, ConfirmedIsCaptured,
       OrderAgreesWithPayment, StatusAnnounced, Opened, VerifierRight,
       ReconcilerRight
<1> QED
    BY <1>1, <1>2, <1>3, <1>4, <1>5, <1>6, <1>7, <1>8, <1>9, <1>10, <1>11, <1>12, <1>13, <1>14, <1>15, <1>16, <1>17, <1>18, <1>19, <1>20, <1>21, <1>22, <1>23, <1>24, <1>25
       DEF Next, Gateway, Api, Verification, VerifierStep, Reconciliation, ReconcilerStep

-----------------------------------------------------------------------------
LEMMA SagaInvHolds == Spec => []SagaInv
BY SagaInvInit, SagaInvStep, PTL DEF Spec

\* The saga keeps its types, for any number of orders, handlers and faults.
THEOREM SagaTypeCorrect == Spec => []TypeOK
<1>1. SagaInv => TypeOK
    BY DEF SagaInv
<1> QED
    BY <1>1, SagaInvHolds, PTL

\* Checkout, webhooks, verifiers and the job, interleaved in any way, leave an
\* order that agrees with its payment.
THEOREM OrdersAgree == Spec => []OrderAgreesWithPayment
<1>1. SagaInv => OrderAgreesWithPayment
    BY DEF SagaInv, Rows
<1> QED
    BY <1>1, SagaInvHolds, PTL

\* No order is confirmed without the money, however late a webhook, an answer
\* of the lookup or a checkout's commit arrives.
THEOREM ConfirmedHasMoney == Spec => []ConfirmedIsCaptured
<1>1. SagaInv => ConfirmedIsCaptured
    BY DEF SagaInv, Rows
<1> QED
    BY <1>1, SagaInvHolds, PTL

-----------------------------------------------------------------------------
(***************************************************************************)
(* How often a payment is settled, how many verifiers hold its lock, and   *)
(* that the saga implements PaymentLifecycle.                              *)
(*                                                                         *)
(* Settling uses up a right that only a webhook restores: a payment that   *)
(* is not settled has at most as many settlements as it has handled        *)
(* webhooks, a settled one at most one more.  A free lock is such a right, *)
(* too: it is used up by the SET that takes it, and restored by the end of *)
(* a holder or, at the price of an expiry, by the clock.                   *)
(***************************************************************************)

SettledCounted(o) ==
    settlements[o] <= Cardinality(HandledFor(o)) + (IF Terminal(o) THEN 1 ELSE 0)

LockCounted(o) == Cardinality(Holding(o)) + (IF lock[o] THEN 0 ELSE 1) <= 1 + expiries[o]

-----------------------------------------------------------------------------
\* What a step can do to the rows, the charges and the handled webhooks.
RowsRest == UNCHANGED <<gateway, hooks, handled, payments, announced, settlements>>
Settles(o, f) == /\ Opened(o) /\ SettlePayment(o, f)
                 /\ f = "confirmed" => gateway[o] = "confirmed"
                 /\ UNCHANGED <<gateway, hooks, handled>>
Marks(o) == /\ Opened(o) /\ ~Terminal(o)
            /\ Write(o, orders[o], "RECONCILIATION_NEEDED", "reconciliation.needed")
            /\ UNCHANGED <<gateway, hooks, handled>>

LEMMA StepCases ==
    ASSUME SagaInv, [Next]_vars
    PROVE  \/ \E o \in Order : ChargeCard(o) \/ GatewayDecides(o) \/ CommitCheckout(o)
           \/ \E h \in Webhook, o \in Order : IssueWebhook(h, o)
           \/ \E h \in Webhook : HandleWebhook(h)
           \/ \E o \in Order, f \in {"confirmed", "failed"} : Settles(o, f)
           \/ \E o \in Order : Marks(o)
           \/ RowsRest
<1> USE DEF outside, tables, broker, redis, procs
<1>i. TypeOK /\ WorkersRight
    BY DEF SagaInv
<1>1. CASE Gateway
    BY <1>1 DEF Gateway
<1>2. CASE Api
    BY <1>2 DEF Api, Reprocess, RowsRest
<1>3. ASSUME NEW v \in Verifier, ApplyVerification(v)
      PROVE  RowsRest \/ \E o \in Order, f \in {"confirmed", "failed"} : Settles(o, f)
  <2>1. PICK w \in VerifierState : w = verifiers[v]
      BY <1>i DEF TypeOK
  <2>2. VerifierRight(w) /\ w.pc = "apply"
      BY <1>3, <1>i, <2>1 DEF ApplyVerification, WorkersRight
  <2>3. NoWrite \/ SettlePayment(w.ord, w.found)
      BY <1>3, <2>1 DEF ApplyVerification
  <2> QED
      BY <1>3, <2>2, <2>3
         DEF ApplyVerification, VerifierRight, Settles, RowsRest, NoWrite
<1>4. ASSUME NEW r \in Reconciler, ApplyReconciliation(r) \/ ApplyReconciliationThrows(r)
      PROVE  RowsRest \/ \E o \in Order, f \in {"confirmed", "failed"} : Settles(o, f)
  <2>1. PICK s \in ReconcilerState : s = reconcilers[r]
      BY <1>i DEF TypeOK
  <2>2. ReconcilerRight(s) /\ s.pc = "apply" /\ s.ord \in Order
      BY <1>4, <1>i, <2>1 DEF ApplyReconciliation, ApplyReconciliationThrows, WorkersRight,
         ReconcilerRight, ReconcilerState
  <2>3. NoWrite \/ SettlePayment(s.ord, s.found)
      BY <1>4, <2>1 DEF ApplyReconciliation, ApplyReconciliationThrows
  <2>4. UNCHANGED <<gateway, hooks, handled>>
      BY <1>4 DEF ApplyReconciliation, ApplyReconciliationThrows
  <2> QED
      BY <2>2, <2>3, <2>4 DEF ReconcilerRight, Settles, RowsRest, NoWrite
<1>5. ASSUME NEW r \in Reconciler, MarkReconciliationNeeded(r)
      PROVE  RowsRest \/ \E o \in Order : Marks(o)
  <2>1. PICK s \in ReconcilerState : s = reconcilers[r]
      BY <1>i DEF TypeOK
  <2>2. ReconcilerRight(s) /\ s.pc = "mark" /\ s.ord \in Order
      BY <1>5, <1>i, <2>1 DEF MarkReconciliationNeeded, WorkersRight, ReconcilerRight,
         ReconcilerState
  <2>3. \/ NoWrite
        \/ /\ ~Terminal(s.ord)
           /\ Write(s.ord, orders[s.ord], "RECONCILIATION_NEEDED", "reconciliation.needed")
      BY <1>5, <2>1 DEF MarkReconciliationNeeded
  <2>4. UNCHANGED <<gateway, hooks, handled>>
      BY <1>5 DEF MarkReconciliationNeeded
  <2> QED
      BY <2>2, <2>3, <2>4 DEF ReconcilerRight, Marks, RowsRest, NoWrite
<1>6. CASE Verification
    BY <1>3, <1>6 DEF Verification, VerifierStep, RowsRest, DuplicateMessage, LockExpires,
       ReceiveVerification, AcquireLock, LookupPayment, ReleaseLock, CountAttempt,
       PublishDlq, CrashVerifier
<1>7. CASE Reconciliation
    BY <1>4, <1>5, <1>7 DEF Reconciliation, ReconcilerStep, RowsRest, FindPayments,
       ReconcileLookup, TouchReconciliation, AbortRun, CheckAges
<1>8. CASE UNCHANGED vars
    BY <1>8 DEF vars, RowsRest
<1> QED
    BY <1>1, <1>2, <1>6, <1>7, <1>8 DEF Next

\* The handled webhooks of an order are finitely many; one more is counted.
LEMMA HandledFinite ==
    ASSUME TypeOK, NEW o \in Order
    PROVE  IsFiniteSet(HandledFor(o)) /\ Cardinality(HandledFor(o)) \in Nat
<1>1. HandledFor(o) \in SUBSET Webhook
    BY DEF TypeOK, HandledFor
<1> QED
    BY <1>1, SetAssumption, FS_Subset, FS_CardinalityType

LEMMA HandledSame ==
    ASSUME SagaInv, handled' = handled,
           \/ hooks' = hooks
           \/ \E h \in Webhook, o \in Order : IssueWebhook(h, o)
    PROVE  \A x \in Order : HandledFor(x)' = HandledFor(x)
<1>1. ASSUME NEW h \in handled PROVE hooks'[h].ord = hooks[h].ord
  <2>1. h \in Webhook /\ hooks[h] # NotIssued
      BY DEF SagaInv, TypeOK, UnderWayRight
  <2> QED
      BY <2>1 DEF IssueWebhook, SagaInv, TypeOK
<1> QED
    BY <1>1 DEF HandledFor

LEMMA HandledGrows ==
    ASSUME TypeOK, NEW h \in Webhook, HandleWebhook(h), NEW o \in Order, o = hooks[h].ord
    PROVE  /\ \A x \in Order \ {o} : HandledFor(x)' = HandledFor(x)
           /\ Cardinality(HandledFor(o)') = Cardinality(HandledFor(o)) + 1
<1>1. h \notin handled /\ handled' = handled \union {h} /\ hooks' = hooks
    BY DEF HandleWebhook, outside
<1>2. HandledFor(o)' = HandledFor(o) \union {h} /\ h \notin HandledFor(o)
    BY <1>1 DEF HandledFor
<1>3. \A x \in Order \ {o} : HandledFor(x)' = HandledFor(x)
    BY <1>1 DEF HandledFor
<1> QED
    BY <1>2, <1>3, HandledFinite, FS_AddElement

-----------------------------------------------------------------------------
\* Without a webhook the only outcome announced is the one in the tables.
OutcomeAgrees(o) ==
    HandledFor(o) = {}
        => announced[o] \cap {"confirmed", "failed"} \subseteq {EventOf[payments[o]]}

\* Before it is opened, and while it is pending, a payment no webhook has
\* touched has no outcome announced; so a writer that finds it so may add one.
LEMMA OutcomeStep ==
    ASSUME SagaInv, [Next]_vars, NEW x \in Order, OutcomeAgrees(x)
    PROVE  OutcomeAgrees(x)'
<1>i. /\ TypeOK /\ UnderWayRight
      /\ payments \in [Order -> PaymentStatus]
      /\ announced \in [Order -> SUBSET EventType]
    BY DEF SagaInv, TypeOK
<1>1. ASSUME UNCHANGED <<payments, announced>>, HandledFor(x)' = HandledFor(x)
      PROVE  OutcomeAgrees(x)'
    BY <1>1 DEF OutcomeAgrees
<1>2. ASSUME NEW o \in Order, ChargeCard(o) \/ GatewayDecides(o)
      PROVE  OutcomeAgrees(x)'
    BY <1>1, <1>2, HandledSame DEF ChargeCard, GatewayDecides, tables
<1>3. ASSUME NEW h \in Webhook, NEW o \in Order, IssueWebhook(h, o)
      PROVE  OutcomeAgrees(x)'
    BY <1>1, <1>3, HandledSame DEF IssueWebhook, tables
<1>4. CASE RowsRest
    BY <1>1, <1>4, HandledSame DEF RowsRest
<1>5. ASSUME NEW o \in Order, NEW s \in HookStatus, Transition(o, s), ~Terminal(o),
             HandledFor(x)' = HandledFor(x)
      PROVE  OutcomeAgrees(x)'
  <2>1. /\ announced'[o] = announced[o] \union {EventOf[payments'[o]]}
        /\ x # o => payments'[x] = payments[x] /\ announced'[x] = announced[x]
      BY <1>i, <1>5, TransitionEffect
  <2>2. EventOf[payments[o]] \notin {"confirmed", "failed"}
      BY <1>i, <1>5 DEF Terminal, PaymentStatus, EventOf
  <2> QED
      BY <1>5, <2>1, <2>2 DEF OutcomeAgrees
<1>6. ASSUME NEW o \in Order, CommitCheckout(o) PROVE OutcomeAgrees(x)'
  <2>1. Transition(o, answer[o]) /\ answer[o] \in HookStatus /\ ~Terminal(o)
      BY <1>6, <1>i DEF CommitCheckout, TypeOK, ChargeAnswer, HookStatus, Terminal
  <2>2. HandledFor(x)' = HandledFor(x)
      BY <1>6, HandledSame DEF CommitCheckout, outside
  <2> QED
      BY <1>5, <2>1, <2>2
<1>7. ASSUME NEW h \in Webhook, HandleWebhook(h) PROVE OutcomeAgrees(x)'
  <2>1. PICK o \in Order : o = hooks[h].ord
      BY <1>7, <1>i DEF HandleWebhook, UnderWayRight
  <2>2. Transition(o, hooks[h].status) /\ hooks[h].status \in HookStatus
      BY <1>7, <1>i, <2>1 DEF HandleWebhook, TypeOK
  <2>3. CASE x = o
    <3>1. h \in handled' /\ hooks' = hooks
        BY <1>7 DEF HandleWebhook, outside
    <3>2. h \in HandledFor(x)'
        BY <2>1, <2>3, <3>1 DEF HandledFor
    <3> QED
        BY <3>2 DEF OutcomeAgrees
  <2>4. CASE x # o
    <3>1. payments'[x] = payments[x] /\ announced'[x] = announced[x]
        BY <1>i, <2>2, <2>4, TransitionEffect
    <3>2. HandledFor(x)' = HandledFor(x)
        BY <1>7, <1>i, <2>1, <2>4, HandledGrows
    <3> QED
        BY <3>1, <3>2 DEF OutcomeAgrees
  <2> QED
      BY <2>3, <2>4
<1>8. ASSUME NEW o \in Order, NEW f \in {"confirmed", "failed"}, Settles(o, f)
      PROVE  OutcomeAgrees(x)'
  <2>1. HandledFor(x)' = HandledFor(x)
      BY <1>8, HandledSame DEF Settles
  <2>2. CASE Terminal(o)
      BY <1>1, <1>8, <2>1, <2>2 DEF Settles, SettlePayment
  <2>3. CASE ~Terminal(o)
      BY <1>5, <1>8, <2>1, <2>3 DEF Settles, SettlePayment, HookStatus
  <2> QED
      BY <2>2, <2>3
<1>9. ASSUME NEW o \in Order, Marks(o) PROVE OutcomeAgrees(x)'
  <2>1. HandledFor(x)' = HandledFor(x)
      BY <1>9, HandledSame DEF Marks
  <2>2. /\ payments' = [payments EXCEPT ![o] = "RECONCILIATION_NEEDED"]
        /\ announced' = [announced EXCEPT ![o] = @ \union {"reconciliation.needed"}]
      BY <1>9 DEF Marks, Write
  <2>3. EventOf[payments[o]] \notin {"confirmed", "failed"}
      BY <1>9, <1>i DEF Marks, Terminal, PaymentStatus, EventOf
  <2>4. CASE x = o
    <3>1. announced'[x] \cap {"confirmed", "failed"}
             = announced[x] \cap {"confirmed", "failed"}
        BY <1>i, <2>2, <2>4
    <3> QED
        BY <2>1, <2>3, <2>4, <3>1 DEF OutcomeAgrees
  <2>5. CASE x # o
      BY <1>i, <2>1, <2>2, <2>5 DEF OutcomeAgrees
  <2> QED
      BY <2>4, <2>5
<1> QED
    BY <1>2, <1>3, <1>4, <1>6, <1>7, <1>8, <1>9, StepCases

\* The status of every payment has been announced, and without a webhook no
\* outcome but the one in the tables, although late verifiers and overlapping
\* runs of the job announce only if their UPDATE found a pending row.
THEOREM EventsAgree == Spec => []EventsAgreeWithPayment
<1> DEFINE Inv == SagaInv /\ \A o \in Order : OutcomeAgrees(o)
<1>1. Init => Inv
    BY SagaInvInit DEF Init, OutcomeAgrees
<1>2. Inv /\ [Next]_vars => Inv'
    BY SagaInvStep, OutcomeStep
<1>3. Inv => EventsAgreeWithPayment
    BY DEF SagaInv, Rows, StatusAnnounced, Opened, OutcomeAgrees, EventsAgreeWithPayment
<1> HIDE DEF Inv
<1> QED
    BY <1>1, <1>2, <1>3, PTL DEF Spec

-----------------------------------------------------------------------------
LEMMA SettledInit == Init => \A o \in Order : SettledCounted(o)
<1> SUFFICES ASSUME Init, NEW o \in Order PROVE SettledCounted(o)
    OBVIOUS
<1>1. HandledFor(o) = {} /\ settlements[o] = 0
    BY DEF Init, HandledFor
<1> QED
    BY <1>1, FS_EmptySet DEF SettledCounted

LEMMA SettledStep ==
    ASSUME SagaInv, [Next]_vars, \A o \in Order : SettledCounted(o)
    PROVE  \A o \in Order : SettledCounted(o)'
<1> SUFFICES ASSUME NEW x \in Order PROVE SettledCounted(x)'
    OBVIOUS
<1>i. /\ TypeOK /\ Rows /\ UnderWayRight /\ SettledCounted(x)
      /\ payments \in [Order -> PaymentStatus] /\ settlements \in [Order -> Nat]
      /\ Cardinality(HandledFor(x)) \in Nat
    BY HandledFinite DEF SagaInv, TypeOK
<1>1. ASSUME UNCHANGED <<payments, settlements, handled>>,
             HandledFor(x)' = HandledFor(x)
      PROVE  SettledCounted(x)'
    BY <1>1, <1>i DEF SettledCounted, Terminal
<1>2. ASSUME NEW o \in Order, ChargeCard(o) \/ GatewayDecides(o)
      PROVE  SettledCounted(x)'
    BY <1>1, <1>2, HandledSame DEF ChargeCard, GatewayDecides, tables
<1>3. ASSUME NEW h \in Webhook, NEW o \in Order, IssueWebhook(h, o)
      PROVE  SettledCounted(x)'
    BY <1>1, <1>3, HandledSame DEF IssueWebhook, tables
<1>4. CASE RowsRest
    BY <1>1, <1>4, HandledSame DEF RowsRest
<1>5. ASSUME NEW o \in Order, NEW s \in HookStatus, Transition(o, s), ~Terminal(o),
             HandledFor(x)' = HandledFor(x)
      PROVE  SettledCounted(x)'
  <2>1. /\ payments'[o] \in {"CONFIRMED", "FAILED", "PENDING_VERIFICATION"}
        /\ payments'[o] = "PENDING_VERIFICATION" <=> s = "unknown"
        /\ settlements'[o] = settlements[o] + (IF s = "unknown" THEN 0 ELSE 1)
        /\ x # o => payments'[x] = payments[x] /\ settlements'[x] = settlements[x]
      BY <1>i, <1>5, TransitionEffect
  <2> QED
      BY <1>i, <1>5, <2>1 DEF SettledCounted, Terminal
<1>6. ASSUME NEW o \in Order, CommitCheckout(o) PROVE SettledCounted(x)'
  <2>1. Transition(o, answer[o]) /\ answer[o] \in HookStatus /\ ~Terminal(o)
      BY <1>6, <1>i DEF CommitCheckout, TypeOK, ChargeAnswer, HookStatus, Terminal
  <2>2. HandledFor(x)' = HandledFor(x)
      BY <1>6, HandledSame DEF CommitCheckout, outside
  <2> QED
      BY <1>5, <2>1, <2>2
<1>7. ASSUME NEW h \in Webhook, HandleWebhook(h) PROVE SettledCounted(x)'
  <2>1. PICK o \in Order : o = hooks[h].ord
      BY <1>7, <1>i DEF HandleWebhook, UnderWayRight
  <2>2. Transition(o, hooks[h].status) /\ hooks[h].status \in HookStatus
      BY <1>7, <1>i, <2>1 DEF HandleWebhook, TypeOK
  <2>3. /\ payments'[o] \in {"CONFIRMED", "FAILED", "PENDING_VERIFICATION"}
        /\ payments'[o] = "PENDING_VERIFICATION" <=> hooks[h].status = "unknown"
        /\ settlements'[o] = settlements[o] + (IF hooks[h].status = "unknown" THEN 0 ELSE 1)
        /\ x # o => payments'[x] = payments[x] /\ settlements'[x] = settlements[x]
      BY <1>i, <2>2, TransitionEffect
  <2>4. IF x = o THEN Cardinality(HandledFor(x)') = Cardinality(HandledFor(x)) + 1
        ELSE HandledFor(x)' = HandledFor(x)
      BY <1>7, <1>i, <2>1, HandledGrows
  <2> QED
      BY <1>i, <2>3, <2>4 DEF SettledCounted, Terminal
<1>8. ASSUME NEW o \in Order, NEW f \in {"confirmed", "failed"}, Settles(o, f)
      PROVE  SettledCounted(x)'
  <2>1. HandledFor(x)' = HandledFor(x)
      BY <1>8, HandledSame DEF Settles
  <2>2. CASE Terminal(o)
      BY <1>1, <1>8, <2>1, <2>2 DEF Settles, SettlePayment
  <2>3. CASE ~Terminal(o)
      BY <1>5, <1>8, <2>1, <2>3 DEF Settles, SettlePayment, HookStatus
  <2> QED
      BY <2>2, <2>3
<1>9. ASSUME NEW o \in Order, Marks(o) PROVE SettledCounted(x)'
  <2>1. HandledFor(x)' = HandledFor(x)
      BY <1>9, HandledSame DEF Marks
  <2>2. settlements' = settlements /\ (Terminal(x)' <=> Terminal(x))
      BY <1>9, <1>i DEF Marks, Write, Terminal
  <2> QED
      BY <1>i, <2>1, <2>2 DEF SettledCounted
<1> QED
    BY <1>2, <1>3, <1>4, <1>6, <1>7, <1>8, <1>9, StepCases

\* Verifiers, duplicated messages, overlapping runs of the job and the checkout
\* settle a payment at most once between them; a webhook allows one more.
THEOREM SettlementsAreCounted == Spec => []SettledOncePerWebhook
<1> DEFINE Inv == SagaInv /\ \A o \in Order : SettledCounted(o)
<1>1. Init => Inv
    BY SagaInvInit, SettledInit
<1>2. Inv /\ [Next]_vars => Inv'
    BY SagaInvStep, SettledStep
<1>3. Inv => SettledOncePerWebhook
  <2> SUFFICES ASSUME Inv, NEW o \in Order
               PROVE  settlements[o] <= 1 + Cardinality(HandledFor(o))
      BY DEF SettledOncePerWebhook
  <2>1. settlements[o] \in Nat /\ Cardinality(HandledFor(o)) \in Nat
      BY HandledFinite DEF SagaInv, TypeOK
  <2> QED
      BY <2>1 DEF SettledCounted
<1> HIDE DEF Inv
<1> QED
    BY <1>1, <1>2, <1>3, PTL DEF Spec

-----------------------------------------------------------------------------
\* Sets of verifiers are finite: one that loses members shrinks, one that gains
\* a verifier grows by one at most.
LEMMA HoldingCounts ==
    ASSUME NEW S \in SUBSET Verifier, NEW v \in Verifier
    PROVE  /\ IsFiniteSet(S) /\ Cardinality(S) \in Nat
           /\ \A R \in SUBSET S : Cardinality(R) \in Nat /\ Cardinality(R) <= Cardinality(S)
           /\ Cardinality(S \union {v}) <= Cardinality(S) + 1
           /\ v \in S => Cardinality(S \ {v}) = Cardinality(S) - 1
<1>1. IsFiniteSet(S) /\ Cardinality(S) \in Nat
    BY SetAssumption, FS_Subset, FS_CardinalityType
<1> QED
    BY <1>1, FS_Subset, FS_CardinalityType, FS_AddElement, FS_RemoveElement

\* A verifier that does not enter a lookup, on a lock nobody touches.
LEMMA HoldingShrinks ==
    ASSUME SagaInv, NEW x \in Order, LockCounted(x), Holding(x)' \in SUBSET Holding(x),
           lock'[x] = lock[x], expiries' = expiries
    PROVE  LockCounted(x)'
<1>1. CASE Holding(x) = {}
    BY <1>1 DEF LockCounted
<1>2. CASE Holding(x) # {}
  <2>1. PICK v \in Verifier : v \in Holding(x)
      BY <1>2 DEF Holding
  <2>2. Holding(x) \in SUBSET Verifier /\ expiries[x] \in Nat
      BY DEF Holding, SagaInv, TypeOK
  <2>3. /\ Cardinality(Holding(x)) \in Nat /\ Cardinality(Holding(x)') \in Nat
        /\ Cardinality(Holding(x)') <= Cardinality(Holding(x))
      BY <2>1, <2>2, HoldingCounts
  <2> QED
      BY <2>2, <2>3 DEF LockCounted
<1> QED
    BY <1>1, <1>2

LEMMA LockInit == Init => \A o \in Order : LockCounted(o)
<1> SUFFICES ASSUME Init, NEW o \in Order PROVE LockCounted(o)
    OBVIOUS
<1>1. Holding(o) = {} /\ ~lock[o] /\ expiries[o] = 0
    BY DEF Init, IdleVerifier, Holding
<1> QED
    BY <1>1, FS_EmptySet DEF LockCounted

LEMMA LockStep ==
    ASSUME SagaInv, [Next]_vars, \A o \in Order : LockCounted(o)
    PROVE  \A o \in Order : LockCounted(o)'
<1> SUFFICES ASSUME NEW x \in Order PROVE LockCounted(x)'
    OBVIOUS
<1> USE DEF outside, tables, broker, redis, procs
<1>i. /\ TypeOK /\ WorkersRight /\ LockCounted(x)
      /\ verifiers \in [Verifier -> VerifierState]
      /\ lock \in [Order -> BOOLEAN] /\ expiries \in [Order -> Nat]
      /\ Holding(x) \in SUBSET Verifier
    BY DEF SagaInv, TypeOK, Holding
<1>1. CASE UNCHANGED <<verifiers, lock, expiries>>
    BY <1>1 DEF LockCounted, Holding
<1>2. ASSUME NEW v \in Verifier, UNCHANGED <<lock, expiries>>, NEW w \in VerifierState,
             verifiers' = [verifiers EXCEPT ![v] = w],
             \/ w.pc \notin {"lookup", "apply", "release"}
             \/ v \in Holding(w.ord)
      PROVE  LockCounted(x)'
  <2>1. Holding(x)' \in SUBSET Holding(x)
      BY <1>2, <1>i DEF Holding
  <2> QED
      BY <1>2, <1>i, <2>1, HoldingShrinks
<1>3. ASSUME NEW v \in Verifier, AcquireLock(v) PROVE LockCounted(x)'
  <2>1. PICK o : o = verifiers[v].ord
      OBVIOUS
  <2>2. o \in Order /\ v \notin Holding(x)
      BY <1>3, <1>i, <2>1 DEF AcquireLock, WorkersRight, VerifierRight, Holding
  <2>3. CASE ~lock[o] /\ lock' = [lock EXCEPT ![o] = TRUE] /\ Moves(v, "lookup", "none")
    <3>1. CASE x = o
      <4>1. Holding(x)' = Holding(x) \union {v}
          BY <1>i, <2>1, <2>3, <3>1 DEF Moves, Holding
      <4>2. ~lock[x] /\ lock'[x] /\ expiries' = expiries
          BY <1>3, <1>i, <2>2, <2>3, <3>1 DEF AcquireLock
      <4>3. /\ Cardinality(Holding(x)) \in Nat
            /\ Cardinality(Holding(x)') <= Cardinality(Holding(x)) + 1
          BY <1>i, <4>1, HoldingCounts
      <4>4. Cardinality(Holding(x)) + 1 <= 1 + expiries[x]
          BY <1>i, <4>2 DEF LockCounted
      <4>5. Cardinality(Holding(x)') \in Nat
          BY <1>i, <4>1, HoldingCounts, FS_AddElement, FS_CardinalityType
      <4> QED
          BY <1>i, <4>2, <4>3, <4>4, <4>5 DEF LockCounted
    <3>2. CASE x # o
      <4>1. Holding(x)' \in SUBSET Holding(x)
          BY <1>i, <2>1, <2>3, <3>2 DEF Moves, Holding
      <4>2. lock'[x] = lock[x] /\ expiries' = expiries
          BY <1>3, <1>i, <2>2, <2>3, <3>2 DEF AcquireLock
      <4> QED
          BY <1>i, <4>1, <4>2, HoldingShrinks
    <3> QED
        BY <3>1, <3>2
  <2>4. CASE verifiers' = [verifiers EXCEPT ![v] = IdleVerifier] /\ UNCHANGED lock
      BY <1>2, <1>3, <2>4, IdleIsRight DEF AcquireLock, IdleVerifier
  <2>5. CASE Moves(v, "failed", "none") /\ UNCHANGED lock
    <3>1. Holding(x)' \in SUBSET Holding(x)
        BY <1>i, <2>5 DEF Moves, Holding
    <3> QED
        BY <1>3, <1>i, <2>5, <3>1, HoldingShrinks DEF AcquireLock
  <2> QED
      BY <1>3, <2>1, <2>3, <2>4, <2>5 DEF AcquireLock
<1>4. ASSUME NEW v \in Verifier, ReleaseLock(v) PROVE LockCounted(x)'
  <2>1. PICK o : o = verifiers[v].ord
      OBVIOUS
  <2>2. o \in Order /\ v \in Holding(o) /\ expiries' = expiries
      BY <1>4, <1>i, <2>1 DEF ReleaseLock, WorkersRight, VerifierRight, Holding
  <2>3. Holding(x)' = Holding(x) \ {v}
      BY <1>4, <1>i DEF ReleaseLock, Moves, IdleVerifier, Holding
  <2>4. CASE x = o
    <3>1. /\ Cardinality(Holding(x)) \in Nat
          /\ Cardinality(Holding(x)') = Cardinality(Holding(x)) - 1
        BY <1>i, <2>2, <2>3, <2>4, HoldingCounts
    <3> QED
        BY <1>i, <2>2, <3>1 DEF LockCounted
  <2>5. CASE x # o
    <3>1. lock'[x] = lock[x]
        BY <1>4, <1>i, <2>1, <2>2, <2>5 DEF ReleaseLock
    <3> QED
        BY <1>i, <2>2, <2>3, <3>1, HoldingShrinks
  <2> QED
      BY <2>4, <2>5
<1>5. ASSUME NEW o \in Order, LockExpires(o) PROVE LockCounted(x)'
  <2>1. Holding(x)' = Holding(x)
      BY <1>5 DEF LockExpires, Holding
  <2>2. CASE x = o
    <3>1. CASE Holding(o) = {}
      <4>1. Cardinality(Holding(x)') = 0
          BY <2>1, <2>2, <3>1, FS_EmptySet
      <4> QED
          BY <1>5, <1>i, <2>2, <3>1, <4>1 DEF LockExpires, LockCounted
    <3>2. CASE Holding(o) # {}
      <4>1. PICK v \in Verifier : v \in Holding(o)
          BY <3>2 DEF Holding
      <4>2. Cardinality(Holding(x)) \in Nat
          BY <1>i, <4>1, HoldingCounts
      <4>3. lock[x] /\ ~lock'[x] /\ expiries'[x] = expiries[x] + 1
          BY <1>5, <1>i, <2>2, <3>2 DEF LockExpires
      <4> QED
          BY <1>i, <2>1, <4>2, <4>3 DEF LockCounted
    <3> QED
        BY <3>1, <3>2
  <2>3. CASE x # o
      BY <1>5, <1>i, <2>1, <2>3 DEF LockExpires, LockCounted
  <2> QED
      BY <2>2, <2>3
<1>6. ASSUME NEW v \in Verifier, LookupPayment(v) \/ ApplyVerification(v)
      PROVE  LockCounted(x)'
  <2>1. /\ Holding(x)' \in SUBSET Holding(x)
        /\ UNCHANGED <<lock, expiries>>
      BY <1>6, <1>i DEF LookupPayment, ApplyVerification, Moves, Holding
  <2> QED
      BY <1>i, <2>1, HoldingShrinks
<1>7. ASSUME NEW v \in Verifier, CountAttempt(v) \/ PublishDlq(v) \/ CrashVerifier(v)
      PROVE  LockCounted(x)'
  <2>1. /\ Holding(x)' \in SUBSET Holding(x)
        /\ UNCHANGED <<lock, expiries>>
    <3>1. ASSUME CountAttempt(v) PROVE Holding(x)' \in SUBSET Holding(x)
      <4> DEFINE y == verifiers[v]
                 w == [pc |-> "acquire", ord |-> y.ord, attempt |-> y.attempt + 1,
                       found |-> y.found]
                 d == [pc |-> "dlq", ord |-> y.ord, attempt |-> y.attempt, found |-> y.found]
      <4>1. \/ verifiers' = [verifiers EXCEPT ![v] = w]
            \/ verifiers' = [verifiers EXCEPT ![v] = d]
            \/ verifiers' = [verifiers EXCEPT ![v] = IdleVerifier]
          BY <1>i, <3>1 DEF CountAttempt, VerifierState
      <4> QED
          BY <1>i, <4>1 DEF IdleVerifier, Holding
    <3>2. ASSUME PublishDlq(v) \/ CrashVerifier(v) PROVE Holding(x)' \in SUBSET Holding(x)
        BY <1>i, <3>2 DEF PublishDlq, CrashVerifier, IdleVerifier, Holding
    <3> QED
        BY <1>7, <3>1, <3>2 DEF CountAttempt, PublishDlq, CrashVerifier
  <2> QED
      BY <1>i, <2>1, HoldingShrinks
<1>8. ASSUME NEW v \in Verifier, NEW o \in Order, ReceiveVerification(v, o)
      PROVE  LockCounted(x)'
  <2>1. /\ Holding(x)' \in SUBSET Holding(x)
        /\ UNCHANGED <<lock, expiries>>
      BY <1>8, <1>i DEF ReceiveVerification, Holding
  <2> QED
      BY <1>i, <2>1, HoldingShrinks
<1>9. CASE Gateway \/ Api \/ (\E o \in Order : DuplicateMessage(o)) \/ UNCHANGED vars
    BY <1>1, <1>9 DEF Gateway, Api, ChargeCard, GatewayDecides, IssueWebhook, CommitCheckout,
       Reprocess, HandleWebhook, DuplicateMessage, vars
<1>10. CASE Reconciliation
    BY <1>1, <1>10 DEF Reconciliation, ReconcilerStep, FindPayments, ReconcileLookup,
       ApplyReconciliation, ApplyReconciliationThrows, MarkReconciliationNeeded,
       TouchReconciliation, AbortRun, CheckAges
<1> QED
    BY <1>3, <1>4, <1>5, <1>6, <1>7, <1>8, <1>9, <1>10 DEF Next, Verification, VerifierStep

\* One verifier per payment is past the lock, and one more for each lock that
\* ran out under its holder, although a verifier may delete another one's lock.
THEOREM LockIsCounted == Spec => []LockExcludes
<1> DEFINE Inv == SagaInv /\ \A o \in Order : LockCounted(o)
<1>1. Init => Inv
    BY SagaInvInit, LockInit
<1>2. Inv /\ [Next]_vars => Inv'
    BY SagaInvStep, LockStep
<1>3. Inv => LockExcludes
  <2> SUFFICES ASSUME Inv, NEW o \in Order
               PROVE  Cardinality(Holding(o)) <= 1 + expiries[o]
      BY DEF LockExcludes
  <2>1. expiries[o] \in Nat /\ Holding(o) \in SUBSET Verifier
      BY DEF SagaInv, TypeOK, Holding
  <2>2. Cardinality(Holding(o)) \in Nat
      BY <2>1, SetAssumption, FS_Subset, FS_CardinalityType
  <2> QED
      BY <2>1, <2>2 DEF LockCounted
<1> HIDE DEF Inv
<1> QED
    BY <1>1, <1>2, <1>3, PTL DEF Spec

-----------------------------------------------------------------------------
LEMMA LifecycleInit == Init => Lifecycle!Init
<1> SUFFICES ASSUME Init PROVE Lifecycle!Init
    OBVIOUS
<1>1. \A o \in Order : Cardinality(HandledFor(o)) = 0
    BY FS_EmptySet DEF Init, HandledFor
<1>2. \A o \in Order : PhaseOf[payments[o]] = "none" /\ MoneyOf[gateway[o]] = "undecided"
    BY DEF Init, PhaseOf, MoneyOf
<1> QED
    BY <1>1, <1>2 DEF Lifecycle!Init

LEMMA LifecycleStep == SagaInv /\ SagaInv' /\ [Next]_vars => [Lifecycle!Next]_(Lifecycle!vars)
<1> SUFFICES ASSUME SagaInv, SagaInv', [Next]_vars
             PROVE  [Lifecycle!Next]_(Lifecycle!vars)
    OBVIOUS
<1>i. /\ TypeOK /\ UnderWayRight
      /\ payments \in [Order -> PaymentStatus] /\ gateway \in [Order -> Charge]
      /\ ConfirmedIsCaptured'
    BY DEF SagaInv, TypeOK, Rows
<1>s. ASSUME \A x \in Order : /\ PhaseOf[payments'[x]] = PhaseOf[payments[x]]
                              /\ MoneyOf[gateway'[x]] = MoneyOf[gateway[x]]
                              /\ HandledFor(x)' = HandledFor(x)
      PROVE  UNCHANGED Lifecycle!vars
    BY <1>s DEF Lifecycle!vars
<1>n. ASSUME \A x \in Order : HandledFor(x)' = HandledFor(x)
      PROVE  UNCHANGED [o \in Order |-> Cardinality(HandledFor(o))]
    BY <1>n
\* A write of one payment, by the gateway's word, is what the lifecycle allows.
<1>w. ASSUME NEW o \in Order, NEW p \in PaymentStatus \ {"none"},
             payments' = [payments EXCEPT ![o] = p], gateway' = gateway
      PROVE  /\ Lifecycle!Becomes(o, PhaseOf[p])
             /\ PhaseOf[p] \in {"pending", "confirmed", "canceled"}
  <2>1. p = "CONFIRMED" => gateway[o] = "confirmed"
      BY <1>i, <1>w DEF ConfirmedIsCaptured
  <2>2. /\ PhaseOf[p] \in {"pending", "confirmed", "canceled"}
        /\ PhaseOf[p] = "confirmed" => MoneyOf[gateway[o]] = "captured"
      BY <2>1 DEF PhaseOf, MoneyOf, PaymentStatus
  <2>3. [x \in Order |-> PhaseOf[payments[x]]]'
           = [[x \in Order |-> PhaseOf[payments[x]]] EXCEPT ![o] = PhaseOf[p]]
      BY <1>i, <1>w
  <2> QED
      BY <1>w, <2>2, <2>3 DEF Lifecycle!Becomes
<1>t. ASSUME NEW o \in Order, NEW s \in HookStatus, Transition(o, s)
      PROVE  \E p \in PaymentStatus \ {"none"} : payments' = [payments EXCEPT ![o] = p]
    BY <1>t DEF Transition, Write, HookStatus, PaymentStatus
<1>1. ASSUME NEW o \in Order, ChargeCard(o) \/ GatewayDecides(o)
      PROVE  Lifecycle!Decide(o) \/ UNCHANGED Lifecycle!vars
  <2>1. PICK g \in Charge : gateway' = [gateway EXCEPT ![o] = g]
      BY <1>1 DEF ChargeCard, GatewayDecides, Charge
  <2>2. /\ gateway[o] \in {"none", "absent", "open"} /\ payments' = payments
        /\ handled' = handled /\ hooks' = hooks
      BY <1>1 DEF ChargeCard, GatewayDecides, tables
  <2>3. \A x \in Order : HandledFor(x)' = HandledFor(x)
      BY <2>2, HandledSame
  <2>4. CASE g \in {"confirmed", "failed"}
    <3>1. /\ MoneyOf[gateway[o]] = "undecided" /\ MoneyOf[g] \in {"captured", "declined"}
        BY <2>2, <2>4 DEF MoneyOf
    <3>2. [x \in Order |-> MoneyOf[gateway[x]]]'
             = [[x \in Order |-> MoneyOf[gateway[x]]] EXCEPT ![o] = MoneyOf[g]]
        BY <1>i, <2>1
    <3>3. UNCHANGED [x \in Order |-> PhaseOf[payments[x]]]
        BY <2>2
    <3> QED
        BY <1>n, <2>3, <3>1, <3>2, <3>3 DEF Lifecycle!Decide
  <2>5. CASE g \notin {"confirmed", "failed"}
    <3>1. \A x \in Order : MoneyOf[gateway'[x]] = MoneyOf[gateway[x]]
        BY <1>i, <2>1, <2>2, <2>5 DEF MoneyOf, Charge
    <3> QED
        BY <1>s, <2>2, <2>3, <3>1
  <2> QED
      BY <2>4, <2>5
<1>2. ASSUME NEW o \in Order, CommitCheckout(o) PROVE Lifecycle!Open(o)
  <2>1. PICK p \in PaymentStatus \ {"none"} : payments' = [payments EXCEPT ![o] = p]
      BY <1>2, <1>i, <1>t DEF CommitCheckout, TypeOK, ChargeAnswer, HookStatus
  <2>2. /\ payments[o] = "none" /\ gateway' = gateway
        /\ \A x \in Order : HandledFor(x)' = HandledFor(x)
      BY <1>2, HandledSame DEF CommitCheckout, outside
  <2>3. PhaseOf[payments[o]] = "none"
      BY <2>2 DEF PhaseOf
  <2>4. Lifecycle!Becomes(o, PhaseOf[p]) /\ PhaseOf[p] \in {"pending", "confirmed", "canceled"}
      BY <1>w, <2>1, <2>2
  <2> QED
      BY <1>n, <2>2, <2>3, <2>4 DEF Lifecycle!Open
<1>3. ASSUME NEW h \in Webhook, HandleWebhook(h)
      PROVE  \E o \in Order : Lifecycle!Notify(o)
  <2>1. PICK o \in Order : o = hooks[h].ord
      BY <1>3, <1>i DEF HandleWebhook, UnderWayRight
  <2>2. PICK p \in PaymentStatus \ {"none"} : payments' = [payments EXCEPT ![o] = p]
      BY <1>3, <1>i, <1>t, <2>1 DEF HandleWebhook, TypeOK
  <2>3. payments[o] # "none" /\ gateway' = gateway
      BY <1>3, <2>1 DEF HandleWebhook, outside
  <2>4. PhaseOf[payments[o]] # "none"
      BY <1>i, <2>3 DEF PhaseOf, PaymentStatus
  <2>5. [x \in Order |-> Cardinality(HandledFor(x))]'
           = [[x \in Order |-> Cardinality(HandledFor(x))]
                EXCEPT ![o] = @ + 1]
    <3>1. /\ \A x \in Order \ {o} : HandledFor(x)' = HandledFor(x)
          /\ Cardinality(HandledFor(o)') = Cardinality(HandledFor(o)) + 1
        BY <1>3, <1>i, <2>1, HandledGrows
    <3> QED
        BY <3>1
  <2>6. Lifecycle!Becomes(o, PhaseOf[p]) /\ PhaseOf[p] \in {"pending", "confirmed", "canceled"}
      BY <1>w, <2>2, <2>3
  <2> QED
      BY <2>4, <2>5, <2>6 DEF Lifecycle!Notify
<1>4. ASSUME NEW o \in Order, NEW f \in {"confirmed", "failed"}, Settles(o, f)
      PROVE  Lifecycle!Settle(o) \/ UNCHANGED Lifecycle!vars
  <2>1. gateway' = gateway /\ \A x \in Order : HandledFor(x)' = HandledFor(x)
      BY <1>4, HandledSame DEF Settles
  <2>2. CASE Terminal(o)
      BY <1>4, <1>s, <2>1, <2>2 DEF Settles, SettlePayment
  <2>3. CASE ~Terminal(o)
    <3>1. PhaseOf[payments[o]] = "pending"
        BY <1>4, <1>i, <2>3 DEF Settles, Opened, Terminal, PaymentStatus, PhaseOf
    <3>2. PICK p \in {"CONFIRMED", "FAILED"} : payments' = [payments EXCEPT ![o] = p]
        BY <1>4, <2>3 DEF Settles, SettlePayment, Transition, Write
    <3>3. Lifecycle!Becomes(o, PhaseOf[p]) /\ PhaseOf[p] \in {"confirmed", "canceled"}
        BY <1>w, <2>1, <3>2 DEF PaymentStatus, PhaseOf
    <3> QED
        BY <1>n, <2>1, <3>1, <3>3 DEF Lifecycle!Settle
  <2> QED
      BY <2>2, <2>3
<1>5. ASSUME NEW o \in Order, Marks(o) PROVE UNCHANGED Lifecycle!vars
  <2>1. gateway' = gateway /\ \A x \in Order : HandledFor(x)' = HandledFor(x)
      BY <1>5, HandledSame DEF Marks
  <2>2. \A x \in Order : PhaseOf[payments'[x]] = PhaseOf[payments[x]]
      BY <1>5, <1>i DEF Marks, Write, Opened, Terminal, PaymentStatus, PhaseOf
  <2> QED
      BY <1>s, <2>1, <2>2
<1>6. ASSUME NEW h \in Webhook, NEW o \in Order, IssueWebhook(h, o)
      PROVE  UNCHANGED Lifecycle!vars
    BY <1>6, <1>s, HandledSame DEF IssueWebhook, tables
<1>7. CASE RowsRest
    BY <1>7, <1>s, HandledSame DEF RowsRest
<1> QED
    BY <1>1, <1>2, <1>3, <1>4, <1>5, <1>6, <1>7, StepCases DEF Lifecycle!Next

\* The saga implements the lifecycle: a payment is opened once, settled once by
\* whoever comes first, and changed after that by webhooks only.
THEOREM SagaImplementsLifecycle == Spec => LifecycleSpec
<1>1. Init => Lifecycle!Init
    BY LifecycleInit
<1>2. SagaInv /\ SagaInv' /\ [Next]_vars => [Lifecycle!Next]_(Lifecycle!vars)
    BY LifecycleStep
<1>3. Spec => []SagaInv
    BY SagaInvHolds
<1> QED
    BY <1>1, <1>2, <1>3, PTL DEF Spec, LifecycleSpec, Lifecycle!Spec
=============================================================================
