----------------------------- MODULE PaymentSaga -----------------------------
(***************************************************************************)
(* The payment consistency saga: the tables orders, payments and           *)
(* payment_webhook_events with the events the same transactions put in     *)
(* outbox_events; the four parties that write them (the checkout, gateway  *)
(* webhooks, the verification worker and the reconciliation job); and the  *)
(* payment gateway, which is external.                                     *)
(*                                                                         *)
(* An order and its payment are one member of Order (one payment per       *)
(* order).  Every transaction locks the payment row first, so it is one    *)
(* step.  Columns nobody reads (verification_attempts,                     *)
(* next_verification_at, last_error, last_gateway_status) are left out.    *)
(***************************************************************************)
EXTENDS Integers, FiniteSets

CONSTANTS Order,        \* orders, with their payments
          NoOrder,      \* the ord of an idle process
          Webhook,      \* ids of the webhook events the gateway may issue
          Verifier,     \* handlers of payments.verification.requested
          Reconciler,   \* runs of the reconciliation job, which may overlap
          MaxAttempts,  \* attempts of processVerificationWithRetry (5 in the code)
          MaxCopies,    \* bound: extra copies of verification messages, per order
          MaxExpiries,  \* bound: locks that run out, per order
          MaxCrashes    \* bound: crashes of the worker

ASSUME SetAssumption == /\ NoOrder \notin Order
                        /\ IsFiniteSet(Webhook) /\ IsFiniteSet(Verifier)
ASSUME BoundAssumption == /\ MaxAttempts \in Nat \ {0}
                          /\ {MaxCopies, MaxExpiries, MaxCrashes} \subseteq Nat

VARIABLES gateway,      \* Order -> what the gateway did with the charge
          answer,       \* Order -> what charge() returned to a running checkout
          hooks,        \* Webhook -> the issued webhook, or not issued
          orders,       \* Order -> orders.status
          payments,     \* Order -> payments.status
          checked,      \* Order -> reconciliation_checked_at is under 5 minutes old
          handled,      \* payment_webhook_events
          announced,    \* Order -> types of its payment events in outbox_events
          settlements,  \* Order -> its confirmed and failed events in outbox_events
          topic,        \* Order -> verification messages no handler has taken
          copies, expiries, crashes,  \* counts of the bounded events
          dlq,          \* orders dead-lettered to payments.verification.dlq
          lock,         \* Order -> the Redis key payments.verification.lock:<id> exists
          verifiers,    \* Verifier -> [pc, ord, attempt, found]
          reconcilers   \* Reconciler -> [pc, batch, ord, found]

outside == <<gateway, answer, hooks>>
tables  == <<orders, payments, checked, handled, announced, settlements>>
broker  == <<topic, copies, dlq>>
redis   == <<lock, expiries>>
procs   == <<verifiers, reconcilers, crashes>>
vars == <<outside, tables, broker, redis, procs>>

OrderStatus   == {"none", "PENDING", "CONFIRMED", "CANCELED"}
PaymentStatus == {"none", "PENDING_VERIFICATION", "CONFIRMED", "FAILED",
                  "RECONCILIATION_NEEDED"}
EventType     == {"confirmed", "failed", "verification.requested",
                  "reconciliation.needed"}
Charge        == {"none", "absent", "open", "confirmed", "failed"}
ChargeAnswer  == {"none", "confirmed", "failed", "unknown"}
HookStatus    == {"confirmed", "failed", "unknown"}
Lookup        == {"none", "confirmed", "failed", "error"}

VerifierPc    == {"idle", "acquire", "lookup", "apply", "release", "failed", "dlq"}
ReconcilerPc  == {"idle", "lookup", "apply", "mark", "touch"}

VerifierState == [pc : VerifierPc, ord : Order \union {NoOrder},
                  attempt : 0..MaxAttempts, found : Lookup]
ReconcilerState == [pc : ReconcilerPc, batch : SUBSET Order,
                    ord : Order \union {NoOrder}, found : Lookup]

NotIssued == [ord |-> NoOrder, status |-> "unknown"]
IdleVerifier == [pc |-> "idle", ord |-> NoOrder, attempt |-> 0, found |-> "none"]
IdleReconciler == [pc |-> "idle", batch |-> {}, ord |-> NoOrder, found |-> "none"]

Terminal(o) == payments[o] \in {"CONFIRMED", "FAILED"}
Pending(o)  == payments[o] \in {"PENDING_VERIFICATION", "RECONCILIATION_NEEDED"}

\* Verifiers past the lock of order o.
Holding(o) == {v \in Verifier : verifiers[v].ord = o
                                /\ verifiers[v].pc \in {"lookup", "apply", "release"}}

Init == /\ gateway = [o \in Order |-> "none"]
        /\ answer = [o \in Order |-> "none"]
        /\ hooks = [h \in Webhook |-> NotIssued]
        /\ orders = [o \in Order |-> "none"]
        /\ payments = [o \in Order |-> "none"]
        /\ checked = [o \in Order |-> FALSE]
        /\ handled = {}
        /\ announced = [o \in Order |-> {}]
        /\ settlements = [o \in Order |-> 0]
        /\ topic = [o \in Order |-> 0]
        /\ copies = [o \in Order |-> 0]
        /\ expiries = [o \in Order |-> 0]
        /\ crashes = 0
        /\ dlq = {}
        /\ lock = [o \in Order |-> FALSE]
        /\ verifiers = [v \in Verifier |-> IdleVerifier]
        /\ reconcilers = [r \in Reconciler |-> IdleReconciler]

-----------------------------------------------------------------------------
(* The gateway. *)

\* The checkout of createOrder calls charge().  The gateway decides at once,
\* or the answer is a timeout or unknown: the charge is under way, decided
\* although the answer was lost, or has not arrived.
ChargeCard(o) ==
    /\ gateway[o] = "none"
    /\ \E g \in Charge \ {"none"}, a \in ChargeAnswer \ {"none"} :
          /\ a # "unknown" => g = a
          /\ gateway' = [gateway EXCEPT ![o] = g]
          /\ answer' = [answer EXCEPT ![o] = a]
    /\ UNCHANGED <<hooks, tables, broker, redis, procs>>

\* A delayed charge arrives, or a charge under way is decided, for good.
GatewayDecides(o) ==
    /\ \/ gateway[o] = "absent" /\ gateway' = [gateway EXCEPT ![o] = "open"]
       \/ /\ gateway[o] = "open"
          /\ \E g \in {"confirmed", "failed"} : gateway' = [gateway EXCEPT ![o] = g]
    /\ UNCHANGED <<answer, hooks, tables, broker, redis, procs>>

\* The gateway issues a webhook that says what is true of the charge now.
\* It may arrive at any later time, several times, after younger ones.
IssueWebhook(h, o) ==
    /\ hooks[h] = NotIssued
    /\ gateway[o] \in {"open", "confirmed", "failed"}
    /\ hooks' = [hooks EXCEPT ![h] =
                   [ord |-> o, status |-> IF gateway[o] = "open" THEN "unknown"
                                                                ELSE gateway[o]]]
    /\ UNCHANGED <<gateway, answer, tables, broker, redis, procs>>

\* Mutant: a charge under way counts as confirmed.
MutantLookupAnswers(o) == {"error"} \union (IF gateway[o] \in {"absent", "failed"}
                                            THEN {"failed"} ELSE {"confirmed"})

\* lookupPayment: the truth, "unknown", or a timeout.  not_found is treated
\* by both callers as failed is, unknown and a timeout as an error is.
LookupAnswers(o) ==
    {"error"} \union CASE gateway[o] = "absent" -> {"failed"}
                       [] gateway[o] \in {"confirmed", "failed"} -> {gateway[o]}
                       [] OTHER -> {}

-----------------------------------------------------------------------------
(* Transactions.  Each names what it does to one order's rows. *)

\* The rows of order o and the event announcing them, as one commit.  The
\* event has no place among the others: its created_at is the start of the
\* transaction, which may precede that of an event committed before.
Write(o, ordStatus, payStatus, event) ==
    /\ orders' = [orders EXCEPT ![o] = ordStatus]
    /\ payments' = [payments EXCEPT ![o] = payStatus]
    /\ announced' = [announced EXCEPT ![o] = @ \union {event}]
    /\ settlements' = IF event \in {"confirmed", "failed"}
                      THEN [settlements EXCEPT ![o] = @ + 1] ELSE settlements
    /\ topic' = IF event = "verification.requested"
                THEN [topic EXCEPT ![o] = @ + 1] ELSE topic

\* What the gateway's word makes of an order, at checkout and in a webhook.
Transition(o, status) ==
    CASE status = "confirmed" -> Write(o, "CONFIRMED", "CONFIRMED", "confirmed")
      [] status = "failed"    -> Write(o, "CANCELED", "FAILED", "failed")
      [] status = "unknown"   -> Write(o, "PENDING", "PENDING_VERIFICATION",
                                       "verification.requested")

\* Mutants: no WHERE status NOT IN (confirmed, failed); the event is
\* inserted although no row was updated.
MutantSettleUnguarded(o, found) == Transition(o, found)
MutantSettleAnnounces(o, found) ==
    IF Terminal(o) THEN Write(o, orders[o], payments[o], found)
    ELSE Transition(o, found)

\* confirmPayment and failPayment: nothing happens to a terminal payment.
SettlePayment(o, found) ==
    IF Terminal(o) THEN UNCHANGED <<orders, payments, announced, settlements, topic>>
    ELSE Transition(o, found)

NoWrite == UNCHANGED <<orders, payments, announced, settlements, topic>>

\* The checkout commits its order with the answer it holds.  If the process
\* dies or the transaction fails first, this step is never taken.
CommitCheckout(o) ==
    /\ answer[o] # "none" /\ payments[o] = "none"
    /\ Transition(o, answer[o])
    /\ UNCHANGED <<outside, checked, handled, copies, dlq, redis, procs>>

\* Mutant: no ON CONFLICT (event_id): a repeated webhook is applied again.
MutantHandleWebhook(h) ==
    LET o == hooks[h].ord IN
    /\ hooks[h] # NotIssued
    /\ payments[o] # "none"
    /\ handled' = handled \union {h}
    /\ Transition(o, hooks[h].status)
    /\ UNCHANGED <<outside, checked, copies, dlq, redis, procs>>

\* A webhook arrives.  An unknown payment is answered 404 and a handled
\* event id is acknowledged, both without a write; otherwise the transition
\* is applied whatever the status of the payment is.
HandleWebhook(h) ==
    LET o == hooks[h].ord IN
    /\ hooks[h] # NotIssued /\ h \notin handled
    /\ payments[o] # "none"
    /\ handled' = handled \union {h}
    /\ Transition(o, hooks[h].status)
    /\ UNCHANGED <<outside, checked, copies, dlq, redis, procs>>

-----------------------------------------------------------------------------
(* The verification worker. *)

\* Kafka delivers a copy again: a second publication by the outbox, or a
\* rebalance.
DuplicateMessage(o) ==
    /\ copies[o] < MaxCopies
    /\ topic[o] > 0 \/ \E v \in Verifier : verifiers[v].ord = o
    /\ copies' = [copies EXCEPT ![o] = @ + 1]
    /\ topic' = [topic EXCEPT ![o] = @ + 1]
    /\ UNCHANGED <<outside, tables, dlq, redis, procs>>

\* POST /admin/dlq/reprocess of a dead-lettered verification.
Reprocess(o) ==
    /\ o \in dlq /\ copies[o] < MaxCopies
    /\ copies' = [copies EXCEPT ![o] = @ + 1]
    /\ topic' = [topic EXCEPT ![o] = @ + 1]
    /\ UNCHANGED <<outside, tables, dlq, redis, procs>>

ReceiveVerification(v, o) ==
    /\ verifiers[v].pc = "idle" /\ topic[o] > 0
    /\ topic' = [topic EXCEPT ![o] = @ - 1]
    /\ verifiers' = [verifiers EXCEPT ![v] =
                       [pc |-> "acquire", ord |-> o, attempt |-> 1, found |-> "none"]]
    /\ UNCHANGED <<outside, tables, copies, dlq, redis, reconcilers, crashes>>

Moves(v, pc, found) ==
    verifiers' = [verifiers EXCEPT ![v] =
                       [pc |-> pc, ord |-> verifiers[v].ord,
                        attempt |-> verifiers[v].attempt, found |-> found]]

\* Mutant: SET without NX.
MutantAcquireLock(v) ==
    /\ verifiers[v].pc = "acquire"
    /\ lock' = [lock EXCEPT ![verifiers[v].ord] = TRUE]
    /\ Moves(v, "lookup", "none")
    /\ UNCHANGED <<outside, tables, broker, expiries, reconcilers, crashes>>

\* SET lock NX PX 30000.  A lock that is taken ends the handler as a success
\* ("duplicate"); Redis may fail.
AcquireLock(v) ==
    LET o == verifiers[v].ord IN
    /\ verifiers[v].pc = "acquire"
    /\ \/ /\ ~lock[o]
          /\ lock' = [lock EXCEPT ![o] = TRUE]
          /\ Moves(v, "lookup", "none")
       \/ /\ lock[o]
          /\ verifiers' = [verifiers EXCEPT ![v] = IdleVerifier]
          /\ UNCHANGED lock
       \/ Moves(v, "failed", "none") /\ UNCHANGED lock
    /\ UNCHANGED <<outside, tables, broker, expiries, reconcilers, crashes>>

LookupPayment(v) ==
    /\ verifiers[v].pc = "lookup"
    /\ \E f \in LookupAnswers(verifiers[v].ord) :
          Moves(v, IF f = "error" THEN "release" ELSE "apply", f)
    /\ UNCHANGED <<outside, tables, broker, redis, reconcilers, crashes>>

\* The answer may be old by now.  The transaction commits, or throws before
\* or after its commit took effect.
ApplyVerification(v) ==
    LET o == verifiers[v].ord IN
    /\ verifiers[v].pc = "apply"
    /\ \/ SettlePayment(o, verifiers[v].found) /\ Moves(v, "release", "none")
       \/ SettlePayment(o, verifiers[v].found) /\ Moves(v, "release", "error")
       \/ NoWrite /\ Moves(v, "release", "error")
    /\ UNCHANGED <<outside, checked, handled, copies, dlq, redis, reconcilers, crashes>>

\* finally: DEL lock, whoever holds it by now.  If it throws, the attempt
\* counts as failed and the lock stays until it runs out.
ReleaseLock(v) ==
    /\ verifiers[v].pc = "release"
    /\ \/ /\ lock' = [lock EXCEPT ![verifiers[v].ord] = FALSE]
          /\ IF verifiers[v].found = "error" THEN Moves(v, "failed", "none")
             ELSE verifiers' = [verifiers EXCEPT ![v] = IdleVerifier]
       \/ Moves(v, "failed", "none") /\ UNCHANGED lock
    /\ UNCHANGED <<outside, tables, broker, expiries, reconcilers, crashes>>

\* Mutant: one attempt too many.
MutantCountAttempt(v) ==
    /\ verifiers[v].pc = "failed"
    /\ verifiers' = IF verifiers[v].attempt <= MaxAttempts
                    THEN [verifiers EXCEPT ![v].pc = "acquire", ![v].attempt = @ + 1]
                    ELSE [verifiers EXCEPT ![v].pc = "dlq"]
    /\ UNCHANGED <<outside, tables, broker, redis, reconcilers, crashes>>

\* The catch block: markVerificationFailure, then the next attempt or the
\* dead-letter topic.  If it throws, the consumer logs and moves on.
CountAttempt(v) ==
    /\ verifiers[v].pc = "failed"
    /\ \/ verifiers' =
            IF verifiers[v].attempt < MaxAttempts
            THEN [verifiers EXCEPT ![v].pc = "acquire", ![v].attempt = @ + 1]
            ELSE [verifiers EXCEPT ![v].pc = "dlq"]
       \/ verifiers' = [verifiers EXCEPT ![v] = IdleVerifier]
    /\ UNCHANGED <<outside, tables, broker, redis, reconcilers, crashes>>

PublishDlq(v) ==
    /\ verifiers[v].pc = "dlq"
    /\ dlq' \in {dlq, dlq \union {verifiers[v].ord}}
    /\ verifiers' = [verifiers EXCEPT ![v] = IdleVerifier]
    /\ UNCHANGED <<outside, tables, topic, copies, redis, reconcilers, crashes>>

\* 30 seconds after it was taken the lock is gone, also under a verifier that
\* is still at work; that case is bounded.
LockExpires(o) ==
    /\ lock[o]
    /\ \/ /\ Holding(o) # {}
          /\ expiries[o] < MaxExpiries
          /\ expiries' = [expiries EXCEPT ![o] = @ + 1]
       \/ Holding(o) = {} /\ UNCHANGED expiries
    /\ lock' = [lock EXCEPT ![o] = FALSE]
    /\ UNCHANGED <<outside, tables, broker, procs>>

\* A replica dies in a handler; its message is delivered again, the lock stays.
CrashVerifier(v) ==
    /\ crashes < MaxCrashes /\ verifiers[v].pc # "idle"
    /\ crashes' = crashes + 1
    /\ topic' = [topic EXCEPT ![verifiers[v].ord] = @ + 1]
    /\ verifiers' = [verifiers EXCEPT ![v] = IdleVerifier]
    /\ UNCHANGED <<outside, tables, copies, dlq, redis, reconcilers>>

-----------------------------------------------------------------------------
(* The reconciliation job. *)

Job(r, pc, o, found) == [pc |-> pc, batch |-> reconcilers[r].batch, ord |-> o,
                         found |-> found]
JobMoves(r, pc) == reconcilers' = [reconcilers EXCEPT ![r] =
                                     Job(r, pc, reconcilers[r].ord, "none")]

\* Mutant: only payments pending verification are read.
MutantFindPayments(r) ==
    LET due == {o \in Order : payments[o] = "PENDING_VERIFICATION" /\ ~checked[o]} IN
    /\ reconcilers[r].pc = "idle" /\ due # {}
    /\ reconcilers' = [reconcilers EXCEPT ![r] =
                         [pc |-> "lookup", batch |-> due, ord |-> NoOrder, found |-> "none"]]
    /\ UNCHANGED <<outside, tables, broker, redis, verifiers, crashes>>

\* findPaymentsForReconciliation; the limit of 50 rows is not reached.  If
\* the query throws, the run ends.
FindPayments(r) ==
    LET due == {o \in Order : Pending(o) /\ ~checked[o]} IN
    /\ reconcilers[r].pc = "idle" /\ due # {}
    /\ reconcilers' = [reconcilers EXCEPT ![r] =
                         [pc |-> "lookup", batch |-> due, ord |-> NoOrder, found |-> "none"]]
    /\ UNCHANGED <<outside, tables, broker, redis, verifiers, crashes>>

ReconcileLookup(r, o, f) ==
    /\ reconcilers[r].pc = "lookup" /\ o \in reconcilers[r].batch
    /\ f \in LookupAnswers(o)
    /\ reconcilers' = [reconcilers EXCEPT ![r] =
                         IF f = "error" THEN Job(r, "mark", o, "none")
                         ELSE Job(r, "apply", o, f)]
    /\ UNCHANGED <<outside, tables, broker, redis, verifiers, crashes>>

ApplyReconciliation(r) ==
    LET o == reconcilers[r].ord IN
    /\ reconcilers[r].pc = "apply"
    /\ SettlePayment(o, reconcilers[r].found)
    /\ JobMoves(r, "touch")
    /\ UNCHANGED <<outside, checked, handled, copies, dlq, redis, verifiers, crashes>>

\* confirmPayment or failPayment throws, before or after its commit: the
\* catch block marks the payment for attention.
ApplyReconciliationThrows(r) ==
    LET o == reconcilers[r].ord IN
    /\ reconcilers[r].pc = "apply"
    /\ NoWrite \/ SettlePayment(o, reconcilers[r].found)
    /\ JobMoves(r, "mark")
    /\ UNCHANGED <<outside, checked, handled, copies, dlq, redis, verifiers, crashes>>

\* Mutant: a terminal payment is marked, too.
MutantMarkReconciliationNeeded(r) ==
    LET o == reconcilers[r].ord IN
    /\ reconcilers[r].pc = "mark"
    /\ Write(o, orders[o], "RECONCILIATION_NEEDED", "reconciliation.needed")
    /\ checked' = [checked EXCEPT ![o] = TRUE]
    /\ JobMoves(r, "touch")
    /\ UNCHANGED <<outside, handled, copies, dlq, redis, verifiers, crashes>>

\* markReconciliationNeeded; the order keeps its status.  A payment that is
\* terminal by now is left alone.
MarkReconciliationNeeded(r) ==
    LET o == reconcilers[r].ord IN
    /\ reconcilers[r].pc = "mark"
    /\ IF Terminal(o) THEN NoWrite /\ UNCHANGED checked
       ELSE /\ Write(o, orders[o], "RECONCILIATION_NEEDED", "reconciliation.needed")
            /\ checked' = [checked EXCEPT ![o] = TRUE]
    /\ JobMoves(r, "touch")
    /\ UNCHANGED <<outside, handled, copies, dlq, redis, verifiers, crashes>>

\* finally: touchReconciliation, then the next payment of the batch.
TouchReconciliation(r) ==
    LET o == reconcilers[r].ord
        rest == reconcilers[r].batch \ {o} IN
    /\ reconcilers[r].pc = "touch"
    /\ checked' = [checked EXCEPT ![o] = TRUE]
    /\ reconcilers' = [reconcilers EXCEPT ![r] =
                         IF rest = {} THEN IdleReconciler
                         ELSE [pc |-> "lookup", batch |-> rest, ord |-> NoOrder,
                               found |-> "none"]]
    /\ UNCHANGED <<outside, orders, payments, handled, announced, settlements,
                   broker, redis, verifiers, crashes>>

\* The mark or the touch throws, or the process dies: the run ends with the
\* rest of its batch untouched.
AbortRun(r) ==
    /\ reconcilers[r].pc # "idle" /\ crashes < MaxCrashes
    /\ crashes' = crashes + 1
    /\ reconcilers' = [reconcilers EXCEPT ![r] = IdleReconciler]
    /\ UNCHANGED <<outside, tables, broker, redis, verifiers>>

\* Five minutes pass since the payment was last reconciled.
CheckAges(o) ==
    /\ checked[o]
    /\ checked' = [checked EXCEPT ![o] = FALSE]
    /\ UNCHANGED <<outside, orders, payments, handled, announced, settlements,
                   broker, redis, procs>>

-----------------------------------------------------------------------------
Gateway == \E o \in Order : \/ ChargeCard(o) \/ GatewayDecides(o)
                            \/ \E h \in Webhook : IssueWebhook(h, o)

Api == \/ \E o \in Order : CommitCheckout(o) \/ Reprocess(o)
       \/ \E h \in Webhook : HandleWebhook(h)

VerifierStep(v) == \/ AcquireLock(v) \/ LookupPayment(v) \/ ApplyVerification(v)
                   \/ ReleaseLock(v) \/ CountAttempt(v) \/ PublishDlq(v)

Verification == \/ \E o \in Order : DuplicateMessage(o) \/ LockExpires(o)
                \/ \E v \in Verifier : \/ \E o \in Order : ReceiveVerification(v, o)
                                       \/ VerifierStep(v) \/ CrashVerifier(v)

ReconcilerStep(r) == \/ FindPayments(r)
                     \/ \E o \in Order, f \in Lookup : ReconcileLookup(r, o, f)
                     \/ ApplyReconciliation(r) \/ ApplyReconciliationThrows(r)
                     \/ MarkReconciliationNeeded(r) \/ TouchReconciliation(r)

Reconciliation == \/ \E r \in Reconciler : ReconcilerStep(r) \/ AbortRun(r)
                  \/ \E o \in Order : CheckAges(o)

Next == Gateway \/ Api \/ Verification \/ Reconciliation

Spec == Init /\ [][Next]_vars

\* The job runs every minute and its steps end; time passes; the gateway
\* decides a charge at last.  Retried for ever, the lookup tells the truth
\* and the transaction commits at some time.  Nothing obliges Kafka to
\* deliver, a verifier to succeed or a webhook to come.
FairSpec ==
    /\ Spec
    /\ \A r \in Reconciler : /\ WF_vars(ReconcilerStep(r))
                             /\ SF_vars(ApplyReconciliation(r))
                             /\ \A o \in Order :
                                  SF_vars(\E f \in {"confirmed", "failed"} :
                                             ReconcileLookup(r, o, f))
    /\ \A o \in Order : WF_vars(CheckAges(o)) /\ WF_vars(GatewayDecides(o))

-----------------------------------------------------------------------------
\* Type invariant.
TypeOK ==
    /\ gateway \in [Order -> Charge] /\ answer \in [Order -> ChargeAnswer]
    /\ hooks \in [Webhook -> [ord : Order \union {NoOrder}, status : HookStatus]]
    /\ orders \in [Order -> OrderStatus] /\ payments \in [Order -> PaymentStatus]
    /\ checked \in [Order -> BOOLEAN] /\ handled \subseteq Webhook
    /\ announced \in [Order -> SUBSET EventType] /\ settlements \in [Order -> Nat]
    /\ topic \in [Order -> Nat] /\ copies \in [Order -> Nat]
    /\ expiries \in [Order -> Nat] /\ crashes \in Nat
    /\ dlq \subseteq Order /\ lock \in [Order -> BOOLEAN]
    /\ verifiers \in [Verifier -> VerifierState]
    /\ reconcilers \in [Reconciler -> ReconcilerState]

\* The order tells what its payment tells, whichever of the four writers
\* touched them last and however they interleaved.
OrderOf == [none |-> "none", PENDING_VERIFICATION |-> "PENDING",
            RECONCILIATION_NEEDED |-> "PENDING", CONFIRMED |-> "CONFIRMED",
            FAILED |-> "CANCELED"]
OrderAgreesWithPayment == \A o \in Order : orders[o] = OrderOf[payments[o]]

HandledFor(o) == {h \in handled : hooks[h].ord = o}

\* In whatever order a consumer gets the payment events of an order, one of
\* them announces the status its payment has; and as long as no webhook was
\* applied, none announces an outcome that the tables do not have, however
\* the checkout, late verifiers and overlapping runs of the job interleaved.
EventOf == [none |-> "none", PENDING_VERIFICATION |-> "verification.requested",
            RECONCILIATION_NEEDED |-> "reconciliation.needed",
            CONFIRMED |-> "confirmed", FAILED |-> "failed"]
EventsAgreeWithPayment ==
    \A o \in Order :
        /\ payments[o] # "none" => EventOf[payments[o]] \in announced[o]
        /\ HandledFor(o) = {}
              => announced[o] \cap {"confirmed", "failed"} \subseteq {EventOf[payments[o]]}

\* Verifiers, duplicates of their messages, overlapping reconciliation runs
\* and the checkout settle a payment once between them; any further
\* confirmed or failed event is a webhook's doing.
SettledOncePerWebhook ==
    \A o \in Order : settlements[o] <= 1 + Cardinality(HandledFor(o))

\* An order is confirmed only if the gateway has captured the money, also
\* when the word of the gateway is old by the time it is written.
ConfirmedIsCaptured ==
    \A o \in Order : payments[o] = "CONFIRMED" => gateway[o] = "confirmed"

\* The lock admits one verifier per payment, and one more for every lock
\* that ran out under its holder; a DEL of somebody else's lock admits no more.
LockExcludes == \A o \in Order : Cardinality(Holding(o)) <= 1 + expiries[o]

\* Opened pending or settled; settled once; reopened or flipped by the
\* gateway's notifications only.
PhaseOf == [none |-> "none", PENDING_VERIFICATION |-> "pending",
            RECONCILIATION_NEEDED |-> "pending", CONFIRMED |-> "confirmed",
            FAILED |-> "canceled"]
MoneyOf == [none |-> "undecided", absent |-> "undecided", open |-> "undecided",
            confirmed |-> "captured", failed |-> "declined"]
Lifecycle == INSTANCE PaymentLifecycle
    WITH state <- [o \in Order |-> PhaseOf[payments[o]]],
         money <- [o \in Order |-> MoneyOf[gateway[o]]],
         notes <- [o \in Order |-> Cardinality(HandledFor(o))]
LifecycleSpec == Lifecycle!Spec

\* Confirmed and canceled are declared terminal order statuses: an order
\* that has one keeps it.
TerminalIsFinal ==
    [][\A o \in Order : orders[o] \in {"CONFIRMED", "CANCELED"}
                            => orders'[o] = orders[o]]_vars

\* No payment stays pending: lost messages, skipped duplicates, exhausted
\* retries and crashes are all made up for by the reconciliation job.
PendingIsSettled == \A o \in Order : Pending(o) ~> Terminal(o)
=============================================================================
