----------------------------- MODULE Storefront -----------------------------
(***************************************************************************)
(* The browser's side of an order: the hook useOrderLifecycle, the service *)
(* and the retrying apiRequest under it, and the orderStore the screen     *)
(* shows; composed with the API's createOrder (module Checkout), of which  *)
(* every attempt of a submission is a request.                             *)
(*                                                                         *)
(* After the checkout the payment moves on in the backend (PaymentSaga).   *)
(* Here it is external: a status per order and the number of its changes.  *)
(***************************************************************************)
EXTENDS Integers, FiniteSets

CONSTANTS Submission,  \* calls of submitOrder
          Refresh,     \* calls of refreshOrder
          NoOrder,     \* the id of no order
          MaxFaults,   \* bound: crashes of the API and transactions that fail
          MaxDrops,    \* bound: exchanges the network breaks
          MaxMoves     \* bound: changes of a payment after the checkout

Call == Submission \union Refresh
PostRetries == 1       \* retry.attempts of createOrder
GetRetries  == 2       \* retry.attempts of getOrderById
Retries(c)  == IF c \in Submission THEN PostRetries ELSE GetRetries

ASSUME CallAssumption  == IsFiniteSet(Call) /\ Submission \intersect Refresh = {}
ASSUME BoundAssumption == {MaxFaults, MaxDrops, MaxMoves} \subseteq Nat

\* A request of the API is an attempt of a submission, and names its order.
Attempt == Submission \X (0..PostRetries)

ASSUME NameAssumption == NoOrder \notin Attempt /\ Attempt \intersect Call = {}

\* Mutant: the key is made where the request is built, one per attempt.
MutantIdempotencyKey == [a \in Attempt |-> a]

\* submitOrder makes one idempotency key for all attempts of its call.
IdempotencyKey == [a \in Attempt |-> a[1]]

VARIABLES orders, charges, requests, replies, faults,  \* as in Checkout
          payments,  \* Attempt -> payment of the order, [status, version]
          calls,     \* Call -> [pc, attempt, target]
          heard,     \* what an attempt or a refresh was answered: [order, payment]
          store,     \* orderStore: [order, payment, stage, loading, error]
          overtaken, \* Call -> the answer of another call came to the screen while it ran
          drops      \* count of the broken exchanges

API == INSTANCE Checkout WITH Request <- Attempt, KeyOf <- IdempotencyKey,
                              Key <- Submission \union Attempt

server == <<orders, charges, requests, replies, faults, payments>>
client == <<calls, store, overtaken>>
vars == <<server, client, heard, drops>>

-----------------------------------------------------------------------------
(* Statuses as the two sides spell them. *)

NotOrdered == [status |-> "none", version |-> 0]
NotHeard   == [order |-> NoOrder, payment |-> NotOrdered]

\* payments.status after the checkout.
Inserted(answer) == [status |-> CASE answer = "confirmed" -> "PAGAMENTO_CONFIRMADO"
                                  [] answer = "failed"    -> "PAGAMENTO_FALHOU"
                                  [] answer = "unknown"   -> "PAGAMENTO_PENDENTE_VERIFICACAO+accents",
                     version |-> 0]

PaymentStatus == {"PAGAMENTO_CONFIRMADO", "PAGAMENTO_FALHOU",
                  "PAGAMENTO_PENDENTE_VERIFICACAO+accents",
                  "RECONCILIACAO_NECESSARIA+accents"}

\* orders.status, which the backend keeps in step with the payment's.
OrderStatusOf(status) == CASE status = "PAGAMENTO_CONFIRMADO" -> "PEDIDO_CONFIRMADO"
                           [] status = "PAGAMENTO_FALHOU"     -> "PEDIDO_CANCELADO"
                           [] OTHER                           -> "PEDIDO_PENDENTE"

\* mapCreateResponseToStage and mapOrderToStage of the store.
CreatedStage(status) == CASE OrderStatusOf(status) = "PEDIDO_CONFIRMADO" -> "confirmed"
                          [] OrderStatusOf(status) = "PEDIDO_CANCELADO"  -> "failed"
                          [] OTHER                                       -> "accepted_by_api"

\* Mutant: every order that is not canceled is shown as confirmed.
MutantOrderStage(status) == IF OrderStatusOf(status) = "PEDIDO_CANCELADO"
                            THEN "failed" ELSE "confirmed"

OrderStage(status) == CASE status = "RECONCILIACAO_NECESSARIA" -> "needs_reconciliation"
                        [] OrderStatusOf(status) = "PEDIDO_CONFIRMADO" -> "confirmed"
                        [] OrderStatusOf(status) = "PEDIDO_CANCELADO"  -> "failed"
                        [] OTHER -> "pending_async_processing"

Stage == {"idle", "submitting", "accepted_by_api", "pending_async_processing",
          "confirmed", "failed", "needs_reconciliation"}

EmptyStore == [order |-> NoOrder, payment |-> NotOrdered, stage |-> "idle",
               loading |-> FALSE, error |-> FALSE]

Init == /\ API!Init
        /\ payments = [a \in Attempt |-> NotOrdered]
        /\ calls = [c \in Call |-> [pc |-> "idle", attempt |-> 0, target |-> NoOrder]]
        /\ heard = [x \in Attempt \union Refresh |-> NotHeard]
        /\ store = EmptyStore
        /\ overtaken = [c \in Call |-> FALSE]
        /\ drops = 0

Underway(c) == calls[c].pc \in {"sent", "body", "pause"}
Committed == {row.id : row \in orders}
Current(s) == <<s, calls[s].attempt>>

-----------------------------------------------------------------------------
(* The backend. *)

\* The API works on an attempt that was sent, also after the browser has
\* given it up.  Its answer quotes the payment as it is at that moment.
Serve(a) ==
    /\ calls[a[1]].pc # "idle" /\ a[2] <= calls[a[1]].attempt
    /\ API!RequestStep(a) \/ API!InsertFails(a) \/ API!Crash(a)
    /\ payments' = [o \in Attempt |->
                       IF \E row \in orders' \ orders : row.id = o
                       THEN Inserted(requests[o].answer) ELSE payments[o]]
    /\ heard' = IF replies'[a].order = NoOrder THEN heard
                ELSE [heard EXCEPT ![a] = [order   |-> replies'[a].order,
                                           payment |-> payments'[replies'[a].order]]]
    /\ UNCHANGED <<client, drops>>

\* The saga moves a payment.  Only a pending one comes to need reconciliation.
PaymentMoves(o) ==
    /\ o \in Committed /\ payments[o].version < MaxMoves
    /\ \E status \in PaymentStatus \ {payments[o].status} :
          /\ status = "RECONCILIACAO_NECESSARIA+accents"
                => OrderStatusOf(payments[o].status) = "PEDIDO_PENDENTE"
          /\ payments' = [payments EXCEPT ![o] = [status |-> status, version |-> @.version + 1]]
    /\ UNCHANGED <<orders, charges, requests, replies, faults, client, heard, drops>>

Read(f, payment) == /\ heard' = [heard EXCEPT ![f] = [order   |-> calls[f].target,
                                                      payment |-> payment]]
                    /\ calls' = [calls EXCEPT ![f].pc = "body"]

\* Mutant: the answer comes from a cache, as old as the order.
MutantServeRead(f) ==
    /\ calls[f].pc = "sent" /\ calls[f].target # NoOrder
    /\ \E version \in {0, payments[calls[f].target].version} :
          Read(f, [payments[calls[f].target] EXCEPT !.version = version])
    /\ UNCHANGED <<server, store, overtaken, drops>>

\* GET /orders/:id reads the order, if there is one, and the headers of the
\* answer arrive; while they are on their way the call is as good as unserved.
ServeRead(f) ==
    /\ calls[f].pc = "sent" /\ calls[f].target # NoOrder
    /\ Read(f, payments[calls[f].target])
    /\ UNCHANGED <<server, store, overtaken, drops>>

-----------------------------------------------------------------------------
(* The hook, the store and apiRequest. *)

Begin(c, target) ==
    /\ calls[c].pc = "idle"
    /\ calls' = [calls EXCEPT ![c] = [pc |-> "sent", attempt |-> 0, target |-> target]]
    /\ UNCHANGED <<server, heard, overtaken, drops>>

\* submitOrder: markSubmitting, then the first POST.
Submit(s) == /\ Begin(s, NoOrder)
             /\ store' = [store EXCEPT !.stage = "submitting", !.loading = TRUE,
                                       !.error = FALSE]

\* refreshOrder(orderId): markRefreshing, then a GET.  The id need not be that
\* of the order the store holds, nor that of any order (NoOrder).
StartRefresh(f, order) ==
    /\ order \in Committed \union {NoOrder}
    /\ Begin(f, order)
    /\ store' = [store EXCEPT !.loading = TRUE, !.error = FALSE]

\* reset(), also while a call is under way.
Reset == /\ store' = EmptyStore
         /\ UNCHANGED <<server, calls, overtaken, heard, drops>>

\* A call that has ended forgets what it asked for.  Of its attempts the last
\* one is kept: the API may be at work on it.
End(c) == calls' = [calls EXCEPT ![c] = [pc      |-> "done",
                                         attempt |-> IF c \in Submission THEN @.attempt ELSE 0,
                                         target  |-> NoOrder]]

\* The answer of call c is on the screen now.
Overtakes(c) == overtaken' = [d \in Call |-> d # c /\ (overtaken[d] \/ Underway(d))]

\* Mutant: an error leaves the loading indicator on.
MutantMarkError == store' = [store EXCEPT !.error = TRUE]

\* The stage is left as it was: 'submitting', if this was a submission.
MarkError == store' = [store EXCEPT !.loading = FALSE, !.error = TRUE]

\* The headers of a 2xx answer to a POST are here.  parseResponse is returned
\* without await: the timer is cleared, and no failure of the body is caught or
\* retried.
Answered(s) ==
    /\ calls[s].pc = "sent"
    /\ replies[Current(s)].outcome \in {"created", "existing"}
    /\ calls' = [calls EXCEPT ![s].pc = "body"]
    /\ UNCHANGED <<server, heard, store, overtaken, drops>>

\* The body of a POST: receiveCreatedOrder drops the previous order ...
PostSucceeds(s) ==
    /\ calls[s].pc = "body"
    /\ LET h == heard[Current(s)]
       IN  store' = [order |-> h.order, payment |-> [NotOrdered EXCEPT !.version = h.payment.version],
                     stage |-> CreatedStage(h.payment.status), loading |-> FALSE, error |-> FALSE]
    /\ End(s) /\ Overtakes(s)
    /\ UNCHANGED <<server, heard, drops>>

\* ... and receiveOrder stores whatever arrives, in the order it arrives.
GetSucceeds(f) ==
    /\ calls[f].pc = "body"
    /\ store' = [order |-> heard[f].order, payment |-> heard[f].payment,
                 stage |-> OrderStage(heard[f].payment.status),
                 loading |-> FALSE, error |-> FALSE]
    /\ End(f) /\ Overtakes(f)
    /\ heard' = [heard EXCEPT ![f] = NotHeard]
    /\ UNCHANGED <<server, drops>>

BodyBreaks(c) == /\ calls[c].pc = "body" /\ drops < MaxDrops
                 /\ drops' = drops + 1
                 /\ End(c) /\ MarkError
                 /\ heard' = [heard EXCEPT ![c] = NotHeard]
                 /\ UNCHANGED <<server, overtaken>>

\* Mutant: one attempt more than the policy allows.
MutantAttemptFails(c) == IF calls[c].attempt <= Retries(c)
                         THEN /\ calls' = [calls EXCEPT ![c].pc = "pause"]
                              /\ UNCHANGED store
                         ELSE End(c) /\ MarkError

\* An attempt fails.  Whatever the failure, a 404 or a 409 included, the loop
\* sends another one while any is left.
AttemptFails(c) == IF calls[c].attempt < Retries(c)
                   THEN /\ calls' = [calls EXCEPT ![c].pc = "pause"]
                        /\ UNCHANGED store
                   ELSE End(c) /\ MarkError

\* The API answered 409 or 5xx, or its connection died.
PostRefused(s) == /\ calls[s].pc = "sent"
                  /\ replies[Current(s)].outcome \in {"conflict", "error"}
                  /\ AttemptFails(s)
                  /\ UNCHANGED <<server, heard, overtaken, drops>>

\* The API answered 404: no order has the id that was asked for.
GetRefused(f) == /\ calls[f].pc = "sent" /\ calls[f].target = NoOrder
                 /\ AttemptFails(f)
                 /\ UNCHANGED <<server, heard, overtaken, drops>>

\* fetch rejects, or a gateway in between answers 5xx; the attempt may have
\* reached the API or not, and may still be served.
ExchangeBreaks(c) == /\ calls[c].pc = "sent" /\ drops < MaxDrops
                     /\ drops' = drops + 1
                     /\ AttemptFails(c)
                     /\ UNCHANGED <<server, heard, overtaken>>

\* Mutant: the timer is cleared when the request is built.
MutantTimesOut(c) == /\ calls[c].pc = "unbuilt"
                     /\ End(c) /\ MarkError
                     /\ UNCHANGED <<server, heard, overtaken, drops>>

\* The timer aborts the attempt: ApiTimeoutError, whatever attempts are left.
TimesOut(c) == /\ calls[c].pc = "sent"
               /\ End(c) /\ MarkError
               /\ UNCHANGED <<server, heard, overtaken, drops>>

\* The delay is over: the next attempt, with the same key.
Resume(c) ==
    /\ calls[c].pc = "pause"
    /\ calls' = [calls EXCEPT ![c].pc = "sent", ![c].attempt = @ + 1]
    /\ UNCHANGED <<server, heard, store, overtaken, drops>>

Proceed(c) == \/ c \in Submission /\ (PostRefused(c) \/ Answered(c))
              \/ c \in Refresh /\ GetRefused(c)
              \/ TimesOut(c) \/ Resume(c)

BodyArrives(c) == \/ c \in Submission /\ PostSucceeds(c)
                  \/ c \in Refresh /\ GetSucceeds(c)

Next == \/ \E a \in Attempt : Serve(a) \/ PaymentMoves(a)
        \/ \E f \in Refresh : \/ ServeRead(f)
                             \/ \E o \in Attempt \union {NoOrder} : StartRefresh(f, o)
        \/ \E s \in Submission : Submit(s)
        \/ \E c \in Call : Proceed(c) \/ BodyArrives(c) \/ ExchangeBreaks(c) \/ BodyBreaks(c)
        \/ Reset

Spec == Init /\ [][Next]_vars

\* Timers run out and promises are settled.  Nothing obliges the API to
\* answer, nor the body of an answer to arrive or to break: the timer is
\* cleared before it is read.
FairSpec == Spec /\ \A c \in Call : WF_vars(Proceed(c))

-----------------------------------------------------------------------------
\* Type invariant, with that of the API.
TypeOK ==
    /\ API!TypeOK
    /\ payments \in [Attempt -> [status : PaymentStatus \union {"none"}, version : 0..MaxMoves]]
    /\ calls \in [Call -> [pc : {"idle", "sent", "body", "pause", "done"}, attempt : 0..GetRetries,
                           target : Attempt \union {NoOrder}]]
    /\ \A s \in Submission : calls[s].attempt <= PostRetries
    /\ store.order \in Attempt \union {NoOrder} /\ store.stage \in Stage
    /\ store.loading \in BOOLEAN /\ store.error \in BOOLEAN
    /\ overtaken \in [Call -> BOOLEAN] /\ drops \in 0..MaxDrops

\* Retries are safe: a submission becomes at most one order, however its
\* attempts overlap in the API, time out, or lose their answers (one key per
\* submitOrder, and the UNIQUE column).
RetriesMakeOneOrder ==
    \A s \in Submission : Cardinality({o \in Committed : o[1] = s}) <= 1

\* The screen shows a committed order, never a newer state than the backend
\* has, and what it shows as the final result of the newest state is true.
ShownIsTrue ==
    store.order # NoOrder =>
        LET p == payments[store.order]
        IN  /\ store.order \in Committed
            /\ store.payment.version <= p.version
            /\ store.payment.version = p.version =>
                  /\ store.stage = "confirmed" => p.status = "PAGAMENTO_CONFIRMADO"
                  /\ store.stage = "failed" => p.status = "PAGAMENTO_FALHOU"

\* No eternal spinner: while the store is loading, a call is under way, also
\* when calls overlap and the store is reset between them.
LoadingHasCall == store.loading => \E c \in Call : Underway(c)

\* The screen goes back to an older state of an order only by the answer of a
\* call that another answer has overtaken: calls that do not overlap never go
\* back, whichever order each of them asks for.
GoesBackByOverlap ==
    store'.order = store.order /\ store'.payment.version < store.payment.version
        => \E c \in Call : Underway(c) /\ calls'[c].pc = "done" /\ overtaken[c]
OnlyOverlapGoesBack == [][GoesBackByOverlap]_vars

\* Whatever the API and the network do, a call of the hook ends, or the body
\* of its answer has begun: that is the one place where it may wait for ever.
CallsEndOrAwaitBody == \A c \in Call : Underway(c) ~> calls[c].pc \in {"body", "done"}
=============================================================================
