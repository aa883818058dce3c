# Verification of the event-driven order processing system

TLA+ models of the order processing system, model-checked with TLC on small
instances, with theorems checked by TLAPS for every instance. All paths below
are relative to `src/event-driven-order-processing-system-main/` unless they
start with `src/`.

## 1. The system

A customer's order is accepted by an HTTP API, which charges a card, writes the
order, its payment and two outbox events in one PostgreSQL transaction, and
answers. An outbox worker polls the table and publishes the events to Kafka. A
worker consumes them: it processes orders, and it verifies payments whose
charge had no clear answer. A periodic job reconciles payments that stay
pending, and the payment gateway reports by webhooks.

```
 client ──POST /orders──▶ API ──charge──▶ gateway ──webhook──▶ API
                           │ one transaction            │ one transaction
                           ▼                            ▼
               orders, payments, outbox_events  (PostgreSQL)
                           │ claim / mark               ▲ confirm, fail, mark
                     outbox worker                      │
                           │ publish          ┌─────────┴───────────┐
                           ▼                  │                     │
  Kafka: orders.created, payments.* ──▶ order worker,        reconciliation job
                                        verification worker  (every minute)
                                        (Redis keys and locks)
```

### Inventory

| Component | State | Operations | What is hard | Correct when |
|---|---|---|---|---|
| Checkout (`apps/api/src/orders/orders.service.ts`) | `orders`, `payments`, `outbox_events` rows; the charge at the gateway | `createOrder`: SELECT by key, charge, transaction | three awaits between which other requests run; the charge is outside the transaction; lost COMMIT acknowledgements | one order per key; every reply names it; every charge has a row |
| Outbox worker (`apps/outbox-worker/src/outbox/`) | claim (`locked_at`), `attempts`, `next_attempt_at`, `sent_at` | `tick`: `fetchPending`, `producer.send`, `markPublished`, `markFailed` | ticks start every second without waiting; replicas; claims that expire under a running tick; rows locked by a claim that is rolled back; statements by id without an owner test | at least once, in few copies, settled for good, nothing forgotten |
| Order worker (`apps/worker/src/orders/`, `messaging/consumer.ts`) | Redis key (10 minutes), `processed_at`, `last_error`, dead letters | `processWithRetry`, `processOrder`, `publishDlq` | at-least-once delivery, rebalances, failures at each call, retries against the handler's own key | few effects per order; an event is lost without a trace only for known causes |
| Payment webhooks (`apps/api/src/payments/payments.service.ts`) | `payments`, `orders`, `payment_webhook_events` | `handleWebhook` | repeated, late and reordered notifications | a notification counts once |
| Verification worker (`apps/worker/src/payments/payments.processor.ts`) | Redis lock (30 seconds), attempts | `processVerificationWithRetry`, `verifyPayment` | an answer that is old when it is written; a lock that expires or is deleted by another | settled once, only as the gateway says |
| Reconciliation job (`apps/worker/src/payments/payments-reconciliation.job.ts`) | `reconciliation_checked_at` | `runOnce`, `reconcilePayment` | overlapping runs; a failing payment in the middle of a batch | nothing stays pending |
| Admin endpoint (`apps/api/src/admin/`) | none | `reprocess` | replays what was handled already | replays are harmless |
| API outbox publisher (`apps/api/src/outbox/`) | none at run time | never provided by its Nest module | - | - |
| MCP server (`mcp/src/server.ts`) | a fixed-window counter per tool | tool calls behind the input check and the rate limit | the window's boundary | less than twice the limit in any window of time; no refusal before the limit is spent |
| Front-end orders (`fullstack-system-design-playbook/src/`: `services/apiClient.ts`, `services/orderService.ts`, `state/orderStore.ts`, `hooks/useOrderLifecycle.ts`) | running calls with their attempt; the store on the screen | `submitOrder`, `refreshOrder`, `reset` over `apiRequest` with its timer and retries | attempts given up by the browser that the API still works on; overlapping calls; a body that breaks or never arrives | one order per submission; only a body can be waited for without end; the screen tells the truth of some moment |
| Operations consoles (`hooks/use*OperationsConsole.ts`, `services/aiOperationsService.ts`, `trustOperationsService.ts`, `mcpToolGatewayService.ts`, `secureMcpClientService.ts`) | the conversation; the snapshot, its ticks and running loads | `ask`, `refresh`, the timer, the effect and its cleanup | answers appended after an await; loads that are cancelled, fail or arrive late | an answer stands under its question; a blocked question runs no tool; snapshots never go back |
| Earlier tree (`src/apps`) | the same services without payments | `createOrder`, outbox worker, order worker over one database and one Kafka | an order must survive the way through three programs | an order is lost between them only for known causes |
| Cart, product list, mocks, panels | one object and its copy in localStorage; constant data | - | - | - |
| Metrics, tracing, `k8s`, `infra`, CI | no control state | - | - | - |

The hazards of these components, each at its line, are listed in
`PROJECT.json` with the properties that cover them.

## 2. Modules

| Module | Models | State ↔ code |
|---|---|---|
| `OutboxDelivery` | abstract: at-least-once delivery | recorded, delivered, settled events |
| `Outbox` | the outbox worker | `rows` ↔ `outbox_events`; `ticks` ↔ the running `tick()` calls of each replica; `log` ↔ Kafka |
| `MCOutbox` | instances | which events share a partition key; symmetry |
| `OutboxProofs` | theorems about `Outbox` | |
| `OrderWorker` | consumer, retry loop, Redis key, dead letters | `handlers` ↔ the running `eachMessage` of each replica; `key` ↔ `orders.created.v1:<id>`; `rows` ↔ the columns the worker writes |
| `PaymentLifecycle` | abstract: the life of one payment | none, pending, confirmed or canceled; what the gateway did |
| `PaymentSaga` | checkout's commit, webhooks, verifiers, job, gateway | `orders`, `payments`, `handled` ↔ tables; `announced`, `settlements` ↔ `outbox_events`; `lock` ↔ Redis; `verifiers`, `reconcilers` ↔ running calls |
| `MCPaymentSaga` | instances | symmetry |
| `PaymentSagaProofs` | theorems about `PaymentSaga` | |
| `Checkout` | concurrent `createOrder` calls | `requests` ↔ running calls; `orders` ↔ committed rows; `charges` ↔ calls of the gateway |
| `MCCheckout` | instances | which requests share a key; symmetry |
| `CheckoutProofs` | theorems about `Checkout` | |
| `OrderWorkerProofs` | theorems about `OrderWorker` | |
| `OrdersPipeline` | `createOrder` of `src/apps`, composed with `Outbox` and `OrderWorker` | `requests`, `orders` ↔ running calls and rows; the rest are the variables of the two instances |
| `MCOrdersPipeline` | instances | which requests share a key |
| `OrdersPipelineProofs` | theorems about `OrdersPipeline`, from those of its two workers | |
| `Storefront` | `apiRequest`, the hook and the order store, composed with `Checkout` | `calls` ↔ running `submitOrder` and `refreshOrder` calls; `store` ↔ `orderStore`; `heard` ↔ what the API answered |
| `MCStorefront` | instances | one fault at a time |
| `StorefrontProofs` | theorems about `Storefront` | |
| `McpServer` | the policy of `toolResponse` | `windows` ↔ `rateLimitState`, with the time left to `resetAt`; `recent` is history |
| `McpServerProofs` | theorems about `McpServer` | |
| `Consoles` | both console hooks with their services, beside `McpServer` | `chats` ↔ `messages`, `isThinking`; `asking`, `loads` ↔ promises under way; `screen` ↔ the state of the trust hook |
| `MCConsoles` | instances | three questions that the code tells apart |
| `ConsolesProofs` | theorems about `Consoles`, from those of the limiter | |

Conventions of the models:

* One action is what happens between two awaits of the code, so handlers
  interleave exactly where Node lets them. A transaction that locks the rows it
  writes is one action, unless others can see that it has locked them (the
  claim of the outbox, see below).
* A call that may fail has three outcomes: it works, it throws before it took
  effect, and it throws after it took effect.
* kafkajs repeats a request inside one `send`, and its producers are not
  idempotent here. `SendAgain` is the record that this adds; the properties
  count it.
* Time is abstract. A 30-second claim, a 30-second lock, a ten-minute key, a
  five-minute check and a backoff are each a flag that time may clear at any
  moment. Where the flag protects a running call (a claim or a lock that runs
  out under its holder), clearing it is counted, and the properties refer to
  the count.
* Every bound is a constant whose name starts with `Max`, except `MaxAttempts`,
  which the code has, too.
* Operators named `Mutant...` are plausible bugs of the definition that follows
  them. No specification uses them; each shows that a property can fail.

### Outbox

`fetchPending` is one statement in two actions. `SelectPending` is its `SELECT
... FOR UPDATE SKIP LOCKED`: it locks the `BatchLimit` oldest rows that pass the
WHERE clause and that no other claim has locked; a row that is being marked may
be locked at that moment or not. `FetchPending` is the UPDATE that commits. In
between a crash or an error rolls the claim back, and others have passed over
its rows. `markPublished` and `markFailed` wait for such a claim. `UPDATE ...
RETURNING` promises no
order, so the tick sends its batch in any order. `markPublished` and
`markFailed` address a row by id and change it whatever its state is. A tick
ends when its batch is done, when a statement in its catch block throws, or
with its replica. `Insert` is the transaction that wrote the row; `Earlier`
says which events of the same topic and key were committed before that
transaction began, so that an event of which the writer could know is inserted
first.

### OrderWorker

The retry loop is the cycle acquire → send → mark, with failed → acquire while
attempts are left and failed → dlq after that. The key is set by `Acquire` and
never released, as in the code. `Redeliver` is a rebalance: the message is
delivered to another replica while the first handler is still at work. `Crash`
gives the message back. Initially an order's row has a saga status or, for
orders from before the payment saga, status `created`.

`orders.last_error` is often the only trace of a failed event, and this worker is
not its only writer: the payment saga sets it to NULL when it confirms and to a
text of its own otherwise (`PaymentWrites`). `silenced` is history: the orders
whose failure may have left no trace, since their handler died past the claim,
`markFailed` threw before it wrote, or the saga overwrote what it wrote.

### PaymentSaga

Every transaction of the four writers locks the payment row first, so each is
one action. The lookup and the write that follows it are two actions, so the
answer may be old when it is written. The gateway is external: a charge may be
decided at once, be under way, or not have arrived yet when its answer is lost;
once decided it does not change; webhooks say what was true when they were
issued and arrive at any later time and in any order. `handled` makes a repeated
delivery of a webhook a step that changes nothing, so it is no action.

`announced` is the set of the events that were written for a payment. It has no
order, as the code has none: `created_at` is the start of the transaction, so
overlapping transactions commit against it, and publication reorders once more.

`PaymentLifecycle` is what is left without messages, locks, retries and jobs. It
allows two things a reader may not expect, because the code does them: a
notification may reopen or flip a settled payment, and a payment may be canceled
although the gateway captures the money later (`not_found` counts as failed).

### Checkout

A request is its order id. The SELECT, the charge and the transaction are three
actions. A repeated request is another request with the same key.

### OrdersPipeline

The first release, end to end. Its two workers are those of the newer tree
without the saga, so their modules are instantiated, and what Kafka takes from
a tick (`Outbox`) is in the same step a message for a handler (`OrderWorker`).
`PaymentWrites` is no action here: this release has no payments. Only
`createOrder` is written anew: it charges nobody. An empty correlation
header passes `??`, gets into the event and is rejected by the schema of the
worker; such requests are `Malformed`. The promise of the outbox,
`OutboxDelivery`, is stated again of the whole: an order is recorded, then its
effect `orders.processed` is sent at least once, and only then may the row say
so.

### Storefront

`createOrder` is an instance of `Checkout` whose requests are the attempts of
the submissions: an attempt that the browser gave up goes on in the API. The
idempotency key is made in `submitOrder`, so the attempts of one submission
share it. `TimesOut` ends the call whatever attempts are left, every other
failure, a 404 included, sends the next attempt; after the headers (`Answered`)
no timer runs, because `parseResponse` is returned without `await`: the body
arrives (`BodyArrives`), breaks (`BodyBreaks`), or does neither for ever. A
refresh may ask for any committed order, the one in the store or not, and for an
id of none, which the API answers with 404. (The hook offers `refreshOrder(id)`;
no page calls it so far.) `overtaken` is history: another call's answer came to
the screen while this one ran. The payments move on in the backend; a version per order tells the property which
state of it an answer quotes. Statuses are written as each side spells them:
see section 4.

### McpServer and Consoles

Time in the limiter is relative: `left` until `resetAt`, and the age of each
call that was let through, so that the state stays finite without a bound on
time. A refused call changes nothing and is no action.

A question is what the code tells apart: the topics it mentions, of which each
console takes the first in an order of its own, and the denylist that matches
it. `ask` puts the question into `messages` and the promise under way into
`asking`; the answer is appended when it returns. `NextTick` and `Refresh` move
the tick, `Effect` is React running the effect of the last rendered tick with
the cleanup of the one before, and `Loaded` and `LoadFails` look at the flag
that the cleanup set. The interval never stops; `MaxTicks` bounds the model only,
and `WaitingEndsOrTicks` speaks of each tick on its own for that reason. The services of the browser stand in for the server and
call none of its code, so the two state machines only stand side by side; they
share the set of tools.

## 3. Runs

| Run | Expect | What it shows |
|---|---|---|
| `Outbox_safety` | pass | Two replicas, two rows in one batch, two attempts, a crash, a throwing statement or a record written twice, one early expiry per row: nothing is settled before it is in Kafka; settled rows stay settled; the number of ticks on a row, of attempts and of copies is bounded by its causes; `OutboxDelivery` is implemented |
| `Outbox_ordering` | violation | a later event of an order overtakes an earlier one that waits for its backoff |
| `OrderWorker_delivery` | pass | effects per order are bounded by the key; a well-formed event is dropped without a trace only by a death past the claim, a `markFailed` that throws, or a payment that overwrites `last_error`; dead letters cost a failure per attempt; a processed row is final; every message is consumed |
| `OrderWorker_dropped` | violation | one failed send and the event is neither processed nor dead-lettered |
| `PaymentSaga_safety` | pass | order and payment agree, the status has been announced, and without a webhook no event announces another outcome; settled once per cause; confirmed only if captured; the lock excludes; `PaymentLifecycle` is implemented |
| `PaymentSaga_live` | pass | no payment stays pending, even if no message is ever delivered |
| `PaymentSaga_terminal` | violation | a webhook moves an order out of a terminal status |
| `Checkout_safety` | pass | all replies of a key name one committed order; charges and rows correspond |
| `Checkout_recorded` | violation | a charge without any row |
| `OrdersPipeline` | pass | from POST to outcome: an order is lost between API, outbox, Kafka and worker only by a worker that dies with it past the claim or a `markFailed` that throws; a key has one order and that a bounded effect; `OutboxDelivery` is implemented end to end; every other order comes to an outcome or exhausts its attempts in the outbox |
| `Storefront_calls` | pass | one order per submission although its attempts overlap in the API; the screen shows committed orders and true results, goes back only by an overlap of calls, and never waits without a call; every call ends or waits for the body of an answer |
| `Consoles` | pass | answers stand under their questions; blocked questions run no tool; a slow snapshot never wins; questions are answered, and a load ends unless the next tick cancels it; the limiter admits less than twice its limit and refuses nobody early |

### Bounds

* Two of everything that competes (replicas, verifiers, overlapping job runs)
  and three requests per key: each hazard is a race of two parties, the third
  request shows that a conflict is not the end of a race. The bounds on ticks,
  attempts and copies are proved for any number.
* `MaxAttempts` is 1 or 2 instead of 20 (outbox) and 5 (workers): the first
  attempt, a retry and the end of the loop occur; a further attempt starts in
  the same state as the second.
* Crashes, early expiries, keys that run out and resends: one each. Throwing
  calls: one or two; `MaxFaults = 4` in `OrderWorker_delivery` is the least with
  which a second message of the order can fail its attempts, too, after the first
  was dead-lettered. `Outbox_safety` has one fault of the environment at a time
  (the constraint `MCOneFault`), `OrdersPipeline` two of any kind
  (`MCTwoFaults`), `Storefront_calls` one. No constraint counts a step that
  fairness obliges, so the liveness checks lose no behaviour but those with more
  faults. The theorems have any number.
* `OrderWorker_delivery`: one well-formed order, since orders share no key, row
  or message; a malformed event is in `OrdersPipeline`. `MaxCopies = 3` has a
  duplicate beside the message that a crash or a rebalance gives back.
* One payment in `PaymentSaga_safety` and `PaymentSaga_live`: payments share no
  row, lock or message; they meet in a batch of the job. What is left of a
  batch after a failing payment is therefore not exercised: a later run reads it
  anew, as it does the failing one.
* `OrdersPipeline` (199,184 states): two requests with one key, the second
  malformed. One replica with one tick: what several of them do is shown by
  `Outbox_safety`. Two attempts in the outbox, so that a row waits for its
  backoff before it is stranded, and two in the worker. `MaxCopies = 3` lets
  messages be repeated, and one key runs out.
* `Storefront_calls`: one submission, so two attempts that may overlap in the
  API, and two refreshes with three attempts each, the least that overlap with
  each other. The timer may run out at any moment before the headers of an
  attempt.
* `Consoles`: two questions, over both consoles, let one follow on another in
  either; three ticks (0 to `MaxTicks`) let two loads be late. One tool with
  `Window = 2` and `MaxCalls = 2` reaches the boundary of the limiter; its
  bounds are proved for any.
* Deadlock is not checked: every bounded system stops once its faults, messages
  and requests are used up.

### Fairness

* `Outbox`: `setInterval` keeps starting ticks and an awaited call returns or
  throws, so each tick's steps are weakly fair as one action; so is the passing
  of time. That a send succeeds is not assumed, which is why the property says
  "sent or exhausted".
* `OrderWorker`: a running handler takes its next step, and a replica takes the
  next message. No call is assumed to succeed.
* `PaymentSaga`: the job's steps are weakly fair, and a lookup or a transaction
  that is retried for ever succeeds at some time (strong fairness). The gateway
  decides each charge at last. Nothing is assumed of verifiers, of messages or
  of webhooks; the crash bound makes runs that complete possible.
* `OrdersPipeline`: ticks and handlers as above, and time passes. Nothing
  obliges a client to ask or Kafka to accept.
* `Storefront`: timers run out, delays end, and what has arrived up to the
  headers of an answer is acted on, one weak fairness per call (`Proceed`). The
  API is obliged to nothing, and no fairness lets a body arrive or break: its
  timer is cleared before it is read.
* `Consoles`: the timers of the services fire, and React runs the effect it
  owes. Nobody is obliged to ask or to refresh, and the interval may tick or not.

## 4. What the documents say and the code does not

| Statement | Code | Run |
|---|---|---|
| "Guarantees ordering per entity" (`README.md:351`) | backoff, overlapping ticks and `RETURNING` reorder | `Outbox_ordering` |
| "DLQ ... Captures failed events safely" (`README.md:348`) | a retry takes its own key for a duplicate and returns | `OrderWorker_dropped` |
| `TERMINAL_ORDER_STATUSES` (`fullstack-system-design-playbook/src/types/order.ts:68`) | webhooks do not look at the status they overwrite | `PaymentSaga_terminal` |
| "Elimination of phantom double-charges and missed account reconciliations" (`src/README.md:118`) | the charge precedes the transaction, and reconciliation starts from rows | `Checkout_recorded` |

Seen while modelling, and part of the models, but without a run of their own:

* "the outbox row remains available for retry"
  (`fullstack-system-design-playbook/docs/backend-architecture.md:76`):
  `attempts < max_attempts` removes it for good, without a dead letter. This is
  why `EventuallySettled` and `EveryOrderIsFinished` say "or stranded".
* "User clicks checkout twice | Idempotency key"
  (`fullstack-system-design-playbook/docs/reliability-patterns.md:123`):
  `submitOrder` makes a new key per call (`hooks/useOrderLifecycle.ts:18`), so
  two clicks are two orders. `RetriesMakeOneOrder` is about one call.
* The store compares the payment's status with `RECONCILIACAO_NECESSARIA`
  (`state/orderStore.ts:97`), the backend writes it with its accents
  (`apps/api/src/payments/payment-status.ts:6`): the stage `needs_reconciliation`
  is never shown.
* The server advertises `30/minute/tool` (`mcp/src/server.ts:281`); its fixed
  window lets 59 calls through in a minute. `RateIsBounded` states the bound it
  keeps.

Two things no document speaks of:

* The body of an answer is the one thing that a call of the front end may wait
  for without end (`services/apiClient.ts:117`), and the store is loading as
  long. `CallsEndOrAwaitBody` says that there is no other.
* A confirmed payment clears `orders.last_error`
  (`apps/worker/src/payments/payments.repository.ts:74`), also when it holds the
  only trace of a dropped order event.

Malformed messages are logged and acknowledged, where `src/README.md:402` speaks
of a dead letter queue for "poisonous or unparseable messages"; `Receive` of
`OrderWorker` models that branch.

## 5. Proofs

The proofs are about every state machine above, alone and composed, for any
sets of events, orders, requests, keys, replicas, ticks, webhooks, verifiers,
runs of the job, submissions, refreshes, questions and tools, any limits and any
number of faults. They use the named assumptions of these modules only: events
and requests are finitely many, numbered where a table is read in their order;
replicas, ticks, webhooks, verifiers and calls are finite; the limits are
positive and the bounds natural numbers; an earlier event has a smaller number;
the names of different things are different.

Every safety property that a passing run checks is also a theorem, the three
refinements included.

A composition reuses the proofs of its parts: the module of proofs is
instantiated with the names of the composition, every step of the composition is
shown to be a step of the part or none, and the part's lemmas hold from then on.

`OutboxProofs`:

* The inductive invariant is `SentInv`: types, `SentIsPublished`, `Working` and
  `Picking`.
  `SentIsPublished` is not inductive alone: `markPublished` marks whatever its
  tick holds, so one must know that a tick at that point has sent its row
  (`Working`). `Working` also says that claimed rows are committed, which the
  refinement needs. `Picking` says what a row lock gives: until a claim commits,
  its rows stay eligible and no other claim has them.
* `TypeCorrect`, `SentIsInKafka`: consequences of `SentInv`.
* `SentRowsAreSettled` adds that a sent row has no claim: only then does no
  expiry and no claim touch it.
* `OutboxImplementsDelivery`: `Insert` records, an accepted first send delivers,
  `markPublished` settles, and every other step leaves the three sets alone.
* `WorkKeepsRows`: no tick adds or removes a row, which the composition rests on.
* There is no theorem on the order of events. Not even first claims are ordered:
  while a claim holds the lock of an earlier row and is then rolled back, another
  tick claims a later one.
* `Counted(e)` is a conservation argument. A row is *open* (`Open(e)` is 1)
  when the next claim may take it: it is neither sent nor freshly claimed. A
  claim uses the opening up; it reappears only by a failed attempt, which
  `attempts` counts, or by an expired claim, which `expiries` counts. Ticks that
  still have the row to send, copies already in Kafka and the opening together
  never exceed one plus these counts and the resends.
* `ClaimsAreExclusive`, `DuplicatesAreAccounted`, `AttemptsAreBounded` follow.

`PaymentSagaProofs`:

* The inductive invariant is `SagaInv`: types, `WorkersRight`, `UnderWayRight`
  and three facts about the rows (`Rows`): order and payment agree, a confirmed
  one has its money, the status has been announced. The three are not inductive
  alone: verifiers, runs of the job, webhooks and checkouts write what they
  heard earlier. `WorkersRight` and `UnderWayRight` say that whoever heard
  "confirmed" is still right, and that work exists only for a known payment.
  Both survive every step because no payment is forgotten and the gateway takes
  nothing back (`Forward`).
* `TransitionEffect` and `SettleEffect` say once what a transaction leaves in
  the rows; the proof that a step keeps `SagaInv` has one step per action.
* `SagaTypeCorrect`, `OrdersAgree`, `ConfirmedHasMoney` follow. `EventsAgree`
  adds `OutcomeAgrees`: while no webhook of a payment has been handled, only one
  outcome can have been announced, as a settled payment is settled no more.
* `SettledCounted`: a payment that is not settled has at most as many
  settlements as handled webhooks, a settled one at most one more. The test
  `status NOT IN ('CONFIRMED', 'FAILED')` is what uses the right up.
  `SettlementsAreCounted` follows.
* `LockCounted`: holders, and one more if the lock is free, never exceed one
  plus the expiries. A `DEL` of somebody else's lock is harmless for this bound,
  as the one who deletes has been counted as a holder. `LockIsCounted` follows.
* `SagaImplementsLifecycle`: the checkout opens, a webhook notifies, the first
  of verifiers and job settles, and everything else stutters.

`CheckoutProofs`:

* `IInv` adds to the properties what makes them inductive: one row per key
  (`OneRowPerKey`, the UNIQUE constraint), an order that is named by a reply is
  a row of that key, a request that has not ended has answered nothing, and the
  answer a request holds was given by the gateway. `EndsWithRow` and
  `EndsWithoutRow` are the two ways a request ends.
* `CheckoutTyped`, `RepliesAlwaysAgree`, `ConflictsAreResolved` (behind a 409
  there is an order that a repeated request finds) and
  `ChargesAlwaysAccounted` follow.

`OrderWorkerProofs`:

* `TypeInv`: types, and a handler that is not idle is on one of its attempts.
  `HandlerMoves` says once that a step of a handler moves it alone.
* `SilentDropsHaveCauses`: `SilentDropHasCause` is not inductive, as a
  duplicate is dropped when the key exists. `TraceInv` says that a key is held
  by a handler past its claim or its order is `Traced`, that a handler gives up
  only an order that is, and that a trace is taken away only with a mark in
  `silenced` (`TracedStays`). `Accounted` says this of one order, with the
  orders `sent` to the topic as a parameter: `OrdersPipeline` knows them more
  exactly than the worker alone.
* `ProcessedRowsAreFinal` from the two WHERE clauses;
  `MarkedRowsWereAnnounced` from the order of send and mark.
* `KeyInv`: the times a key was taken are `Taken`: its expiries, and one if it
  exists. Messages sent, less the resends, and handlers about to send never exceed it together,
  nor do the handlers past the claim. `EffectsAreBounded` and `KeysExclude`
  follow.
* `EarnedInv`: dead letters times `MaxAttempts`, plus the failed attempts of
  the handlers at work, never exceed the faults. The failed attempts of an
  order are a set of pairs of handler and attempt; a handler that publishes a
  dead letter takes all `MaxAttempts` of its pairs out of it.
  `DeadLettersAlwaysEarned` follows.

`McpServerProofs`:

* `ToolInv` splits the recent calls of a tool in those of the open window and
  those before. Within a window calls have different numbers, the open window
  has all numbers up to its count, and the older calls lack number 1: the call
  that opened their window is older than `Window` when the next one opens. So
  there are at most `MaxCalls` and `MaxCalls - 1` of them.
* `LimiterTyped`, `RateAlwaysBounded`, `RefusalsAreEarned` follow.

`StorefrontProofs`:

* `SubmissionsMakeOneOrder`: `OrdersOK` says that a row carries the key of the
  attempt it is named for, and that no two rows share a key; of the whole
  program only an INSERT of the API disturbs it, and that one meets the UNIQUE
  column (`ServeShape`, `NewRow`). All attempts of a submission have its key,
  so its orders are one row.
* `ScreenIsTrue`: what was heard of an order is `Known`, that is, it was true at
  its version. The backend only goes `Forward`, so what is known stays known
  (`KnowledgeLasts`) and a screen that is left alone stays true
  (`ScreenStaysTrue`). Whatever a call shows was heard: a body is read only
  after the answer has come (`BodyHeard`), and an attempt that is answered with
  2xx names a committed order (`AnswersHeard`, `RepliesCommitted`).
* `LoadingAlwaysHasCall` needs of the invariant only the types: whoever sets
  the indicator begins a call, and whoever ends a call clears it.
* `BackByOverlapOnly`: `OverlapInv` says that a refresh whose answer is older
  than the screen has been overtaken (`FreshReads`), and so has a submission
  whose order the screen shows already (`FreshPosts`); it needs that an attempt
  is answered with an order of its own submission (`OwnOrders`).
* `ApiIsCheckout`: with attempts for requests, what the API does behind the
  browser is a behaviour of `Checkout`. `ApiKeepsItsPromises` takes the
  theorems on replies, conflicts and charges over. `StorefrontTyped` adds the
  types of store and calls.

`OrdersPipelineProofs`:

* `OP` and `WP` are the proofs of the outbox and of the order worker in the
  pipeline's variables. `RelayWorks`, `HandlesWork` and `ApiWorks` sort the
  steps: each is one of the outbox worker, of the order worker or of the API,
  and the one they share is Kafka taking a record. `PartsKeepTheirSpecs`: the
  composition implements both modules, so their invariants hold here.
* What the parts cannot know is how an order is handed on. `Ordered`: an order
  and its outbox row are committed together, and one key has one order.
  `HandedOver`: Kafka and the order worker have committed orders only.
  `AllAccounted`: what Kafka took is waiting, in hand, has a trace or is
  `silenced` (the worker's `Accounted`, of the events in Kafka's log).
* `LossesHaveCauses`, of well-formed orders: a committed order has a row
  (`Ordered`); the row is not sent, or its event is in Kafka (`SentIsPublished` of `OP`); and what is in Kafka is
  accounted for, with the two causes in `silenced`. Each of the three programs contributes the link that it owns.
* `KeysHaveOneEffect`: one order per key from `Ordered`, and the bound on its
  effects from `KeyInv` of `WP`.
* `PipelineDelivers`: the INSERT records, the first send to `orders.processed`
  delivers, `markProcessed` settles (only after the send: `AnnouncedInv` of
  `WP`), everything else stutters.

`ConsolesProofs`:

* `ConsolesKeepTheLimiter`, `ConsolesAreLimited`: the limiter's steps are those
  of `McpServer`, so that its bounds hold under the consoles.
* `AnswersAlwaysFollow`: `Conversation` says that a console thinks exactly while
  its last message is a question, and that this one is open, and no other; the
  guard of `ask` keeps it. An answer that returns is then the answer to the last
  message. `Alternate` says the same of every earlier pair.
* `BlockedNeverRuns`: what has run is the batch of a question on the screen that
  the denylists of its console let through (`MayRun`); questions stay on the
  screen, so this lasts.
* `SnapshotsOnlyAdvance`: the shown snapshot is not newer than the effect that
  runs, nor that than the tick (`ScreenInv`), and only the load of the running
  effect is listened to.
* `ConsolesTyped`: types.

Only model-checked: the liveness properties `EveryMessageIsConsumed`,
`PendingIsSettled`, `EveryOrderIsFinished`, `EventuallySettled`,
`CallsEndOrAwaitBody` and `WaitingEndsOrTicks`. They need fairness, and with it ENABLED,
which the prover does not reason about.

## 6. Not modelled

* Both gateways in the repository are stubs that read the transaction
  reference; the model has the gateway behind them instead. That it answers
  truthfully and takes no settled charge back is an assumption on the
  environment, on which `ConfirmedIsCaptured` rests.
* Payloads, schemas, headers, metrics, tracing, log lines.
* Kafka partitions and offsets beyond "a message is delivered again".
* The limit of 50 payments of the job (its instances stay below it),
  `getOrder` beyond its answer, `listOrders`, the admin guard and preview.
* The payloads of the MCP tools and their redaction, the panels of the
  consoles, the metrics that the mocks drift, the interceptors of `apiRequest`
  (nobody registers one), the cart and its copy in localStorage.
* The unused outbox publisher of the API, observability, manifests and CI.

## 7. Plan

1. Done: every program of the order's path with its hazards, the outbox, the
   order worker, the payment saga, the checkout and the rate limiter with their
   theorems; the composition of the first release end to end; the browser's
   side of an order; the consoles. Every safety property and refinement of
   these is proved.
2. Left: the composition of the newer tree, where the same order also goes
   through the payment saga, with partitions for the ordering of a reprocessed
   event; the batch limit of the reconciliation job as a parameter.
3. Left to prove, once it is modelled: that the composition of the newer tree
   implements its parts, as that of the first release does.
