--------------------------- MODULE OrdersPipeline ---------------------------
(***************************************************************************)
(* The first release (src/apps), which has no payments, from end to end:   *)
(* createOrder of the API, the outbox worker (module Outbox) and the order *)
(* worker (module OrderWorker), over one database and one Kafka.           *)
(*                                                                         *)
(* An order, its request and its one outbox event have the same name.  The *)
(* record that a tick sends (Outbox) is the message that a handler takes   *)
(* (OrderWorker): that step belongs to both modules.                       *)
(***************************************************************************)
EXTENDS Integers, FiniteSets

CONSTANTS Request,         \* POST /orders requests with a valid body
          NoOrder,         \* the order of a reply that names none
          KeyOf,           \* Request -> its idempotency key
          Malformed,       \* requests with an empty correlation or key header:
                           \* ?? keeps '', which the worker's schema rejects
          Process, Slot, BatchLimit, OutboxAttempts,   \* as in Outbox
          Worker, WorkerAttempts,                      \* as in OrderWorker
          MaxApiFaults,    \* bound: transactions of the API that fail
          MaxCrashes, MaxDbErrors, MaxEarly,           \* bounds of Outbox
          MaxCopies, MaxFaults, MaxDeaths, MaxExpiries, \* bounds of OrderWorker
          MaxResends       \* bound of both

ASSUME RequestAssumption == /\ Request \subseteq Nat /\ IsFiniteSet(Request)
                            /\ NoOrder \notin Request
                            /\ Malformed \subseteq Request
ASSUME ProgramAssumption == /\ IsFiniteSet(Process) /\ IsFiniteSet(Slot) /\ IsFiniteSet(Worker)
                            /\ {BatchLimit, OutboxAttempts, WorkerAttempts} \subseteq Nat \ {0}
ASSUME BoundAssumption == {MaxApiFaults, MaxCrashes, MaxDbErrors, MaxEarly, MaxCopies,
                           MaxFaults, MaxDeaths, MaxExpiries, MaxResends} \subseteq Nat

VARIABLES
  requests,   \* Request -> [pc, outcome, order]: createOrder and its reply
  orders,     \* committed rows of orders; the columns of the worker are in rows
  apiFaults,  \* count of the failed transactions
  outbox, ticks, log, crashes, dbErrors, claimExpiries, relayResends,  \* of Outbox
  topic, handlers, key, rows, processed, dlq, copies, faults,
  deaths, expiries, resends, silenced                       \* of OrderWorker

api  == <<requests, orders, apiFaults>>
relay == <<outbox, ticks, log, crashes, dbErrors, claimExpiries, relayResends>>
work == <<topic, handlers, key, rows, processed, dlq, copies, faults, deaths,
          expiries, resends, silenced>>
vars == <<api, relay, work>>

O == INSTANCE Outbox
         WITH Event <- Request, Earlier <- [r \in Request |-> {}],
              MaxAttempts <- OutboxAttempts, rows <- outbox, expiries <- claimExpiries,
              resends <- relayResends
W == INSTANCE OrderWorker
         WITH Order <- Request, MaxAttempts <- WorkerAttempts, MaxCrashes <- MaxDeaths,
              crashes <- deaths

Init == /\ requests = [r \in Request |-> [pc |-> "ready", outcome |-> "none",
                                          order |-> NoOrder]]
        /\ orders = {} /\ apiFaults = 0
        /\ O!Init
        /\ W!Init /\ \A r \in Request : rows[r].status = "created"

SameKey(r) == {o \in orders : KeyOf[o] = KeyOf[r]}

-----------------------------------------------------------------------------
(* createOrder *)

Reply(r, outcome, o) ==
    requests' = [requests EXCEPT ![r] = [pc |-> "done", outcome |-> outcome, order |-> o]]

\* The SELECT by idempotency key.
LookUp(r) ==
    /\ requests[r].pc = "ready"
    /\ \/ /\ SameKey(r) = {}
          /\ requests' = [requests EXCEPT ![r].pc = "insert"]
       \/ \E o \in SameKey(r) : Reply(r, "existing", o)
    /\ UNCHANGED <<orders, apiFaults, relay, work>>

\* Mutant: the event is written after the transaction, and never is.
MutantStore(r) == /\ orders' = orders \union {r}
                  /\ UNCHANGED <<relay, work>>

\* The order and its outbox event become visible together.
Store(r) == /\ orders' = orders \union {r}
            /\ O!Insert(r)
            /\ UNCHANGED work

\* Mutant: the column idempotency_key is not UNIQUE.
MutantCommit(r) == /\ requests[r].pc = "insert"
                   /\ Store(r) /\ Reply(r, "created", r)
                   /\ UNCHANGED apiFaults

\* BEGIN, two INSERTs, COMMIT.
Commit(r) == /\ requests[r].pc = "insert" /\ SameKey(r) = {}
             /\ Store(r) /\ Reply(r, "created", r)
             /\ UNCHANGED apiFaults

\* 23505, the UNIQUE constraint: ROLLBACK and a 409.
Conflict(r) == /\ requests[r].pc = "insert" /\ SameKey(r) # {}
               /\ Reply(r, "conflict", NoOrder)
               /\ UNCHANGED <<orders, apiFaults, relay, work>>

\* The transaction fails otherwise, or the API dies: nothing is stored, or
\* the COMMIT took effect and its answer is lost.
CommitFails(r) == /\ requests[r].pc = "insert" /\ SameKey(r) = {}
                  /\ apiFaults < MaxApiFaults
                  /\ apiFaults' = apiFaults + 1
                  /\ Store(r) \/ UNCHANGED <<orders, relay, work>>
                  /\ Reply(r, "error", NoOrder)

ApiStep(r) == LookUp(r) \/ Commit(r) \/ Conflict(r) \/ CommitFails(r)

-----------------------------------------------------------------------------
(* The outbox worker *)

\* producer.send: what Kafka takes, a handler will be given.
Send(t, r) == /\ O!SendOk(t, r) \/ O!SendRejected(t, r)
              /\ IF log' = log THEN UNCHANGED work ELSE W!Publish(r)
              /\ UNCHANGED api

\* A retry inside the send.
SendAgain(t, r) == O!SendAgain(t, r) /\ W!Publish(r) /\ UNCHANGED api

TickStep(t) == \/ \E r \in Request : Send(t, r)
               \/ /\ \/ O!SelectPending(t) \/ O!FetchPending(t)
                     \/ O!MarkPublished(t) \/ O!MarkFailed(t)
                  /\ UNCHANGED <<api, work>>

TickFault == /\ \/ \E t \in O!Tick : O!TickThrows(t)
                \/ \E p \in Process : O!Crash(p)
             /\ UNCHANGED <<api, work>>

TimePasses(r) == /\ O!ClaimExpires(r) \/ O!BecomesDue(r)
                 /\ UNCHANGED <<api, work>>

-----------------------------------------------------------------------------
(* The order worker, and the operator's POST /admin/dlq/reprocess *)

Receive(w) == /\ \E r \in Request : W!Receive(w, r)
              /\ UNCHANGED <<api, relay>>

HandlerStep(w) == W!HandlerStep(w) /\ UNCHANGED <<api, relay>>

HandlerSendsAgain(w) == W!SendAgain(w) /\ UNCHANGED <<api, relay>>

HandlerFault(w) == W!HandlerFault(w) /\ UNCHANGED <<api, relay>>

Reprocess(r) == W!Reprocess(r) /\ UNCHANGED <<api, relay>>

KeyExpires(r) == W!KeyExpires(r) /\ UNCHANGED <<api, relay>>

Redeliver(w) == W!Redeliver(w) /\ UNCHANGED <<api, relay>>

Die(w) == W!Crash(w) /\ UNCHANGED <<api, relay>>

Next == \/ \E r \in Request : ApiStep(r) \/ TimePasses(r) \/ Reprocess(r) \/ KeyExpires(r)
        \/ \E t \in O!Tick : TickStep(t) \/ \E r \in Request : SendAgain(t, r)
        \/ TickFault
        \/ \E w \in Worker : \/ Receive(w) \/ HandlerStep(w) \/ HandlerSendsAgain(w)
                             \/ HandlerFault(w) \/ Redeliver(w) \/ Die(w)

Spec == Init /\ [][Next]_vars

\* Replicas keep ticking, handlers run to their end and time passes; nothing
\* obliges a client to ask, Kafka to accept or a call to fail.
FairSpec == /\ Spec
            /\ \A t \in O!Tick : WF_vars(TickStep(t))
            /\ \A r \in Request : WF_vars(TimePasses(r))
            /\ \A w \in Worker : WF_vars(Receive(w)) /\ WF_vars(HandlerStep(w))

-----------------------------------------------------------------------------
\* Waiting somewhere between the API and the end of a handler.
InFlight(o) == \/ outbox[o].present /\ ~outbox[o].sent
               \/ topic[o] > 0
               \/ W!Handlers(o) # {}

\* What an operator can find out about an order from its row or a topic.
Outcome(o) == rows[o].processedAt \/ dlq[o] > 0 \/ rows[o].lastError = "worker"

\* Between the three programs an order is lost for two causes only: a
\* committed order whose event is well formed is in flight or has an outcome,
\* or a worker that was past the claim died with it, or markFailed threw
\* before it wrote the error.
LossHasCause == \A o \in orders \ Malformed : InFlight(o) \/ Outcome(o) \/ o \in silenced

\* End to end, an idempotency key has one order, and that order at most one
\* effect for every time the Redis key is taken, whatever requests, ticks,
\* replays and handlers repeat; the retry inside a send adds to that.
OneEffectPerIdempotencyKey ==
    \A r \in Request :
        /\ Cardinality(SameKey(r)) <= 1
        /\ processed[r] <= IF r \in orders THEN 1 + expiries[r] + resends[r] ELSE 0

\* The pipeline is the same promise as its outbox, end to end: orders are
\* recorded, orders.processed is sent at least once, and only then may the
\* row say so.
EndToEnd == INSTANCE OutboxDelivery
                WITH Event     <- Request,
                     recorded  <- orders,
                     delivered <- {o \in Request : processed[o] > 0},
                     settled   <- {o \in Request : rows[o].processedAt}
EndToEndSpec == EndToEnd!Spec

\* Every order whose event is well formed comes to an outcome, or its row in
\* the outbox exhausts its attempts, or one of those two causes lost it.
EveryOrderIsFinished ==
    \A o \in Request \ Malformed :
        o \in orders ~> (Outcome(o) \/ O!Stranded(o) \/ o \in silenced)

\* The outbox's own liveness, with its consumers attached.
EventuallySettled == O!EventuallySettled
=============================================================================
