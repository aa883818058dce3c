----------------------------- MODULE OrderWorker -----------------------------
(***************************************************************************)
(* The Kafka worker's side of orders.created: the consumer, the retry loop *)
(* of OrdersProcessor, the Redis key that marks an order as seen, the      *)
(* order's row, the orders.processed topic and the dead-letter topic.      *)
(*                                                                         *)
(* Delivery is at least once: the outbox may publish a row twice, an       *)
(* operator may replay a dead letter, and Kafka redelivers a message whose *)
(* handler did not return to the replica that gets the partition next,     *)
(* also while the first handler is still running.                          *)
(***************************************************************************)
EXTENDS Integers, FiniteSets

CONSTANTS Order,        \* orders; each has one orders.created event
          NoOrder,      \* the ord of an idle handler
          Malformed,    \* orders whose event the worker's schema rejects
          Worker,       \* replicas, each handling one message at a time
          MaxAttempts,  \* attempts of processWithRetry (5 in the code)
          MaxCopies,    \* bound: messages of one order
          MaxFaults,    \* bound: calls to Redis, Kafka or the database that fail
          MaxCrashes,   \* bound: crashes of replicas
          MaxExpiries,  \* bound: ten-minute keys that run out, per order
          MaxResends    \* bound: records of one order written by kafkajs's own retry

ASSUME SetAssumption == /\ Malformed \subseteq Order
                        /\ IsFiniteSet(Worker)
                        /\ NoOrder \notin Order
ASSUME BoundAssumption ==
    /\ MaxAttempts \in Nat \ {0}
    /\ {MaxCopies, MaxFaults, MaxCrashes, MaxExpiries, MaxResends} \subseteq Nat

VARIABLES topic,      \* Order -> messages no handler has taken
          handlers,   \* Worker -> [pc, ord, attempt]
          key,        \* Order -> the Redis key orders.created.v1:<id> exists
          rows,       \* Order -> the columns of orders the worker writes
          processed,  \* Order -> messages on orders.processed
          dlq,        \* Order -> messages on orders.created.dlq
          copies, faults, crashes, expiries, resends,  \* counts of the bounded events
          silenced    \* orders whose failure may have left no trace: their handler
                      \* died, or last_error was not written or was overwritten

vars == <<topic, handlers, key, rows, processed, dlq,
          copies, faults, crashes, expiries, resends, silenced>>
counts == <<copies, crashes, expiries>>

\* status is one of the saga's statuses ("saga"), which this worker leaves
\* alone, or 'created'/'processed' of an order from before the saga.
\* lastError tells whose message last_error holds.
Row == [status : {"saga", "created", "processed"}, processedAt : BOOLEAN,
        lastError : {"none", "worker", "payment"}]

Idle == [pc |-> "idle", ord |-> NoOrder, attempt |-> 0]

Handlers(o) == {w \in Worker : handlers[w].ord = o}

Init == /\ topic = [o \in Order |-> 0]
        /\ handlers = [w \in Worker |-> Idle]
        /\ key = [o \in Order |-> FALSE]
        /\ \E status \in [Order -> {"saga", "created"}] :
              rows = [o \in Order |-> [status |-> status[o], processedAt |-> FALSE,
                                       lastError |-> "none"]]
        /\ processed = [o \in Order |-> 0]
        /\ dlq = [o \in Order |-> 0]
        /\ copies = [o \in Order |-> 0]
        /\ faults = 0 /\ crashes = 0
        /\ expiries = [o \in Order |-> 0]
        /\ resends = [o \in Order |-> 0]
        /\ silenced = {}

-----------------------------------------------------------------------------
\* The outbox worker publishes the event, once or, after a crash of its own,
\* again.
Publish(o) == /\ copies[o] < MaxCopies
              /\ copies' = [copies EXCEPT ![o] = @ + 1]
              /\ topic' = [topic EXCEPT ![o] = @ + 1]
              /\ UNCHANGED <<handlers, key, rows, processed, dlq, faults, crashes,
                             expiries, resends, silenced>>

\* POST /admin/dlq/reprocess: an operator sends the original event of a dead
\* letter to orders.created again.
Reprocess(o) == /\ dlq[o] > 0
                /\ Publish(o)

\* The partition moves to another replica while this handler runs: the
\* message, whose offset is not committed, is delivered a second time.
Redeliver(w) == /\ handlers[w].pc # "idle"
                /\ Publish(handlers[w].ord)

-----------------------------------------------------------------------------
\* eachMessage takes a message.  One that is empty, is not JSON or does not
\* match the schema is logged and dropped; its offset is committed.
Receive(w, o) ==
    /\ handlers[w].pc = "idle" /\ topic[o] > 0
    /\ topic' = [topic EXCEPT ![o] = @ - 1]
    /\ handlers' = IF o \in Malformed THEN handlers
                   ELSE [handlers EXCEPT ![w] = [pc |-> "acquire", ord |-> o, attempt |-> 1]]
    /\ UNCHANGED <<key, rows, processed, dlq, faults, counts, resends, silenced>>

\* Mutants: SET without NX; the row is written before the event is sent.
MutantAcquireAlways(w) ==
    LET o == handlers[w].ord IN
    /\ handlers[w].pc = "acquire"
    /\ key' = [key EXCEPT ![o] = TRUE]
    /\ handlers' = [handlers EXCEPT ![w].pc = "send"]
    /\ UNCHANGED <<topic, rows, processed, dlq, faults, counts, resends, silenced>>
MutantAcquireMarksFirst(w) ==
    LET o == handlers[w].ord IN
    /\ handlers[w].pc = "acquire" /\ ~key[o]
    /\ key' = [key EXCEPT ![o] = TRUE]
    /\ handlers' = [handlers EXCEPT ![w].pc = "mark"]
    /\ UNCHANGED <<topic, rows, processed, dlq, faults, counts, resends, silenced>>

\* SET key NX: the first to ask takes the key.
Acquire(w) ==
    LET o == handlers[w].ord IN
    /\ handlers[w].pc = "acquire" /\ ~key[o]
    /\ key' = [key EXCEPT ![o] = TRUE]
    /\ handlers' = [handlers EXCEPT ![w].pc = "send"]
    /\ UNCHANGED <<topic, rows, processed, dlq, faults, counts, resends, silenced>>

\* Mutant: a duplicate is refused, so Kafka delivers it again.
MutantSkipDuplicate(w) ==
    /\ handlers[w].pc = "acquire" /\ key[handlers[w].ord]
    /\ topic' = [topic EXCEPT ![handlers[w].ord] = @ + 1]
    /\ handlers' = [handlers EXCEPT ![w] = Idle]
    /\ UNCHANGED <<key, rows, processed, dlq, faults, counts, resends, silenced>>

\* The key exists: processOrder returns as if the work were done, also when
\* it was this handler's own failed attempt that left the key.
SkipDuplicate(w) ==
    /\ handlers[w].pc = "acquire" /\ key[handlers[w].ord]
    /\ handlers' = [handlers EXCEPT ![w] = Idle]
    /\ UNCHANGED <<topic, key, rows, processed, dlq, faults, counts, resends, silenced>>

\* orders.processed is sent before the row is written.
SendProcessed(w) ==
    /\ handlers[w].pc = "send"
    /\ processed' = [processed EXCEPT ![handlers[w].ord] = @ + 1]
    /\ handlers' = [handlers EXCEPT ![w].pc = "mark"]
    /\ UNCHANGED <<topic, key, rows, dlq, faults, counts, resends, silenced>>

\* Within the send kafkajs repeats a produce request whose acknowledgement it
\* missed, and the broker writes the record once more.
SendAgain(w) ==
    LET o == handlers[w].ord IN
    /\ handlers[w].pc = "send"
    /\ resends[o] < MaxResends
    /\ resends' = [resends EXCEPT ![o] = @ + 1]
    /\ processed' = [processed EXCEPT ![o] = @ + 1]
    /\ UNCHANGED <<topic, handlers, key, rows, dlq, faults, counts, silenced>>

\* The row as markProcessed leaves it: WHERE status <> 'processed'.
Marked(r) == IF r.status = "processed" THEN r
             ELSE [status |-> IF r.status = "created" THEN "processed" ELSE r.status,
                   processedAt |-> TRUE, lastError |-> "none"]

MarkProcessed(w) ==
    /\ handlers[w].pc = "mark"
    /\ rows' = [rows EXCEPT ![handlers[w].ord] = Marked(@)]
    /\ handlers' = [handlers EXCEPT ![w] = Idle]
    /\ UNCHANGED <<topic, key, processed, dlq, faults, counts, resends, silenced>>

-----------------------------------------------------------------------------
\* A call of the attempt throws: Redis at the claim, before or after the key
\* was set; Kafka at connect or send (nothing sent) or at disconnect (sent);
\* the database at markProcessed, before or after it took effect.
Fault(w) == /\ faults < MaxFaults
            /\ faults' = faults + 1
            /\ handlers' = [handlers EXCEPT ![w].pc = "failed"]

AcquireThrows(w) ==
    /\ handlers[w].pc = "acquire"
    /\ Fault(w)
    /\ key' \in {key, [key EXCEPT ![handlers[w].ord] = TRUE]}
    /\ UNCHANGED <<topic, rows, processed, dlq, counts, resends, silenced>>

SendThrows(w) ==
    /\ handlers[w].pc = "send"
    /\ Fault(w)
    /\ processed' \in {processed, [processed EXCEPT ![handlers[w].ord] = @ + 1]}
    /\ UNCHANGED <<topic, key, rows, dlq, counts, resends, silenced>>

MarkProcessedThrows(w) ==
    LET o == handlers[w].ord IN
    /\ handlers[w].pc = "mark"
    /\ Fault(w)
    /\ rows' \in {rows, [rows EXCEPT ![o] = Marked(@)]}
    /\ UNCHANGED <<topic, key, processed, dlq, counts, resends, silenced>>

\* Mutants: one attempt too many; the first failure is dead-lettered; the
\* row shows no error, or shows it although it is processed.
MutantOneMoreAttempt(w) == IF handlers[w].attempt <= MaxAttempts
                           THEN [handlers EXCEPT ![w].pc = "acquire", ![w].attempt = @ + 1]
                           ELSE [handlers EXCEPT ![w].pc = "dlq"]
MutantNoRetry(w) == [handlers EXCEPT ![w].pc = "dlq"]
MutantFailedSilent(r) == r
MutantFailedUnguarded(r) == [r EXCEPT !.lastError = "worker"]

\* The next attempt, or the end of the loop.
NextAttempt(w) == IF handlers[w].attempt < MaxAttempts
                  THEN [handlers EXCEPT ![w] = [pc |-> "acquire", ord |-> handlers[w].ord,
                                                attempt |-> handlers[w].attempt + 1]]
                  ELSE [handlers EXCEPT ![w].pc = "dlq"]

\* The row as markFailed leaves it: WHERE status <> 'processed'.
Failed(r) == IF r.status = "processed" THEN r ELSE [r EXCEPT !.lastError = "worker"]

\* The catch block: markFailed writes last_error (WHERE status <>
\* 'processed'), then the loop backs off and tries again, or gives up.  The
\* Redis key stays.
MarkFailed(w) ==
    LET o == handlers[w].ord IN
    /\ handlers[w].pc = "failed"
    /\ rows' = [rows EXCEPT ![o] = Failed(@)]
    /\ handlers' = NextAttempt(w)
    /\ UNCHANGED <<topic, key, processed, dlq, faults, counts, resends, silenced>>

\* markFailed throws out of the loop, before or after it took effect: the
\* consumer logs it and commits the offset.
MarkFailedThrows(w) ==
    LET o == handlers[w].ord IN
    /\ handlers[w].pc = "failed"
    /\ faults < MaxFaults
    /\ faults' = faults + 1
    /\ rows' \in {rows, [rows EXCEPT ![o] = Failed(@)]}
    /\ silenced' = IF rows'[o].lastError = "worker" THEN silenced ELSE silenced \union {o}
    /\ handlers' = [handlers EXCEPT ![w] = Idle]
    /\ UNCHANGED <<topic, key, processed, dlq, counts, resends>>

PublishDlq(w) ==
    /\ handlers[w].pc = "dlq"
    /\ dlq' = [dlq EXCEPT ![handlers[w].ord] = @ + 1]
    /\ handlers' = [handlers EXCEPT ![w] = Idle]
    /\ UNCHANGED <<topic, key, rows, processed, faults, counts, resends, silenced>>

\* publishDlq throws, before or after the send: logged, offset committed.
PublishDlqThrows(w) ==
    /\ handlers[w].pc = "dlq"
    /\ faults < MaxFaults
    /\ faults' = faults + 1
    /\ dlq' \in {dlq, [dlq EXCEPT ![handlers[w].ord] = @ + 1]}
    /\ handlers' = [handlers EXCEPT ![w] = Idle]
    /\ UNCHANGED <<topic, key, rows, processed, counts, resends, silenced>>

-----------------------------------------------------------------------------
\* A confirmed, rejected or reopened payment writes the same column: the saga
\* sets last_error to NULL or to its own message, whatever it held.  An order
\* from before the saga has no payment.
PaymentWrites(o) ==
    /\ rows[o].status = "saga"
    /\ \E text \in {"none", "payment"} : rows' = [rows EXCEPT ![o].lastError = text]
    /\ silenced' = IF rows[o].lastError = "worker" THEN silenced \union {o} ELSE silenced
    /\ UNCHANGED <<topic, handlers, key, processed, dlq, faults, counts, resends>>

\* A replica dies.  Its message is delivered again to the next one, which
\* finds the key if this one had taken it.
Crash(w) ==
    /\ crashes < MaxCrashes /\ handlers[w].pc # "idle"
    /\ crashes' = crashes + 1
    /\ topic' = [topic EXCEPT ![handlers[w].ord] = @ + 1]
    /\ handlers' = [handlers EXCEPT ![w] = Idle]
    /\ silenced' = IF handlers[w].pc = "acquire" THEN silenced
                   ELSE silenced \union {handlers[w].ord}
    /\ UNCHANGED <<key, rows, processed, dlq, copies, faults, expiries, resends>>

\* Ten minutes after the claim the key is gone, whatever became of the order.
KeyExpires(o) ==
    /\ key[o] /\ expiries[o] < MaxExpiries
    /\ expiries' = [expiries EXCEPT ![o] = @ + 1]
    /\ key' = [key EXCEPT ![o] = FALSE]
    /\ UNCHANGED <<topic, handlers, rows, processed, dlq, copies, faults, crashes,
                   resends, silenced>>

HandlerStep(w) == \/ Acquire(w) \/ SkipDuplicate(w) \/ SendProcessed(w)
                  \/ MarkProcessed(w) \/ MarkFailed(w) \/ PublishDlq(w)

HandlerFault(w) == \/ AcquireThrows(w) \/ SendThrows(w) \/ MarkProcessedThrows(w)
                   \/ MarkFailedThrows(w) \/ PublishDlqThrows(w)

Next == \/ \E o \in Order : Publish(o) \/ Reprocess(o) \/ KeyExpires(o) \/ PaymentWrites(o)
        \/ \E w \in Worker : \/ \E o \in Order : Receive(w, o)
                             \/ HandlerStep(w) \/ SendAgain(w) \/ HandlerFault(w)
                             \/ Redeliver(w) \/ Crash(w)

Spec == Init /\ [][Next]_vars

\* A replica takes the next message and a handler runs to its end; every
\* call it makes returns or throws.
FairSpec == /\ Spec
            /\ \A w \in Worker : WF_vars(HandlerStep(w))
            /\ \A w \in Worker : WF_vars(\E o \in Order : Receive(w, o))

-----------------------------------------------------------------------------
\* Type invariant.
TypeOK ==
    /\ topic \in [Order -> Nat]
    /\ handlers \in [Worker -> [pc : {"idle", "acquire", "send", "mark", "failed", "dlq"},
                                ord : Order \union {NoOrder}, attempt : 0..MaxAttempts]]
    /\ \A w \in Worker : handlers[w].pc # "idle" => handlers[w].ord \in Order \ Malformed
    /\ key \in [Order -> BOOLEAN]
    /\ rows \in [Order -> Row]
    /\ {processed, dlq, copies, expiries, resends} \subseteq [Order -> Nat]
    /\ silenced \subseteq Order
    /\ faults \in Nat /\ crashes \in Nat

\* Redis NX bounds the effect: orders.processed carries at most one message
\* of an order for every time the key was taken, so at most one per ten
\* minutes, whatever is duplicated, retried, replayed or restarted; only the
\* retry inside a send adds to that.
OneEffectPerKey == \A o \in Order : processed[o] <= 1 + expiries[o] + resends[o]

\* Until the key runs out, at most one handler is past the claim.
KeyExcludes ==
    \A o \in Order :
        Cardinality({w \in Handlers(o) : handlers[w].pc \in {"send", "mark"}})
            <= (IF key[o] THEN 1 ELSE 0) + expiries[o]

\* A row says processed only after orders.processed was sent for it.
MarkedWasAnnounced == \A o \in Order : rows[o].processedAt => processed[o] > 0

\* No message of the order is waiting and no handler works on it.
Consumed(o) == copies[o] > 0 /\ topic[o] = 0 /\ Handlers(o) = {}

\* The documented DLQ guarantee, "captures failed events safely": an event
\* all of whose messages are consumed is processed or in the dead-letter
\* topic.
NoEventIsDropped ==
    \A o \in Order : Consumed(o) => rows[o].processedAt \/ dlq[o] > 0

\* What the code does guarantee of a well-formed event whose messages are all
\* consumed: the order is processed, dead-lettered or shows the worker's error
\* in its row, or one of three things silenced it, which leave no trace: its
\* handler died after it took the key, markFailed threw before it wrote the
\* error, or a payment overwrote it.
SilentDropHasCause ==
    \A o \in Order \ Malformed :
        Consumed(o) => \/ rows[o].processedAt \/ dlq[o] > 0
                       \/ rows[o].lastError = "worker"
                       \/ o \in silenced

\* A dead letter costs a failure per attempt.
DeadLettersAreEarned ==
    \A o \in Order : dlq[o] * MaxAttempts <= faults

\* A row in status 'processed' is final: no later failure, duplicate or
\* replay writes it (the WHERE status <> 'processed' of both statements).
ProcessedRowIsFinal ==
    [][\A o \in Order : rows[o].status = "processed" => rows'[o] = rows[o]]_vars

\* Every message is consumed: retries end and a duplicate is acknowledged.
EveryMessageIsConsumed ==
    \A o \in Order : topic[o] > 0 ~> (topic[o] = 0 /\ Handlers(o) = {})
=============================================================================
