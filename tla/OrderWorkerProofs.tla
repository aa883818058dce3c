------------------------- MODULE OrderWorkerProofs -------------------------
(***************************************************************************)
(* Theorems about the worker's side of orders.created, for every number of *)
(* orders, replicas, messages, attempts, faults, crashes and expired keys. *)
(*                                                                         *)
(* A well-formed event is dropped without a trace for three causes only,   *)
(* which silence the order: the Redis key is either held by a handler that *)
(* still works on the order, or the order is Traced or silenced.  That is  *)
(* why a duplicate that finds the key may be dropped.                      *)
(*                                                                         *)
(* The counting theorems follow at the end: at most one handler holds the  *)
(* key, at most one orders.processed is sent for each time the key is      *)
(* taken, and a dead letter costs a failure for each attempt.              *)
(***************************************************************************)
EXTENDS OrderWorker, FiniteSetTheorems, TLAPS

Handler == [pc : {"idle", "acquire", "send", "mark", "failed", "dlq"},
            ord : Order \union {NoOrder}, attempt : 0..MaxAttempts]

\* A handler is idle or on one of the attempts of processWithRetry.
HandlerInv == \A w \in Worker :
                 IF handlers[w].pc = "idle" THEN handlers[w].ord = NoOrder
                 ELSE handlers[w].attempt \in 1..MaxAttempts

TypeInv == TypeOK /\ HandlerInv

\* Something tells what became of the order, its row or a dead letter, or one
\* of the causes silenced it.
Traced(o) == \/ rows[o].processedAt \/ dlq[o] > 0 \/ rows[o].lastError = "worker"
             \/ o \in silenced

\* The handlers that are past the claim.
Past(o) == {w \in Worker : handlers[w].ord = o /\ handlers[w].pc # "acquire"}

\* A status 'processed' comes with its time; a key has a holder or a trace; so
\* does a handler that gave up; and an order that is one of sent, the published
\* ones, is waiting, in hand or traced.
Accounted(o, sent) ==
    /\ rows[o].status = "processed" => rows[o].processedAt
    /\ key[o] => Traced(o) \/ Past(o) # {}
    /\ \A w \in Worker : handlers[w].ord = o /\ handlers[w].pc = "dlq" => Traced(o)
    /\ o \in sent => topic[o] > 0 \/ Handlers(o) # {} \/ Traced(o)

Sent == {o \in Order : copies[o] > 0}

TraceInv == \A o \in Order \ Malformed : Accounted(o, Sent)

-----------------------------------------------------------------------------
\* Every action of a handler, its crash included, moves that handler only.
Moves(w) == HandlerStep(w) \/ SendAgain(w) \/ HandlerFault(w) \/ Crash(w)

LEMMA HandlerMoves ==
    ASSUME TypeInv, NEW w \in Worker, Moves(w)
    PROVE  /\ handlers' \in [Worker -> Handler]
           /\ \A v \in Worker \ {w} : handlers'[v] = handlers[v]
           /\ handlers[w].ord \in Order \ Malformed /\ handlers[w].pc # "idle"
           /\ IF handlers'[w].pc = "idle" THEN handlers'[w].ord = NoOrder
              ELSE /\ handlers'[w].ord = handlers[w].ord
                   /\ handlers'[w].attempt \in 1..MaxAttempts
<1> USE SetAssumption, BoundAssumption DEF TypeInv, TypeOK, HandlerInv, Handler
<1>1. /\ handlers[w] \in Handler /\ handlers \in [Worker -> Handler]
      /\ handlers[w].pc # "idle"
      /\ handlers[w].ord \in Order \ Malformed
      /\ handlers[w].attempt \in 1..MaxAttempts
  BY DEF Moves, HandlerStep, SendAgain, HandlerFault, Crash, Acquire, SkipDuplicate,
           SendProcessed,
         MarkProcessed, MarkFailed, PublishDlq, AcquireThrows, SendThrows,
         MarkProcessedThrows, MarkFailedThrows, PublishDlqThrows
<1>2. Idle \in Handler /\ Idle.pc = "idle" /\ Idle.ord = NoOrder
  BY DEF Idle
<1>3. \/ \E pc \in {"send", "mark", "failed", "dlq"} : handlers' = [handlers EXCEPT ![w].pc = pc]
      \/ handlers' = [handlers EXCEPT ![w] = Idle]
      \/ handlers' = handlers
      \/ /\ handlers[w].attempt < MaxAttempts
         /\ handlers' = [handlers EXCEPT ![w] = [pc |-> "acquire", ord |-> handlers[w].ord,
                                                 attempt |-> handlers[w].attempt + 1]]
  BY DEF Moves, HandlerStep, SendAgain, HandlerFault, Crash, Acquire, SkipDuplicate,
           SendProcessed,
         MarkProcessed, MarkFailed, PublishDlq, AcquireThrows, SendThrows, Fault,
         MarkProcessedThrows, MarkFailedThrows, PublishDlqThrows, NextAttempt
<1>4. ASSUME NEW pc \in {"send", "mark", "failed", "dlq"},
             handlers' = [handlers EXCEPT ![w].pc = pc]
      PROVE  handlers' \in [Worker -> Handler] /\ handlers'[w].ord = handlers[w].ord
             /\ handlers'[w].attempt = handlers[w].attempt /\ handlers'[w].pc = pc
             /\ \A v \in Worker \ {w} : handlers'[v] = handlers[v]
  BY <1>1, <1>4
<1>5. CASE handlers' = [handlers EXCEPT ![w] = Idle]
  BY <1>1, <1>2, <1>5
<1>6. CASE /\ handlers[w].attempt < MaxAttempts
           /\ handlers' = [handlers EXCEPT ![w] = [pc |-> "acquire", ord |-> handlers[w].ord,
                                                   attempt |-> handlers[w].attempt + 1]]
  BY <1>1, <1>6
<1>7. CASE handlers' = handlers
  BY <1>1, <1>7
<1> QED
  BY <1>1, <1>3, <1>4, <1>5, <1>6, <1>7

\* The statements of the repository write well-typed rows.
LEMMA RowTypes == \A r \in Row : Marked(r) \in Row /\ Failed(r) \in Row
  BY DEF Row, Marked, Failed

LEMMA TypeStart == Init => TypeInv
<1> SUFFICES ASSUME Init PROVE TypeInv
  OBVIOUS
<1>1. \A o \in Order : rows[o] \in Row
  BY DEF Init, Row
<1>2. rows \in [Order -> Row]
  BY <1>1 DEF Init
<1> QED
  BY <1>2, BoundAssumption, SetAssumption DEF Init, TypeInv, TypeOK, HandlerInv, Idle

\* The tables besides the handlers, in a step of a handler.
LEMMA TablesTyped ==
    ASSUME TypeInv, NEW w \in Worker, Moves(w)
    PROVE  /\ topic' \in [Order -> Nat] /\ key' \in [Order -> BOOLEAN]
           /\ rows' \in [Order -> Row]
           /\ {processed', dlq', copies', expiries', resends'} \subseteq [Order -> Nat]
           /\ silenced' \subseteq Order /\ faults' \in Nat /\ crashes' \in Nat
<1> DEFINE o == handlers[w].ord
<1>1. o \in Order
  BY HandlerMoves
<1>2. /\ topic \in [Order -> Nat] /\ key \in [Order -> BOOLEAN] /\ rows \in [Order -> Row]
      /\ processed \in [Order -> Nat] /\ dlq \in [Order -> Nat] /\ copies \in [Order -> Nat]
      /\ expiries \in [Order -> Nat] /\ resends \in [Order -> Nat]
      /\ silenced \subseteq Order /\ faults \in Nat /\ crashes \in Nat
  BY DEF TypeInv, TypeOK
<1>3. /\ topic' = topic \/ topic' = [topic EXCEPT ![o] = @ + 1]
      /\ key' = key \/ key' = [key EXCEPT ![o] = TRUE]
      /\ \/ rows' = rows \/ rows' = [rows EXCEPT ![o] = Marked(@)]
         \/ rows' = [rows EXCEPT ![o] = Failed(@)]
      /\ processed' = processed \/ processed' = [processed EXCEPT ![o] = @ + 1]
      /\ dlq' = dlq \/ dlq' = [dlq EXCEPT ![o] = @ + 1]
      /\ resends' = resends \/ resends' = [resends EXCEPT ![o] = @ + 1]
      /\ silenced' = silenced \/ silenced' = silenced \union {o}
      /\ faults' = faults \/ faults' = faults + 1
      /\ crashes' = crashes \/ crashes' = crashes + 1
      /\ copies' = copies /\ expiries' = expiries
  BY DEF Moves, HandlerStep, SendAgain, HandlerFault, Crash, Acquire, SkipDuplicate,
           SendProcessed,
         MarkProcessed, MarkFailed, PublishDlq, AcquireThrows, SendThrows, Fault,
         MarkProcessedThrows, MarkFailedThrows, PublishDlqThrows, counts
<1> HIDE DEF o
<1>4. rows' \in [Order -> Row]
  BY <1>1, <1>2, <1>3, RowTypes
<1>5. \A f \in [Order -> Nat] : [f EXCEPT ![o] = @ + 1] \in [Order -> Nat]
  BY <1>1
<1>6. /\ topic' \in [Order -> Nat] /\ processed' \in [Order -> Nat]
      /\ dlq' \in [Order -> Nat] /\ resends' \in [Order -> Nat]
      /\ silenced' \subseteq Order
  BY <1>1, <1>2, <1>3, <1>5
<1>7. key' \in [Order -> BOOLEAN]
  BY <1>1, <1>2, <1>3
<1> QED
  BY <1>2, <1>3, <1>4, <1>6, <1>7

\* The steps by their actor: a message is published, a key runs out, a payment
\* writes the row, a handler takes a message or moves, or nothing happens.
LEMMA StepCases ==
    ASSUME TypeInv, [Next]_vars
    PROVE  \/ \E o \in Order : Publish(o) \/ KeyExpires(o) \/ PaymentWrites(o)
           \/ \E w \in Worker : \/ \E o \in Order : Receive(w, o)
                                \/ Moves(w)
           \/ UNCHANGED vars
<1>1. ASSUME NEW w \in Worker, Redeliver(w) PROVE \E o \in Order : Publish(o)
  BY <1>1 DEF Redeliver, TypeInv, TypeOK
<1>2. ASSUME NEW o \in Order, Reprocess(o) PROVE Publish(o)
  BY <1>2 DEF Reprocess
<1> QED
  BY <1>1, <1>2 DEF Next, Moves

LEMMA TypeStep == TypeInv /\ [Next]_vars => TypeInv'
<1> SUFFICES ASSUME TypeInv, [Next]_vars PROVE TypeInv'
  OBVIOUS
<1>1. ASSUME NEW o \in Order, Publish(o) PROVE TypeInv'
  BY <1>1 DEF Publish, TypeInv, TypeOK, HandlerInv
<1>2. ASSUME NEW o \in Order, KeyExpires(o) PROVE TypeInv'
  BY <1>2 DEF KeyExpires, TypeInv, TypeOK, HandlerInv
<1>6. ASSUME NEW o \in Order, PaymentWrites(o) PROVE TypeInv'
  <2>1. PICK text \in {"none", "payment"} : rows' = [rows EXCEPT ![o].lastError = text]
    BY <1>6 DEF PaymentWrites
  <2>2. rows' \in [Order -> Row]
    BY <2>1 DEF TypeInv, TypeOK, Row
  <2> QED
    BY <1>6, <2>2 DEF PaymentWrites, counts, TypeInv, TypeOK, HandlerInv
<1>3. ASSUME NEW w \in Worker, NEW o \in Order, Receive(w, o) PROVE TypeInv'
  <2>1. CASE o \in Malformed
    BY <1>3, <2>1 DEF Receive, counts, TypeInv, TypeOK, HandlerInv
  <2>2. CASE o \notin Malformed
    <3>1. /\ topic' \in [Order -> Nat]
          /\ UNCHANGED <<key, rows, processed, dlq, faults, counts, resends, silenced>>
      BY <1>3 DEF Receive, TypeInv, TypeOK
    <3>2. /\ handlers' = [handlers EXCEPT ![w] = [pc |-> "acquire", ord |-> o, attempt |-> 1]]
          /\ [pc |-> "acquire", ord |-> o, attempt |-> 1] \in Handler
      BY <1>3, <2>2, BoundAssumption DEF Receive, Handler
    <3>3. handlers' \in [Worker -> Handler] /\ HandlerInv'
      BY <3>2, BoundAssumption DEF TypeInv, TypeOK, HandlerInv, Handler
    <3>4. \A v \in Worker : handlers'[v].pc # "idle" => handlers'[v].ord \in Order \ Malformed
      BY <2>2, <3>2 DEF TypeInv, TypeOK
    <3> QED
      BY <3>1, <3>3, <3>4 DEF TypeInv, TypeOK, Handler, counts
  <2> QED
    BY <2>1, <2>2
<1>4. ASSUME NEW w \in Worker, Moves(w) PROVE TypeInv'
  <2>1. HandlerInv' /\ \A v \in Worker : handlers'[v].pc # "idle"
                                            => handlers'[v].ord \in Order \ Malformed
    BY <1>4, HandlerMoves DEF TypeInv, TypeOK, HandlerInv
  <2>2. handlers' \in [Worker -> Handler]
    BY <1>4, HandlerMoves
  <2> QED
    BY <1>4, <2>1, <2>2, TablesTyped DEF TypeInv, TypeOK, Handler
<1>5. CASE UNCHANGED vars
  BY <1>5 DEF vars, TypeInv, TypeOK, HandlerInv
<1> QED
  BY <1>1, <1>2, <1>3, <1>4, <1>5, <1>6, StepCases

LEMMA TypeAlways == Spec => []TypeInv
<1> QED
  BY TypeStart, TypeStep, PTL DEF Spec

\* Every state is well typed (OrdersConsumer, OrdersProcessor and the columns
\* OrdersRepository writes).
THEOREM OrderWorkerTyped == Spec => []TypeOK
<1>1. TypeInv => TypeOK
  BY DEF TypeInv
<1> QED
  BY <1>1, TypeAlways, PTL

-----------------------------------------------------------------------------
\* markProcessed and markFailed spare a row in status 'processed', and a
\* payment only writes rows whose status is the saga's.
THEOREM ProcessedRowsAreFinal == Spec => ProcessedRowIsFinal
<1>1. ASSUME TypeInv, [Next]_vars, NEW o \in Order, rows[o].status = "processed"
      PROVE  rows'[o] = rows[o]
  <2>1. ASSUME NEW w \in Worker, Moves(w)
        PROVE  \/ rows' = rows \/ rows' = [rows EXCEPT ![handlers[w].ord] = Marked(@)]
               \/ rows' = [rows EXCEPT ![handlers[w].ord] = Failed(@)]
    BY <2>1 DEF Moves, HandlerStep, SendAgain, HandlerFault, Crash, Acquire, SkipDuplicate,
           SendProcessed,
                MarkProcessed, MarkFailed, PublishDlq, AcquireThrows, SendThrows,
                MarkProcessedThrows, MarkFailedThrows, PublishDlqThrows
  <2>2. Marked(rows[o]) = rows[o] /\ Failed(rows[o]) = rows[o]
    BY <1>1 DEF Marked, Failed
  <2>3. rows \in [Order -> Row]
    BY <1>1 DEF TypeInv, TypeOK
  <2>4. ASSUME NEW p \in Order, PaymentWrites(p) PROVE rows'[o] = rows[o]
    BY <1>1, <2>3, <2>4 DEF PaymentWrites
  <2> QED
    BY <1>1, <2>1, <2>2, <2>3, <2>4, StepCases DEF Publish, KeyExpires, Receive, vars
<1>2. TypeInv /\ [Next]_vars
          => [\A o \in Order : rows[o].status = "processed" => rows'[o] = rows[o]]_vars
  BY <1>1
<1> QED
  BY <1>2, TypeAlways, PTL DEF Spec, ProcessedRowIsFinal

-----------------------------------------------------------------------------
\* No step takes the trace of an order away.
LEMMA TracedStays ==
    ASSUME TypeInv, [Next]_vars, NEW o \in Order, Traced(o)
    PROVE  Traced(o)'
<1>1. rows \in [Order -> Row] /\ dlq \in [Order -> Nat]
  BY DEF TypeInv, TypeOK
<1>2. ASSUME NEW w \in Worker, Moves(w) PROVE Traced(o)'
  <2>1. handlers[w].ord \in Order
    BY <1>2, HandlerMoves
  <2>2. /\ \/ rows' = rows \/ rows' = [rows EXCEPT ![handlers[w].ord] = Marked(@)]
           \/ rows' = [rows EXCEPT ![handlers[w].ord] = Failed(@)]
        /\ dlq' = dlq \/ dlq' = [dlq EXCEPT ![handlers[w].ord] = @ + 1]
        /\ silenced \subseteq silenced'
    BY <1>2 DEF Moves, HandlerStep, SendAgain, HandlerFault, Crash, Acquire, SkipDuplicate,
                SendProcessed, MarkProcessed, MarkFailed, PublishDlq, AcquireThrows,
                SendThrows, MarkProcessedThrows, MarkFailedThrows, PublishDlqThrows
  <2>3. ASSUME NEW r \in Row
        PROVE  /\ r.processedAt => Marked(r).processedAt /\ Failed(r).processedAt
               /\ r.lastError = "worker" => \/ Marked(r).processedAt
                                            \/ Marked(r).lastError = "worker"
               /\ r.lastError = "worker" => Failed(r).lastError = "worker"
    BY DEF Row, Marked, Failed
  <2>4. rows[o].processedAt \/ rows[o].lastError = "worker"
            => rows'[o].processedAt \/ rows'[o].lastError = "worker"
    BY <1>1, <2>1, <2>2, <2>3
  <2>5. dlq[o] > 0 => dlq'[o] > 0
    BY <1>1, <2>1, <2>2
  <2> QED
    BY <2>2, <2>4, <2>5 DEF Traced
<1>3. ASSUME NEW p \in Order, PaymentWrites(p) PROVE Traced(o)'
  <2>1. /\ dlq' = dlq /\ silenced \subseteq silenced'
        /\ rows'[o].processedAt = rows[o].processedAt
        /\ \/ rows'[o] = rows[o]
           \/ p = o
    BY <1>1, <1>3 DEF PaymentWrites, Row
  <2>2. p = o /\ rows[o].lastError = "worker" => o \in silenced'
    BY <1>3 DEF PaymentWrites
  <2> QED
    BY <2>1, <2>2 DEF Traced
<1>4. ASSUME UNCHANGED <<rows, dlq, silenced>> PROVE Traced(o)'
  BY <1>4 DEF Traced
<1> QED
  BY <1>2, <1>3, <1>4, StepCases DEF Publish, KeyExpires, Receive, vars

LEMMA TraceStart ==
    ASSUME Init, NEW o \in Order \ Malformed
    PROVE  Accounted(o, {})
<1>1. rows[o].status # "processed"
  BY DEF Init
<1> QED
  BY <1>1, SetAssumption DEF Init, Idle, Accounted

\* A handler's step, seen from one order: while it does not leave the order a
\* trace, it stays at work on it, keeps what it holds, and takes nothing away.
LEMMA MoveLeavesTrace ==
    ASSUME TypeInv, NEW w \in Worker, Moves(w), NEW o \in Order \ Malformed,
           NEW sent, Accounted(o, sent)
    PROVE  Accounted(o, sent)'
<1>0. /\ rows[o].status = "processed" => rows[o].processedAt
      /\ key[o] => Traced(o) \/ Past(o) # {}
      /\ \A v \in Worker : handlers[v].ord = o /\ handlers[v].pc = "dlq" => Traced(o)
      /\ o \in sent => topic[o] > 0 \/ Handlers(o) # {} \/ Traced(o)
  BY DEF Accounted
<1>1. /\ rows \in [Order -> Row] /\ dlq \in [Order -> Nat]
      /\ topic \in [Order -> Nat] /\ key \in [Order -> BOOLEAN]
      /\ handlers \in [Worker -> Handler] /\ o \in Order
  BY DEF TypeInv, TypeOK, Handler
<1>2. /\ handlers' \in [Worker -> Handler]
      /\ \A v \in Worker \ {w} : handlers'[v] = handlers[v]
      /\ handlers[w].ord \in Order \ Malformed /\ handlers[w].pc # "idle"
      /\ handlers'[w].pc # "idle" => handlers'[w].ord = handlers[w].ord
      /\ handlers'[w].pc = "idle" => handlers'[w].ord = NoOrder
  BY HandlerMoves
<1>3. Traced(o) => Traced(o)'
  <2>1. [Next]_vars
    BY DEF Moves, Next
  <2> QED
    BY <2>1, TracedStays
<1>4. \A r \in Row : /\ r.status = "processed" => Marked(r) = r /\ Failed(r) = r
                     /\ Marked(r).status = "processed" => r.status = "processed"
                                                          \/ Marked(r).processedAt
                     /\ Failed(r).status = r.status
                     /\ r.status # "processed" => Marked(r).processedAt
                     /\ r.status # "processed" => Failed(r).lastError = "worker"
                     /\ r.processedAt => Failed(r).processedAt
  BY DEF Row, Marked, Failed
<1>5. CASE handlers[w].ord # o
  <2>1. /\ rows'[o] = rows[o] /\ topic'[o] = topic[o] /\ key'[o] = key[o]
    BY <1>1, <1>2, <1>5
       DEF Moves, HandlerStep, SendAgain, HandlerFault, Crash, Acquire, SkipDuplicate,
           SendProcessed,
           MarkProcessed, MarkFailed, PublishDlq, AcquireThrows, SendThrows,
           MarkProcessedThrows, MarkFailedThrows, PublishDlqThrows, counts
  <2>2. Past(o)' = Past(o) /\ Handlers(o)' = Handlers(o)
    BY <1>1, <1>2, <1>5, SetAssumption DEF Past, Handlers
  <2>3. \A v \in Worker : handlers'[v].ord = o => handlers'[v] = handlers[v]
    BY <1>1, <1>2, <1>5, SetAssumption
  <2> QED
    BY <1>0, <1>3, <2>1, <2>2, <2>3 DEF Accounted
<1>6. CASE handlers[w].ord = o
  <2> USE <1>6
  <2>1. rows'[o].status = "processed" => rows'[o].processedAt
    BY <1>0, <1>1, <1>4
       DEF Moves, HandlerStep, SendAgain, HandlerFault, Crash, Acquire, SkipDuplicate,
           SendProcessed,
           MarkProcessed, MarkFailed, PublishDlq, AcquireThrows, SendThrows,
           MarkProcessedThrows, MarkFailedThrows, PublishDlqThrows
  <2>2. \A v \in Worker : handlers'[v].ord = o /\ handlers'[v].pc = "dlq"
                             => v = w \/ Traced(o)
    BY <1>0, <1>2
  <2>3. CASE SkipDuplicate(w) \/ (Crash(w) /\ handlers[w].pc = "acquire")
    \* A key that exists is another handler's, or the order is traced.
    <3>1. /\ handlers[w].pc = "acquire" /\ key' = key /\ handlers'[w].pc = "idle"
          /\ Crash(w) => topic'[o] > 0
          /\ SkipDuplicate(w) => key[o]
      BY <1>1, <2>3 DEF SkipDuplicate, Crash, Idle
    <3>2. ASSUME ~Traced(o), key[o]
          PROVE  Past(o)' # {} /\ Handlers(o)' # {}
      <4>1. PICK v \in Past(o) : TRUE
        BY <1>0, <3>2
      <4>2. v \in Worker \ {w} /\ handlers'[v] = handlers[v]
        BY <1>2, <3>1, <4>1 DEF Past
      <4> QED
        BY <4>1, <4>2 DEF Past, Handlers
    <3>3. key'[o] => Traced(o)' \/ Past(o)' # {}
      BY <1>3, <3>1, <3>2
    <3>4. topic'[o] > 0 \/ Handlers(o)' # {} \/ Traced(o)'
      BY <1>3, <2>3, <3>1, <3>2
    <3> QED
      BY <1>3, <2>1, <2>2, <3>1, <3>3, <3>4 DEF Accounted
  <2>5. CASE \/ Acquire(w) \/ AcquireThrows(w) \/ SendProcessed(w) \/ SendThrows(w)
             \/ SendAgain(w) \/ MarkProcessedThrows(w)
    <3>1. /\ handlers'[w].pc \in {"send", "mark", "failed"} /\ handlers'[w].ord = o
      <4>1. \/ \E pc \in {"send", "mark", "failed"} : handlers' = [handlers EXCEPT ![w].pc = pc]
            \/ handlers[w].pc = "send" /\ handlers' = handlers
        BY <2>5 DEF Acquire, AcquireThrows, SendProcessed, SendThrows, SendAgain,
                    MarkProcessedThrows, Fault
      <4>2. handlers'[w].pc \in {"send", "mark", "failed"}
        BY <1>1, <4>1 DEF Handler
      <4> QED
        BY <1>2, <4>2
    <3>2. Past(o)' # {} /\ Handlers(o)' # {}
      BY <3>1 DEF Past, Handlers
    <3> QED
      BY <1>3, <2>1, <2>2, <3>1, <3>2 DEF Accounted
  <2>6. CASE \/ MarkProcessed(w) \/ MarkFailed(w) \/ MarkFailedThrows(w)
             \/ PublishDlq(w) \/ PublishDlqThrows(w)
             \/ (Crash(w) /\ handlers[w].pc # "acquire")
    <3>1. Traced(o)'
      <4>1. CASE MarkProcessed(w)
        BY <1>0, <1>1, <1>4, <4>1 DEF MarkProcessed, Traced
      <4>2. CASE MarkFailed(w)
        BY <1>0, <1>1, <1>4, <4>2 DEF MarkFailed, Traced
      <4>3. CASE MarkFailedThrows(w)
        BY <4>3 DEF MarkFailedThrows, Traced
      <4>4. CASE PublishDlq(w) \/ PublishDlqThrows(w)
        BY <1>0, <1>3, <4>4 DEF PublishDlq, PublishDlqThrows
      <4>5. CASE Crash(w) /\ handlers[w].pc # "acquire"
        BY <4>5 DEF Crash, Traced
      <4> QED
        BY <2>6, <4>1, <4>2, <4>3, <4>4, <4>5
    <3> QED
      BY <2>1, <3>1 DEF Accounted
  <2> QED
    BY <2>3, <2>5, <2>6 DEF Moves, HandlerStep, HandlerFault
<1> QED
  BY <1>5, <1>6

\* Every step keeps an order accounted for, if what is sent waits on the topic.
LEMMA TraceStep ==
    ASSUME TypeInv, [Next]_vars, NEW o \in Order \ Malformed,
           NEW sent, NEW sentNow, Accounted(o, sent),
           o \in sentNow => o \in sent \/ topic'[o] > 0
    PROVE  Accounted(o, sentNow)'
<1>1. /\ rows[o].status = "processed" => rows[o].processedAt
      /\ key[o] => Traced(o) \/ Past(o) # {}
      /\ \A w \in Worker : handlers[w].ord = o /\ handlers[w].pc = "dlq" => Traced(o)
      /\ o \in sent => topic[o] > 0 \/ Handlers(o) # {} \/ Traced(o)
  BY DEF Accounted
<1>2. Traced(o) => Traced(o)'
  BY TracedStays
<1>3. /\ topic \in [Order -> Nat] /\ key \in [Order -> BOOLEAN]
      /\ handlers \in [Worker -> Handler]
  BY DEF TypeInv, TypeOK, Handler
<1>4. SUFFICES Accounted(o, sent)'
  BY DEF Accounted
<1>5. ASSUME NEW p \in Order, Publish(p) \/ KeyExpires(p)
      PROVE  Accounted(o, sent)'
  <2>1. /\ UNCHANGED <<rows, handlers>> /\ (key'[o] => key[o])
        /\ topic[o] > 0 => topic'[o] > 0
    BY <1>3, <1>5 DEF Publish, KeyExpires
  <2>2. Past(o)' = Past(o) /\ Handlers(o)' = Handlers(o)
    BY <2>1 DEF Past, Handlers
  <2> QED
    BY <1>1, <1>2, <2>1, <2>2 DEF Accounted
<1>6. ASSUME NEW w \in Worker, NEW p \in Order, Receive(w, p)
      PROVE  Accounted(o, sent)'
  <2>1. /\ handlers[w].pc = "idle" /\ handlers[w].ord = NoOrder
        /\ UNCHANGED <<rows, key>>
        /\ p # o => topic'[o] = topic[o]
    BY <1>3, <1>6 DEF Receive, counts, TypeInv, HandlerInv
  <2>2. p = o => handlers'[w].ord = o
    BY <1>3, <1>6 DEF Receive
  <2>3. /\ \A v \in Worker \ {w} : handlers'[v] = handlers[v]
        /\ handlers'[w] = handlers[w] \/ handlers'[w].pc = "acquire"
    BY <1>3, <1>6 DEF Receive
  <2>4. /\ Past(o) \subseteq Past(o)' /\ Handlers(o) \subseteq Handlers(o)'
        /\ topic[o] > 0 => topic'[o] > 0 \/ Handlers(o)' # {}
        /\ \A v \in Worker : handlers'[v].pc = "dlq" => handlers'[v] = handlers[v]
    BY <2>1, <2>2, <2>3, SetAssumption DEF Past, Handlers
  <2> QED
    BY <1>1, <1>2, <2>1, <2>4 DEF Accounted
<1>7. ASSUME NEW p \in Order, PaymentWrites(p)
      PROVE  Accounted(o, sent)'
  <2>1. /\ UNCHANGED <<handlers, key, topic>>
        /\ rows'[o].status = rows[o].status /\ rows'[o].processedAt = rows[o].processedAt
    <3>1. rows \in [Order -> Row]
      BY DEF TypeInv, TypeOK
    <3>2. PICK text \in {"none", "payment"} : rows' = [rows EXCEPT ![p].lastError = text]
      BY <1>7 DEF PaymentWrites
    <3> QED
      BY <1>7, <3>1, <3>2 DEF PaymentWrites, Row
  <2>2. Past(o)' = Past(o) /\ Handlers(o)' = Handlers(o)
    BY <2>1 DEF Past, Handlers
  <2> QED
    BY <1>1, <1>2, <2>1, <2>2 DEF Accounted
<1>8. CASE UNCHANGED vars
  BY <1>1, <1>2, <1>8 DEF vars, Past, Handlers, Accounted
<1> QED
  BY <1>5, <1>6, <1>7, <1>8, MoveLeavesTrace, StepCases

LEMMA TraceInvStep == TypeInv /\ TraceInv /\ [Next]_vars => TraceInv'
<1> SUFFICES ASSUME TypeInv, TraceInv, [Next]_vars, NEW o \in Order \ Malformed
             PROVE  Accounted(o, Sent)'
  BY DEF TraceInv
<1>1. copies \in [Order -> Nat] /\ topic \in [Order -> Nat]
  BY DEF TypeInv, TypeOK
<1>2. ASSUME NEW w \in Worker, Moves(w)
      PROVE  copies' = copies
  BY <1>2 DEF Moves, HandlerStep, SendAgain, HandlerFault, Crash, Acquire, SkipDuplicate,
              SendProcessed, MarkProcessed, MarkFailed, PublishDlq, AcquireThrows, SendThrows,
              MarkProcessedThrows, MarkFailedThrows, PublishDlqThrows, counts
<1>5. o \in Sent' => o \in Sent \/ topic'[o] > 0
  <2>1. ASSUME NEW p \in Order, Publish(p) PROVE o \in Sent' => o \in Sent \/ topic'[o] > 0
    BY <1>1, <2>1 DEF Publish, Sent
  <2>2. ASSUME copies' = copies PROVE Sent' = Sent
    BY <2>2 DEF Sent
  <2> QED
    BY <1>2, <2>1, <2>2, StepCases DEF KeyExpires, PaymentWrites, Receive, counts, vars
<1>6. Accounted(o, Sent)
  BY DEF TraceInv
<1>7. PICK sentNow : sentNow = Sent'
  OBVIOUS
<1>8. Accounted(o, sentNow)'
  BY <1>5, <1>6, <1>7, TraceStep
<1> QED
  BY <1>7, <1>8 DEF Accounted, Traced

LEMMA TraceAlways == Spec => [](TypeInv /\ TraceInv)
<1>1. Init => TraceInv
  <2> SUFFICES ASSUME Init PROVE TraceInv
    OBVIOUS
  <2>1. Sent = {}
    BY DEF Init, Sent
  <2> QED
    BY <2>1, TraceStart DEF TraceInv
<1> QED
  BY <1>1, TypeStart, TypeStep, TraceInvStep, PTL DEF Spec

\* What the code guarantees although it commits the offset of every failed
\* message: a well-formed event all of whose messages are consumed is
\* processed, dead-lettered or shows the worker's error in its row, unless a
\* handler of it died past the claim, markFailed threw before it wrote, or a
\* payment wrote last_error after it.
THEOREM SilentDropsHaveCauses == Spec => []SilentDropHasCause
<1>1. ASSUME TypeInv, TraceInv, NEW o \in Order \ Malformed, Consumed(o)
      PROVE  Traced(o)
  BY <1>1 DEF TraceInv, Accounted, Sent, Consumed
<1>2. TypeInv /\ TraceInv => SilentDropHasCause
  BY <1>1 DEF SilentDropHasCause, Traced
<1> QED
  BY <1>2, TraceAlways, PTL

-----------------------------------------------------------------------------
\* A handler about to mark the row has sent orders.processed.
AnnouncedInv ==
    /\ MarkedWasAnnounced
    /\ \A w \in Worker : handlers[w].pc = "mark" => processed[handlers[w].ord] > 0

LEMMA AnnouncedStep == TypeInv /\ AnnouncedInv /\ [Next]_vars => AnnouncedInv'
<1> SUFFICES ASSUME TypeInv, AnnouncedInv, [Next]_vars PROVE AnnouncedInv'
  OBVIOUS
<1>1. /\ rows \in [Order -> Row] /\ processed \in [Order -> Nat]
      /\ handlers \in [Worker -> Handler]
      /\ \A w \in Worker : handlers[w].pc = "mark" => handlers[w].ord \in Order
  BY DEF TypeInv, TypeOK, Handler
<1>2. ASSUME NEW w \in Worker, Moves(w) PROVE AnnouncedInv'
  <2> DEFINE o == handlers[w].ord
  <2>1. /\ o \in Order /\ handlers' \in [Worker -> Handler]
        /\ \A v \in Worker \ {w} : handlers'[v] = handlers[v]
        /\ handlers'[w].pc # "idle" => handlers'[w].ord = o
    BY <1>2, HandlerMoves
  <2>2. /\ processed' = processed \/ processed' = [processed EXCEPT ![o] = @ + 1]
        /\ rows' \in {rows, [rows EXCEPT ![o] = Failed(@)]}
             \/ (handlers[w].pc = "mark" /\ rows' = [rows EXCEPT ![o] = Marked(@)])
    BY <1>2 DEF Moves, HandlerStep, SendAgain, HandlerFault, Crash, Acquire, SkipDuplicate,
           SendProcessed,
                MarkProcessed, MarkFailed, PublishDlq, AcquireThrows, SendThrows,
                MarkProcessedThrows, MarkFailedThrows, PublishDlqThrows
  <2>3. /\ \A r \in Row : Failed(r).processedAt = r.processedAt
        /\ \A p \in Order : processed[p] > 0 => processed'[p] > 0
    BY <1>1, <2>1, <2>2 DEF Row, Failed
  <2>4. handlers'[w].pc = "mark" => processed'[o] > 0
    <3>1. handlers'[w].pc = "mark" => SendProcessed(w)
      BY <1>1, <1>2 DEF Moves, HandlerStep, SendAgain, HandlerFault, Crash, Acquire, SkipDuplicate,
             MarkProcessed, MarkFailed, NextAttempt, PublishDlq, AcquireThrows, SendThrows,
             Fault, MarkProcessedThrows, MarkFailedThrows, PublishDlqThrows, Idle, Handler
    <3>2. SendProcessed(w) => processed'[o] > 0
      BY <1>1, <2>1 DEF SendProcessed
    <3> QED
      BY <3>1, <3>2
  <2>5. \A v \in Worker : handlers'[v].pc = "mark" => processed'[handlers'[v].ord] > 0
    BY <1>1, <2>1, <2>3, <2>4 DEF AnnouncedInv
  <2>6. MarkedWasAnnounced'
    BY <1>1, <2>1, <2>2, <2>3 DEF AnnouncedInv, MarkedWasAnnounced
  <2> QED
    BY <2>5, <2>6 DEF AnnouncedInv
<1>3. ASSUME NEW w \in Worker, NEW o \in Order, Receive(w, o) PROVE AnnouncedInv'
  <2>1. /\ UNCHANGED <<rows, processed>>
        /\ \A v \in Worker : handlers'[v].pc = "mark" => handlers'[v] = handlers[v]
    BY <1>1, <1>3 DEF Receive
  <2> QED
    BY <2>1 DEF AnnouncedInv, MarkedWasAnnounced
<1>4. ASSUME NEW o \in Order, PaymentWrites(o) PROVE AnnouncedInv'
  <2>1. PICK text \in {"none", "payment"} : rows' = [rows EXCEPT ![o].lastError = text]
    BY <1>4 DEF PaymentWrites
  <2>2. \A p \in Order : rows'[p].processedAt = rows[p].processedAt
    BY <1>1, <2>1 DEF Row
  <2> QED
    BY <1>4, <2>2 DEF PaymentWrites, AnnouncedInv, MarkedWasAnnounced
<1>5. ASSUME UNCHANGED <<rows, processed, handlers>> PROVE AnnouncedInv'
  BY <1>5 DEF AnnouncedInv, MarkedWasAnnounced
<1> QED
  BY <1>2, <1>3, <1>4, <1>5, StepCases DEF Publish, KeyExpires, vars

\* markProcessed runs after the send: a row says processed only when
\* orders.processed carries the order.
THEOREM MarkedRowsWereAnnounced == Spec => []MarkedWasAnnounced
<1>1. Init => AnnouncedInv
  BY DEF Init, AnnouncedInv, MarkedWasAnnounced, Idle
<1>2. AnnouncedInv => MarkedWasAnnounced
  BY DEF AnnouncedInv
<1> QED
  BY <1>1, <1>2, AnnouncedStep, TypeAlways, PTL DEF Spec

-----------------------------------------------------------------------------
\* The handlers that took the key and have not sent yet, and those that took
\* it and have not finished.
Senders(o) == {w \in Handlers(o) : handlers[w].pc = "send"}
Holders(o) == {w \in Handlers(o) : handlers[w].pc \in {"send", "mark"}}

\* How often the key of an order was taken.
Taken(o) == (IF key[o] THEN 1 ELSE 0) + expiries[o]

KeyInv == \A o \in Order : /\ Cardinality(Holders(o)) <= Taken(o)
                           /\ processed[o] + Cardinality(Senders(o))
                                  <= Taken(o) + resends[o]

\* A handler's step changes the handlers that hold the key by itself at most.
LEMMA HoldersChange ==
    ASSUME TypeInv, NEW w \in Worker, Moves(w), NEW o \in Order
    PROVE  /\ IsFiniteSet(Holders(o)) /\ IsFiniteSet(Senders(o))
           /\ IsFiniteSet(Holders(o)') /\ IsFiniteSet(Senders(o)')
           /\ Holders(o)' \ {w} = Holders(o) \ {w}
           /\ Senders(o)' \ {w} = Senders(o) \ {w}
<1>1. /\ \A v \in Worker \ {w} : handlers'[v] = handlers[v]
  BY HandlerMoves
<1>2. /\ Holders(o) \subseteq Worker /\ Senders(o) \subseteq Worker
      /\ Holders(o)' \subseteq Worker /\ Senders(o)' \subseteq Worker
  BY DEF Holders, Senders, Handlers
<1>3. /\ IsFiniteSet(Holders(o)) /\ IsFiniteSet(Senders(o))
      /\ IsFiniteSet(Holders(o)') /\ IsFiniteSet(Senders(o)')
  BY <1>2, SetAssumption, FS_Subset
<1> QED
  BY <1>1, <1>3 DEF Holders, Senders, Handlers

\* What the sizes of two sets that differ in one element have to do with it.
LEMMA OneElement ==
    ASSUME NEW S, NEW T, NEW x, IsFiniteSet(S), IsFiniteSet(T), T \ {x} = S \ {x}
    PROVE  /\ Cardinality(S) \in Nat /\ Cardinality(T) \in Nat
           /\ (x \in T => x \in S) => Cardinality(T) <= Cardinality(S)
           /\ x \in S /\ x \notin T => Cardinality(T) + 1 = Cardinality(S)
           /\ Cardinality(T) <= Cardinality(S) + 1
<1>1. Cardinality(S) \in Nat /\ Cardinality(T) \in Nat
  BY FS_CardinalityType
<1>2. /\ Cardinality(S \ {x}) = IF x \in S THEN Cardinality(S) - 1 ELSE Cardinality(S)
      /\ Cardinality(T \ {x}) = IF x \in T THEN Cardinality(T) - 1 ELSE Cardinality(T)
  BY FS_RemoveElement
<1> QED
  BY <1>1, <1>2

LEMMA KeyStart == Init => KeyInv
<1> SUFFICES ASSUME Init, NEW o \in Order
             PROVE  /\ Cardinality(Holders(o)) <= Taken(o)
                    /\ processed[o] + Cardinality(Senders(o)) <= Taken(o) + resends[o]
  BY DEF KeyInv
<1>1. /\ Holders(o) = {} /\ Senders(o) = {} /\ Taken(o) = 0
      /\ processed[o] = 0 /\ resends[o] = 0
  BY SetAssumption DEF Init, Idle, Holders, Senders, Handlers, Taken
<1> QED
  BY <1>1, FS_EmptySet

\* One case per way a handler's step bears on the key.
LEMMA KeyMove ==
    ASSUME TypeInv, KeyInv, NEW w \in Worker, Moves(w), NEW o \in Order
    PROVE  /\ Cardinality(Holders(o)') <= Taken(o)'
           /\ processed'[o] + Cardinality(Senders(o)') <= Taken(o)' + resends'[o]
<1>1. /\ processed \in [Order -> Nat] /\ expiries \in [Order -> Nat]
      /\ resends \in [Order -> Nat]
      /\ key \in [Order -> BOOLEAN] /\ handlers \in [Worker -> Handler]
      /\ handlers' \in [Worker -> Handler] /\ handlers[w].ord \in Order
      /\ handlers[w].pc # "idle"
      /\ handlers'[w].pc # "idle" => handlers'[w].ord = handlers[w].ord
      /\ handlers'[w].pc = "idle" => handlers'[w].ord = NoOrder
  BY HandlerMoves DEF TypeInv, TypeOK, Handler
<1> DEFINE H == Cardinality(Holders(o))
           S == Cardinality(Senders(o))
           Hp == Cardinality(Holders(o)')
           Sp == Cardinality(Senders(o)')
           hadKey == w \in Holders(o)
           hasKey == w \in Holders(o)'
           sending == w \in Senders(o)
           sends == w \in Senders(o)'
<1>2. /\ H \in Nat /\ S \in Nat /\ Hp \in Nat /\ Sp \in Nat
      /\ (hasKey => hadKey) => Hp <= H
      /\ (sends => sending) => Sp <= S
      /\ sending /\ ~sends => Sp + 1 = S
      /\ Hp <= H + 1 /\ Sp <= S + 1
  BY HoldersChange, OneElement
<1>3. /\ H <= Taken(o) /\ processed[o] + S <= Taken(o) + resends[o]
      /\ processed[o] \in Nat /\ resends[o] \in Nat
      /\ Taken(o) \in Nat /\ expiries[o] \in Nat
  BY <1>1 DEF KeyInv, Taken
<1>4. /\ hadKey <=> handlers[w].ord = o /\ handlers[w].pc \in {"send", "mark"}
      /\ hasKey <=> handlers'[w].ord = o /\ handlers'[w].pc \in {"send", "mark"}
      /\ sending <=> handlers[w].ord = o /\ handlers[w].pc = "send"
      /\ sends <=> handlers'[w].ord = o /\ handlers'[w].pc = "send"
  BY DEF Holders, Senders, Handlers
<1> HIDE DEF H, S, Hp, Sp, hadKey, hasKey, sending, sends
<1> SUFFICES Hp <= Taken(o)' /\ processed'[o] + Sp <= Taken(o)' + resends'[o]
  BY DEF Hp, Sp
<1>5. CASE Acquire(w)
  <2>1. CASE handlers[w].ord = o
    <3>1. /\ ~key[o] /\ key'[o] /\ expiries' = expiries
          /\ processed' = processed /\ resends' = resends
      BY <1>1, <1>5, <2>1 DEF Acquire, counts
    <3>2. Taken(o)' = Taken(o) + 1
      BY <1>3, <3>1 DEF Taken
    <3> QED
      BY <1>2, <1>3, <3>1, <3>2
  <2>2. CASE handlers[w].ord # o
    <3>1. /\ key'[o] = key[o] /\ expiries' = expiries
          /\ processed' = processed /\ resends' = resends
      BY <1>1, <1>5, <2>2 DEF Acquire, counts
    <3>2. Taken(o)' = Taken(o) /\ ~hasKey /\ ~sends
      BY <1>1, <1>4, <2>2, <3>1, SetAssumption DEF Taken
    <3> QED
      BY <1>2, <1>3, <3>1, <3>2
  <2> QED
    BY <2>1, <2>2
<1>6. CASE SendProcessed(w) \/ SendThrows(w)
  <2>1. /\ key' = key /\ expiries' = expiries /\ resends' = resends
        /\ handlers[w].pc = "send"
        /\ handlers'[w].pc \in {"mark", "failed"}
        /\ \/ processed' = processed
           \/ processed' = [processed EXCEPT ![handlers[w].ord] = @ + 1]
    <3>1. \E pc \in {"mark", "failed"} : handlers' = [handlers EXCEPT ![w].pc = pc]
      BY <1>6 DEF SendProcessed, SendThrows, Fault
    <3> QED
      BY <1>1, <1>6, <3>1 DEF SendProcessed, SendThrows, Handler, counts
  <2>2. Taken(o)' = Taken(o) /\ ~sends /\ (hasKey => hadKey)
    BY <1>1, <1>4, <2>1, SetAssumption DEF Taken
  <2>3. CASE handlers[w].ord = o
    <3>1. sending /\ processed'[o] \in Nat /\ processed'[o] <= processed[o] + 1
      BY <1>1, <1>4, <2>1, <2>3
    <3> QED
      BY <1>2, <1>3, <2>1, <2>2, <3>1
  <2>4. CASE handlers[w].ord # o
    <3>1. processed'[o] = processed[o]
      BY <1>1, <2>1, <2>4
    <3> QED
      BY <1>2, <1>3, <2>1, <2>2, <3>1
  <2> QED
    BY <2>3, <2>4
<1>7. CASE \/ SkipDuplicate(w) \/ MarkProcessed(w) \/ MarkFailed(w) \/ PublishDlq(w)
           \/ AcquireThrows(w) \/ MarkProcessedThrows(w) \/ MarkFailedThrows(w)
           \/ PublishDlqThrows(w) \/ Crash(w)
  <2>1. /\ key' = key \/ key' = [key EXCEPT ![handlers[w].ord] = TRUE]
        /\ expiries' = expiries /\ processed' = processed /\ resends' = resends
        /\ handlers'[w].pc \notin {"send", "mark"}
    BY <1>1, <1>7
       DEF SkipDuplicate, MarkProcessed, MarkFailed, NextAttempt, PublishDlq, AcquireThrows,
           MarkProcessedThrows, MarkFailedThrows, PublishDlqThrows, Crash, Fault, Idle,
           counts, Handler
  <2>2. key[o] => key'[o]
    BY <1>1, <2>1
  <2>3. Taken(o) <= Taken(o)' /\ Taken(o)' \in Nat /\ ~sends /\ ~hasKey
    BY <1>3, <1>4, <2>1, <2>2 DEF Taken
  <2> QED
    BY <1>2, <1>3, <2>1, <2>3
<1>8. CASE SendAgain(w)
  <2>1. /\ UNCHANGED <<key, expiries, handlers>>
        /\ handlers[w].ord = o => processed'[o] = processed[o] + 1 /\ resends'[o] = resends[o] + 1
        /\ handlers[w].ord # o => processed'[o] = processed[o] /\ resends'[o] = resends[o]
    BY <1>1, <1>8 DEF SendAgain, counts
  <2>2. Taken(o)' = Taken(o) /\ (sends => sending) /\ (hasKey => hadKey)
    BY <1>4, <2>1 DEF Taken
  <2> QED
    BY <1>2, <1>3, <2>1, <2>2
<1> QED
  BY <1>5, <1>6, <1>7, <1>8 DEF Moves, HandlerStep, HandlerFault

LEMMA KeyStep == TypeInv /\ KeyInv /\ [Next]_vars => KeyInv'
<1> SUFFICES ASSUME TypeInv, KeyInv, [Next]_vars PROVE KeyInv'
  OBVIOUS
<1>1. /\ handlers \in [Worker -> Handler] /\ key \in [Order -> BOOLEAN]
      /\ expiries \in [Order -> Nat]
  BY DEF TypeInv, TypeOK, Handler
<1>2. ASSUME NEW w \in Worker, Moves(w) PROVE KeyInv'
  BY <1>2, KeyMove DEF KeyInv
<1>3. ASSUME \A o \in Order : /\ Taken(o)' = Taken(o) /\ processed'[o] = processed[o]
                              /\ resends'[o] = resends[o]
                              /\ Holders(o)' = Holders(o) /\ Senders(o)' = Senders(o)
      PROVE  KeyInv'
  BY <1>3 DEF KeyInv
<1>4. ASSUME NEW p \in Order, KeyExpires(p) PROVE KeyInv'
  <2>1. \A o \in Order : Taken(o)' = Taken(o)
    BY <1>1, <1>4 DEF KeyExpires, Taken
  <2>2. UNCHANGED <<handlers, processed, resends>>
    BY <1>4 DEF KeyExpires
  <2> QED
    BY <1>3, <2>1, <2>2 DEF Holders, Senders, Handlers
<1>5. ASSUME NEW w \in Worker, NEW p \in Order, Receive(w, p) PROVE KeyInv'
  <2>1. /\ UNCHANGED <<key, expiries, processed, resends>>
        /\ \A v \in Worker : \/ handlers'[v] = handlers[v]
                             \/ handlers[v].pc = "idle" /\ handlers'[v].pc = "acquire"
    BY <1>1, <1>5 DEF Receive, counts
  <2>2. \A o \in Order : Holders(o)' = Holders(o) /\ Senders(o)' = Senders(o)
    BY <2>1 DEF Holders, Senders, Handlers
  <2> QED
    BY <1>3, <2>1, <2>2 DEF Taken
<1>6. ASSUME UNCHANGED <<key, expiries, processed, resends, handlers>> PROVE KeyInv'
  BY <1>3, <1>6 DEF Taken, Holders, Senders, Handlers
<1> QED
  BY <1>2, <1>4, <1>5, <1>6, StepCases DEF Publish, PaymentWrites, counts, vars

LEMMA KeyAlways == Spec => [](TypeInv /\ KeyInv)
<1> QED
  BY TypeStart, TypeStep, KeyStart, KeyStep, PTL DEF Spec

LEMMA KeyBoundsEffects == TypeInv /\ KeyInv => OneEffectPerKey
<1> SUFFICES ASSUME TypeInv, KeyInv, NEW o \in Order
             PROVE  processed[o] <= 1 + expiries[o] + resends[o]
  BY DEF OneEffectPerKey
<1>1. /\ processed[o] \in Nat /\ expiries[o] \in Nat /\ resends[o] \in Nat
      /\ Taken(o) \in Nat /\ Taken(o) <= 1 + expiries[o]
  BY DEF TypeInv, TypeOK, Taken
<1>2. Cardinality(Senders(o)) \in Nat
  BY SetAssumption, FS_Subset, FS_CardinalityType DEF Senders, Handlers
<1> QED
  BY <1>1, <1>2 DEF KeyInv

\* SET NX bounds the effect: an order is sent to orders.processed at most once
\* for every time its key was free, and kafkajs's own retries aside there is
\* one record for each.
THEOREM EffectsAreBounded == Spec => []OneEffectPerKey
<1> QED
  BY KeyBoundsEffects, KeyAlways, PTL

\* SET NX excludes: no more handlers are past the claim than times the key
\* was taken, so one until it runs out.
THEOREM KeysExclude == Spec => []KeyExcludes
<1>1. TypeInv /\ KeyInv => KeyExcludes
  BY DEF KeyInv, KeyExcludes, Holders, Taken
<1> QED
  BY <1>1, KeyAlways, PTL

-----------------------------------------------------------------------------
\* The failed attempts of a handler at its present message, as a number and,
\* for all the handlers of an order, as a set that can be counted.
Fails(w) == IF handlers[w].pc \in {"failed", "dlq"} THEN handlers[w].attempt
                                                     ELSE handlers[w].attempt - 1
Failures(o) == {a \in Worker \X (1..MaxAttempts) :
                   handlers[a[1]].ord = o /\ a[2] <= Fails(a[1])}

\* Every failure was counted once: in a dead letter, or in an attempt that is
\* still in hand; and only a handler that spent all its attempts gives up.
EarnedInv ==
    /\ \A w \in Worker : handlers[w].pc = "dlq" => handlers[w].attempt = MaxAttempts
    /\ \A o \in Order : dlq[o] * MaxAttempts + Cardinality(Failures(o)) <= faults

LEMMA AttemptNumbers ==
    IsFiniteSet(1..MaxAttempts) /\ Cardinality(1..MaxAttempts) = MaxAttempts
<1>1. 1 \in Int /\ MaxAttempts \in Int /\ ~(1 > MaxAttempts)
  BY BoundAssumption
<1>2. /\ IsFiniteSet(1..MaxAttempts)
      /\ Cardinality(1..MaxAttempts) = IF 1 > MaxAttempts THEN 0 ELSE MaxAttempts - 1 + 1
  BY <1>1, FS_Interval
<1> QED
  BY <1>1, <1>2

LEMMA FailuresFinite ==
    ASSUME NEW o
    PROVE  /\ IsFiniteSet(Failures(o)) /\ IsFiniteSet(Failures(o)')
           /\ Cardinality(Failures(o)) \in Nat /\ Cardinality(Failures(o)') \in Nat
<1>1. IsFiniteSet(Worker \X (1..MaxAttempts))
  BY SetAssumption, AttemptNumbers, FS_Product
<1>2. /\ Failures(o) \subseteq Worker \X (1..MaxAttempts)
      /\ Failures(o)' \subseteq Worker \X (1..MaxAttempts)
  BY DEF Failures
<1>3. IsFiniteSet(Failures(o)) /\ IsFiniteSet(Failures(o)')
  BY <1>1, <1>2, FS_Subset
<1> QED
  BY <1>3, FS_CardinalityType

\* What a handler's step does to the failures it has in hand.
LEMMA FailuresOfMove ==
    ASSUME TypeInv, EarnedInv, NEW w \in Worker, Moves(w)
    PROVE  /\ handlers'[w].pc = "dlq" => handlers'[w].attempt = MaxAttempts
           /\ \/ handlers'[w].pc = "idle"
              \/ Fails(w)' = Fails(w)
              \/ Fails(w)' = Fails(w) + 1 /\ faults' = faults + 1
           /\ faults' = faults \/ faults' = faults + 1
<1>1. /\ handlers \in [Worker -> Handler] /\ handlers[w].attempt \in 1..MaxAttempts
      /\ handlers' \in [Worker -> Handler] /\ MaxAttempts \in Nat /\ faults \in Nat
  BY HandlerMoves, BoundAssumption DEF TypeInv, TypeOK, HandlerInv, Handler
<1>2. CASE MarkFailed(w)
  <2>1. CASE handlers[w].attempt < MaxAttempts
    <3>1. handlers'[w] = [pc |-> "acquire", ord |-> handlers[w].ord,
                          attempt |-> handlers[w].attempt + 1]
      BY <1>1, <1>2, <2>1 DEF MarkFailed, NextAttempt
    <3> QED
      BY <1>1, <1>2, <3>1 DEF MarkFailed, Fails
  <2>2. CASE ~(handlers[w].attempt < MaxAttempts)
    <3>1. handlers'[w].pc = "dlq" /\ handlers'[w].attempt = handlers[w].attempt
      BY <1>1, <1>2, <2>2 DEF MarkFailed, NextAttempt, Handler
    <3> QED
      BY <1>1, <1>2, <2>2, <3>1 DEF MarkFailed, Fails
  <2> QED
    BY <2>1, <2>2
<1>3. CASE Acquire(w) \/ SendProcessed(w)
  <2>1. /\ handlers'[w].pc \in {"send", "mark"} /\ faults' = faults
        /\ handlers'[w].attempt = handlers[w].attempt
        /\ handlers[w].pc \in {"acquire", "send"}
    BY <1>1, <1>3 DEF Acquire, SendProcessed, Handler
  <2> QED
    BY <2>1 DEF Fails
<1>4. CASE AcquireThrows(w) \/ SendThrows(w) \/ MarkProcessedThrows(w)
  <2>1. /\ handlers'[w].pc = "failed" /\ faults' = faults + 1
        /\ handlers'[w].attempt = handlers[w].attempt
        /\ handlers[w].pc \in {"acquire", "send", "mark"}
    BY <1>1, <1>4 DEF AcquireThrows, SendThrows, MarkProcessedThrows, Fault, Handler
  <2> QED
    BY <1>1, <2>1 DEF Fails
<1>5. CASE \/ SkipDuplicate(w) \/ MarkProcessed(w) \/ PublishDlq(w) \/ MarkFailedThrows(w)
           \/ PublishDlqThrows(w) \/ Crash(w)
  <2>1. handlers'[w].pc = "idle"
    BY <1>1, <1>5 DEF SkipDuplicate, MarkProcessed, PublishDlq, MarkFailedThrows,
                      PublishDlqThrows, Crash, Idle
  <2> QED
    BY <1>5, <2>1 DEF SkipDuplicate, MarkProcessed, PublishDlq, MarkFailedThrows,
                      PublishDlqThrows, Crash
<1>6. CASE SendAgain(w)
  BY <1>6 DEF SendAgain, Fails
<1> QED
  BY <1>2, <1>3, <1>4, <1>5, <1>6 DEF Moves, HandlerStep, HandlerFault

LEMMA EarnedMove ==
    ASSUME TypeInv, EarnedInv, NEW w \in Worker, Moves(w), NEW o \in Order
    PROVE  dlq'[o] * MaxAttempts + Cardinality(Failures(o)') <= faults'
<1> DEFINE F == Failures(o)
           G == Failures(o)'
           done == {w} \X (1..MaxAttempts)
<1>1. /\ handlers \in [Worker -> Handler] /\ handlers[w].attempt \in 1..MaxAttempts
      /\ handlers' \in [Worker -> Handler] /\ MaxAttempts \in Nat /\ faults \in Nat
      /\ dlq \in [Order -> Nat] /\ handlers[w].ord \in Order
      /\ \A v \in Worker \ {w} : handlers'[v] = handlers[v]
      /\ handlers'[w].pc # "idle" => handlers'[w].ord = handlers[w].ord
      /\ handlers'[w].pc = "idle" => handlers'[w].ord = NoOrder
  BY HandlerMoves, BoundAssumption DEF TypeInv, TypeOK, HandlerInv, Handler
<1>2. /\ IsFiniteSet(F) /\ IsFiniteSet(G) /\ Cardinality(F) \in Nat /\ Cardinality(G) \in Nat
  BY FailuresFinite
<1>3. dlq[o] * MaxAttempts + Cardinality(F) <= faults /\ dlq[o] * MaxAttempts \in Nat
  BY <1>1 DEF EarnedInv
<1>4. \A a \in Worker \X (1..MaxAttempts) :
          a[1] # w => (a \in G <=> a \in F)
  BY <1>1 DEF Failures, Fails
<1>5. F \subseteq Worker \X (1..MaxAttempts) /\ G \subseteq Worker \X (1..MaxAttempts)
  BY DEF Failures
<1>6. /\ faults' \in {faults, faults + 1}
      /\ \/ handlers'[w].pc = "idle"
         \/ Fails(w)' = Fails(w)
         \/ Fails(w)' = Fails(w) + 1 /\ faults' = faults + 1
  BY FailuresOfMove
<1>7. CASE dlq'[o] = dlq[o]
  <2>1. CASE G \subseteq F
    <3>1. Cardinality(G) <= Cardinality(F)
      BY <1>2, <2>1, FS_Subset
    <3> QED
      BY <1>1, <1>2, <1>3, <1>6, <1>7, <3>1
  <2>2. CASE ~(G \subseteq F)
    <3>1. handlers'[w].pc # "idle" /\ handlers'[w].ord = o /\ handlers[w].ord = o
      BY <1>1, <1>4, <1>5, <2>2, SetAssumption DEF Failures
    <3>2. Fails(w) \in Nat
      BY <1>1 DEF Fails
    <3>3. ASSUME NEW a \in G, a \notin F PROVE a = <<w, Fails(w) + 1>>
      BY <1>1, <1>4, <1>5, <1>6, <3>1, <3>2, <3>3 DEF Failures
    <3>4. Fails(w)' # Fails(w)
      BY <1>4, <1>5, <2>2, <3>1 DEF Failures
    <3>5. faults' = faults + 1
      BY <1>6, <3>1, <3>4
    <3>6. G \subseteq F \union {<<w, Fails(w) + 1>>}
      BY <3>3
    <3>9. Cardinality(G) <= Cardinality(F) + 1
      <4> HIDE DEF F, G
      <4>1. PICK x : G \subseteq F \union {x}
        BY <3>6
      <4>2. /\ IsFiniteSet(F \union {x})
            /\ Cardinality(F \union {x}) \in {Cardinality(F), Cardinality(F) + 1}
        BY <1>2, FS_AddElement
      <4>3. Cardinality(G) <= Cardinality(F \union {x})
        BY <4>1, <4>2, FS_Subset
      <4> QED
        BY <1>2, <4>2, <4>3
    <3> QED
      BY <1>1, <1>2, <1>3, <1>7, <3>5, <3>9
  <2> QED
    BY <2>1, <2>2
<1>8. CASE dlq'[o] # dlq[o]
  <2>1. PublishDlq(w) \/ PublishDlqThrows(w)
    BY <1>1, <1>8 DEF Moves, HandlerStep, SendAgain, HandlerFault, Crash, Acquire, SkipDuplicate,
           SendProcessed, MarkProcessed, MarkFailed, AcquireThrows, SendThrows,
           MarkProcessedThrows, MarkFailedThrows
  <2>2. /\ handlers[w].pc = "dlq" /\ handlers[w].ord = o /\ dlq'[o] = dlq[o] + 1
        /\ handlers'[w].ord = NoOrder
    BY <1>1, <1>8, <2>1 DEF PublishDlq, PublishDlqThrows, Idle
  <2>3. done \subseteq F
    <3>1. Fails(w) = MaxAttempts
      BY <2>2 DEF Fails, EarnedInv
    <3> QED
      BY <1>1, <2>2, <3>1 DEF Failures
  <2>4. G \subseteq F \ done
    <3>1. \A a \in G : a[1] # w
      BY <2>2, SetAssumption DEF Failures
    <3> QED
      BY <1>4, <1>5, <3>1
  <2>5. Cardinality(done) = MaxAttempts /\ IsFiniteSet(done)
    <3>1. IsFiniteSet({w}) /\ Cardinality({w}) = 1
      BY FS_Singleton
    <3>2. /\ IsFiniteSet({w} \X (1..MaxAttempts))
          /\ Cardinality({w} \X (1..MaxAttempts))
                = Cardinality({w}) * Cardinality(1..MaxAttempts)
      BY <3>1, AttemptNumbers, FS_Product
    <3> QED
      BY <1>1, <3>1, <3>2, AttemptNumbers
  <2>6. IsFiniteSet(F \ done) /\ Cardinality(F \ done) = Cardinality(F) - MaxAttempts
    <3>1. F \cap done = done
      BY <2>3
    <3> HIDE DEF F, G
    <3>2. /\ IsFiniteSet(F \ done)
          /\ Cardinality(F \ done) = Cardinality(F) - Cardinality(F \cap done)
      BY <1>2, FS_Difference
    <3> QED
      BY <2>5, <3>1, <3>2
  <2>7. Cardinality(G) <= Cardinality(F \ done)
    <3> HIDE DEF F, G
    <3> QED
      BY <2>4, <2>6, FS_Subset
  <2>8. (dlq[o] + 1) * MaxAttempts = dlq[o] * MaxAttempts + MaxAttempts
    BY <1>1
  <2>9. Cardinality(G) <= Cardinality(F) - MaxAttempts
    BY <2>6, <2>7
  <2> QED
    BY <1>1, <1>2, <1>3, <1>6, <2>2, <2>8, <2>9
<1> QED
  BY <1>7, <1>8

LEMMA EarnedStep == TypeInv /\ EarnedInv /\ [Next]_vars => EarnedInv'
<1> SUFFICES ASSUME TypeInv, EarnedInv, [Next]_vars PROVE EarnedInv'
  OBVIOUS
<1>1. ASSUME NEW w \in Worker, Moves(w) PROVE EarnedInv'
  <2>1. \A v \in Worker : handlers'[v].pc = "dlq" => handlers'[v].attempt = MaxAttempts
    BY <1>1, HandlerMoves, FailuresOfMove DEF EarnedInv
  <2> QED
    BY <1>1, <2>1, EarnedMove DEF EarnedInv
<1>2. ASSUME NEW w \in Worker, NEW p \in Order, Receive(w, p) PROVE EarnedInv'
  <2>1. /\ UNCHANGED <<dlq, faults>> /\ handlers \in [Worker -> Handler]
        /\ handlers[w].pc = "idle" /\ handlers[w].ord = NoOrder
        /\ handlers' = handlers \/ handlers' = [handlers EXCEPT ![w] =
                                        [pc |-> "acquire", ord |-> p, attempt |-> 1]]
    BY <1>2 DEF Receive, TypeInv, TypeOK, HandlerInv, Handler
  <2>2. \A o \in Order : Failures(o)' = Failures(o)
    <3>1. \A v \in Worker \ {w} : handlers'[v] = handlers[v] /\ Fails(v)' = Fails(v)
      BY <2>1 DEF Fails
    <3>2. handlers'[w] = handlers[w] \/ Fails(w)' = 0
      BY <2>1 DEF Fails
    <3>3. ASSUME NEW o \in Order, NEW a \in Worker \X (1..MaxAttempts)
          PROVE  (handlers'[a[1]].ord = o /\ a[2] <= Fails(a[1])')
                     <=> (handlers[a[1]].ord = o /\ a[2] <= Fails(a[1]))
      BY <2>1, <3>1, <3>2, SetAssumption DEF Fails
    <3> QED
      BY <3>3 DEF Failures
  <2>3. \A v \in Worker : handlers'[v].pc = "dlq" => handlers'[v] = handlers[v]
    BY <2>1
  <2> QED
    BY <2>1, <2>2, <2>3 DEF EarnedInv
<1>3. ASSUME UNCHANGED <<handlers, dlq, faults>> PROVE EarnedInv'
  BY <1>3 DEF EarnedInv, Failures, Fails
<1> QED
  BY <1>1, <1>2, <1>3, StepCases DEF Publish, KeyExpires, PaymentWrites, counts, vars

\* publishDlq is reached after MAX_ATTEMPTS failures of one message only: an
\* order's dead letters never cost less than that each.
THEOREM DeadLettersAlwaysEarned == Spec => []DeadLettersAreEarned
<1>1. Init => EarnedInv
  <2> SUFFICES ASSUME Init PROVE EarnedInv
    OBVIOUS
  <2>1. \A o \in Order : Failures(o) = {} /\ dlq[o] = 0
    BY SetAssumption DEF Init, Idle, Failures
  <2>2. ASSUME NEW o \in Order PROVE dlq[o] * MaxAttempts + Cardinality(Failures(o)) = 0
    <3>1. Cardinality(Failures(o)) = 0 /\ MaxAttempts \in Nat
      BY <2>1, FS_EmptySet, BoundAssumption
    <3>2. dlq[o] * MaxAttempts = 0
      BY <2>1, <3>1
    <3> QED
      BY <3>1, <3>2
  <2> QED
    BY <2>2 DEF EarnedInv, Init, Idle
<1>2. TypeInv /\ EarnedInv => DeadLettersAreEarned
  <2> SUFFICES ASSUME TypeInv, EarnedInv, NEW o \in Order
               PROVE  dlq[o] * MaxAttempts <= faults
    BY DEF DeadLettersAreEarned
  <2>1. /\ dlq[o] * MaxAttempts \in Nat /\ faults \in Nat
        /\ dlq[o] * MaxAttempts + Cardinality(Failures(o)) <= faults
    BY BoundAssumption DEF TypeInv, TypeOK, EarnedInv
  <2> QED
    BY <2>1, FailuresFinite
<1> QED
  BY <1>1, <1>2, EarnedStep, TypeAlways, PTL DEF Spec
=============================================================================
