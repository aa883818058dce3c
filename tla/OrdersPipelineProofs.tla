------------------------ MODULE OrdersPipelineProofs ------------------------
(***************************************************************************)
(* Theorems about the first release from end to end, for every number of   *)
(* requests, replicas, attempts and faults: an order gets lost between the *)
(* three programs for two causes only, an idempotency key has one order    *)
(* with one effect for each time the Redis key is taken, and the pipeline  *)
(* is an outbox whose deliveries are effects.                              *)
(*                                                                         *)
(* The invariants of the outbox worker and of the order worker are those   *)
(* of their own modules, OP and WP: every step of the pipeline is a step,  *)
(* or none, of each.  What is left to say is how the programs hand an      *)
(* order on: Ordered, HandedOver and AllAccounted.                         *)
(***************************************************************************)
EXTENDS OrdersPipeline, Sequences, FiniteSetTheorems, TLAPS

OP == INSTANCE OutboxProofs
          WITH Event <- Request, Earlier <- [r \in Request |-> {}],
               MaxAttempts <- OutboxAttempts, rows <- outbox, expiries <- claimExpiries,
               resends <- relayResends
WP == INSTANCE OrderWorkerProofs
          WITH Order <- Request, MaxAttempts <- WorkerAttempts, MaxCrashes <- MaxDeaths,
               crashes <- deaths

\* An order and its event are one: the transaction of createOrder writes both,
\* and the key's UNIQUE constraint holds.
Ordered == /\ orders \subseteq Request
           /\ \A p, q \in orders : KeyOf[p] = KeyOf[q] => p = q
           /\ \A r \in Request : outbox[r].present <=> r \in orders

\* The order has reached the order worker.
Touched(o) == \/ topic[o] > 0 \/ WP!Handlers(o) # {} \/ dlq[o] > 0 \/ processed[o] > 0

\* Only committed orders are passed on, by the outbox worker and by Kafka.
HandedOver == /\ OP!Published \subseteq orders
              /\ \A o \in Request : Touched(o) => o \in orders

\* What was published is waiting, in hand, has an outcome or is silenced.
AllAccounted == \A o \in Request \ Malformed : WP!Accounted(o, OP!Published)

RelayInv == OP!SentInv
WorkInv  == WP!TypeInv /\ WP!KeyInv /\ WP!AnnouncedInv
IInv == RelayInv /\ WorkInv /\ Ordered /\ HandedOver /\ AllAccounted

-----------------------------------------------------------------------------
(* A step of the pipeline is one of its programs. *)

LEMMA PartAssumptions ==
    /\ OP!EventAssumption /\ OP!TickAssumption /\ OP!BoundAssumption
    /\ WP!SetAssumption /\ WP!BoundAssumption
<1> USE RequestAssumption, ProgramAssumption, BoundAssumption
<1>1. OP!EventAssumption /\ OP!TickAssumption
  BY DEF OP!EventAssumption, OP!TickAssumption, OP!IsFiniteSet, IsFiniteSet
<1>2. WP!SetAssumption
  BY DEF WP!SetAssumption, WP!IsFiniteSet, IsFiniteSet
<1>3. OP!BoundAssumption /\ WP!BoundAssumption
  BY DEF OP!BoundAssumption, WP!BoundAssumption
<1> QED
  BY <1>1, <1>2, <1>3

\* The steps that belong to the outbox worker, in its own words.  What Kafka
\* takes from it is published to the order worker.
Relays == \/ \E r \in Request : TimePasses(r)
          \/ \E t \in O!Tick : TickStep(t) \/ \E r \in Request : SendAgain(t, r)
          \/ TickFault

\* A tick sends an event of its batch and Kafka takes it.
Passes(t, r) == r \in ticks[t].batch /\ log' = Append(log, r) /\ WP!Publish(r)

LEMMA PublishIsPublish == \A o \in Request : W!Publish(o) => WP!Publish(o)
  BY DEF W!Publish, WP!Publish

LEMMA RelayWorks ==
    ASSUME Relays
    PROVE  /\ OP!Works /\ UNCHANGED api
           /\ \/ UNCHANGED <<work, log>>
              \/ \E t \in OP!Tick, r \in Request : Passes(t, r)
<1>1. ASSUME NEW r \in Request, TimePasses(r)
      PROVE  OP!Works /\ UNCHANGED <<api, work, log>>
  <2>1. O!ClaimExpires(r) => OP!ClaimExpires(r)
    BY DEF O!ClaimExpires, OP!ClaimExpires, O!Holders, OP!Holders, O!Tick, OP!Tick
  <2>2. O!BecomesDue(r) => OP!BecomesDue(r)
    BY DEF O!BecomesDue, OP!BecomesDue, O!counts, OP!counts
  <2> QED
    BY <1>1, <2>1, <2>2 DEF TimePasses, OP!Works, O!ClaimExpires, O!BecomesDue
<1> USE DEF O!Tick, OP!Tick, O!counts, OP!counts
<1>c. /\ \A S : O!Claim(S) = OP!Claim(S)
      /\ \A S : O!FirstOf(S) = OP!FirstOf(S)
      /\ \A e \in Request : (O!Free(e) <=> OP!Free(e)) /\ (O!Marked(e) <=> OP!Marked(e))
  <2>1. \A S : O!Claim(S) = OP!Claim(S)
    BY DEF O!Claim, OP!Claim
  <2>2. \A S : O!FirstOf(S) = OP!FirstOf(S)
    BY DEF O!FirstOf, OP!FirstOf, O!Cardinality, OP!Cardinality
  <2>3. ASSUME NEW e \in Request
        PROVE  (O!Free(e) <=> OP!Free(e)) /\ (O!Marked(e) <=> OP!Marked(e))
    BY DEF O!Free, OP!Free, O!Locked, OP!Locked, O!Marked, OP!Marked, O!Eligible, OP!Eligible
  <2> QED
    BY <2>1, <2>2, <2>3
<1>2. ASSUME NEW t \in O!Tick, NEW r \in Request, Send(t, r)
      PROVE  /\ OP!Works /\ UNCHANGED api
             /\ UNCHANGED <<work, log>> \/ Passes(t, r)
  <2>1. O!SendOk(t, r) => OP!SendOk(t, r)
    BY DEF O!SendOk, OP!SendOk, O!Sending, OP!Sending
  <2>2. O!SendRejected(t, r) => OP!SendRejected(t, r)
    BY DEF O!SendRejected, OP!SendRejected, O!Sending, OP!Sending
  <2>3. OP!Works
    BY <1>2, <2>1, <2>2 DEF Send, OP!Works, OP!TickStep
  <2>4. r \in ticks[t].batch /\ log' \in {log, Append(log, r)}
    BY <1>2 DEF Send, O!SendOk, O!SendRejected, O!Sending
  <2> QED
    BY <1>2, <2>3, <2>4, PublishIsPublish DEF Send, Passes
<1>8. ASSUME NEW t \in O!Tick, NEW r \in Request, SendAgain(t, r)
      PROVE  OP!Works /\ UNCHANGED api /\ Passes(t, r)
  <2>1. O!SendAgain(t, r) => OP!SendAgain(t, r)
    BY DEF O!SendAgain, OP!SendAgain, O!Sending, OP!Sending
  <2> QED
    BY <1>8, <2>1, PublishIsPublish DEF SendAgain, OP!Works, OP!SendAgain, OP!Sending, Passes
<1>3. ASSUME NEW t \in O!Tick
      PROVE  /\ O!SelectPending(t) => OP!SelectPending(t)
             /\ O!FetchPending(t) => OP!FetchPending(t)
             /\ O!MarkPublished(t) => OP!MarkPublished(t)
             /\ O!MarkFailed(t) => OP!MarkFailed(t)
             /\ O!TickThrows(t) => OP!TickThrows(t)
  <2> USE DEF O!Advance, OP!Advance, O!Settled, OP!Settled, O!Retried, OP!Retried,
              O!IdleTick, OP!IdleTick, O!Locked, OP!Locked
  <2>1. O!SelectPending(t) => OP!SelectPending(t)
    <3>1. \A skipped : {e \in Request \ skipped : O!Free(e)}
                          = {e \in Request \ skipped : OP!Free(e)}
      BY <1>c
    <3>2. {e \in Request : O!Marked(e)} = {e \in Request : OP!Marked(e)}
      BY <1>c
    <3> QED
      BY <1>c, <3>1, <3>2 DEF O!SelectPending, OP!SelectPending
  <2>2. O!FetchPending(t) => OP!FetchPending(t)
    BY <1>c DEF O!FetchPending, OP!FetchPending
  <2>3. O!MarkPublished(t) => OP!MarkPublished(t)
    BY DEF O!MarkPublished, OP!MarkPublished
  <2>4. O!MarkFailed(t) => OP!MarkFailed(t)
    BY DEF O!MarkFailed, OP!MarkFailed
  <2>5. O!MarkPublishedThrows(t) => OP!MarkPublishedThrows(t)
    BY DEF O!MarkPublishedThrows, OP!MarkPublishedThrows
  <2>6. O!MarkFailedThrows(t) => OP!MarkFailedThrows(t)
    BY DEF O!MarkFailedThrows, OP!MarkFailedThrows
  <2>7. O!FetchPendingThrows(t) => OP!FetchPendingThrows(t)
    BY <1>c DEF O!FetchPendingThrows, OP!FetchPendingThrows
  <2> QED
    BY <2>1, <2>2, <2>3, <2>4, <2>5, <2>6, <2>7 DEF O!TickThrows, OP!TickThrows
<1>5. \A p \in Process : O!Crash(p) => OP!Crash(p)
  BY DEF O!Crash, OP!Crash, O!IdleTick, OP!IdleTick
<1>6. ASSUME NEW t \in O!Tick,
             \/ O!SelectPending(t) \/ O!FetchPending(t)
             \/ O!MarkPublished(t) \/ O!MarkFailed(t)
      PROVE  OP!Works /\ UNCHANGED log
  BY <1>3, <1>6 DEF OP!Works, OP!TickStep, O!SelectPending, O!FetchPending, O!MarkPublished,
                    O!MarkFailed
<1>7. ASSUME TickFault PROVE OP!Works /\ UNCHANGED <<api, work, log>>
  <2>1. OP!Works
    BY <1>3, <1>5, <1>7 DEF TickFault, OP!Works
  <2> QED
    BY <1>7, <2>1 DEF TickFault, O!TickThrows, O!MarkPublishedThrows, O!MarkFailedThrows,
                      O!FetchPendingThrows, O!Crash
<1> QED
  BY <1>1, <1>2, <1>6, <1>7, <1>8 DEF Relays, TickStep

\* The steps that belong to the order worker, in its own words.
Handles == \/ \E r \in Request : Reprocess(r) \/ KeyExpires(r)
           \/ \E w \in Worker : \/ Receive(w) \/ HandlerStep(w) \/ HandlerSendsAgain(w)
                                \/ HandlerFault(w) \/ Redeliver(w) \/ Die(w)

LEMMA HandlerIsHandler ==
    ASSUME NEW w \in Worker
    PROVE  /\ W!HandlerStep(w) => WP!HandlerStep(w)
           /\ W!HandlerFault(w) => WP!HandlerFault(w)
           /\ W!SendAgain(w) => WP!SendAgain(w)
           /\ W!Crash(w) => WP!Crash(w)
           /\ \A o \in Request : W!Receive(w, o) => WP!Receive(w, o)
<1> USE DEF W!counts, WP!counts, W!Idle, WP!Idle, W!Marked, WP!Marked, W!Failed, WP!Failed,
            W!Fault, WP!Fault, W!NextAttempt, WP!NextAttempt
<1>1. W!HandlerStep(w) => WP!HandlerStep(w)
  <2>1. W!Acquire(w) => WP!Acquire(w)
    BY DEF W!Acquire, WP!Acquire
  <2>2. W!SkipDuplicate(w) => WP!SkipDuplicate(w)
    BY DEF W!SkipDuplicate, WP!SkipDuplicate
  <2>3. W!SendProcessed(w) => WP!SendProcessed(w)
    BY DEF W!SendProcessed, WP!SendProcessed
  <2>4. W!MarkProcessed(w) => WP!MarkProcessed(w)
    BY DEF W!MarkProcessed, WP!MarkProcessed
  <2>5. W!MarkFailed(w) => WP!MarkFailed(w)
    BY DEF W!MarkFailed, WP!MarkFailed
  <2>6. W!PublishDlq(w) => WP!PublishDlq(w)
    BY DEF W!PublishDlq, WP!PublishDlq
  <2> QED
    BY <2>1, <2>2, <2>3, <2>4, <2>5, <2>6 DEF W!HandlerStep, WP!HandlerStep
<1>2. W!HandlerFault(w) => WP!HandlerFault(w)
  <2>1. W!AcquireThrows(w) => WP!AcquireThrows(w)
    BY DEF W!AcquireThrows, WP!AcquireThrows
  <2>2. W!SendThrows(w) => WP!SendThrows(w)
    BY DEF W!SendThrows, WP!SendThrows
  <2>3. W!MarkProcessedThrows(w) => WP!MarkProcessedThrows(w)
    BY DEF W!MarkProcessedThrows, WP!MarkProcessedThrows
  <2>4. W!MarkFailedThrows(w) => WP!MarkFailedThrows(w)
    BY DEF W!MarkFailedThrows, WP!MarkFailedThrows
  <2>5. W!PublishDlqThrows(w) => WP!PublishDlqThrows(w)
    BY DEF W!PublishDlqThrows, WP!PublishDlqThrows
  <2> QED
    BY <2>1, <2>2, <2>3, <2>4, <2>5 DEF W!HandlerFault, WP!HandlerFault
<1>3. W!Crash(w) => WP!Crash(w)
  BY DEF W!Crash, WP!Crash
<1>4. \A o \in Request : W!Receive(w, o) => WP!Receive(w, o)
  BY DEF W!Receive, WP!Receive
<1>5. W!SendAgain(w) => WP!SendAgain(w)
  BY DEF W!SendAgain, WP!SendAgain
<1> QED
  BY <1>1, <1>2, <1>3, <1>4, <1>5

\* A repeated message is one of an order that is in hand or dead-lettered.
Repeats(o) == WP!Publish(o) /\ (WP!Handlers(o) # {} \/ dlq[o] > 0)

LEMMA HandlesWork ==
    ASSUME WP!TypeInv, Handles
    PROVE  /\ UNCHANGED <<api, relay>>
           /\ \/ \E o \in Request : Repeats(o) \/ WP!KeyExpires(o)
              \/ \E w \in Worker : \/ \E o \in Request : WP!Receive(w, o)
                                   \/ WP!Moves(w)
<1>1. ASSUME NEW o \in Request, W!Reprocess(o) PROVE Repeats(o)
  BY <1>1, PublishIsPublish DEF W!Reprocess, Repeats
<1>2. ASSUME NEW o \in Request, W!KeyExpires(o) PROVE WP!KeyExpires(o)
  BY <1>2 DEF W!KeyExpires, WP!KeyExpires
<1>3. ASSUME NEW w \in Worker, W!Redeliver(w) PROVE \E o \in Request : Repeats(o)
  <2>1. handlers[w].ord \in Request
    BY <1>3 DEF W!Redeliver, WP!TypeInv, WP!TypeOK
  <2> QED
    BY <1>3, <2>1, PublishIsPublish DEF W!Redeliver, Repeats, WP!Handlers
<1> QED
  BY <1>1, <1>2, <1>3, HandlerIsHandler
     DEF Handles, Reprocess, KeyExpires, Redeliver, Receive, HandlerStep, HandlerSendsAgain,
         HandlerFault, Die, WP!Moves

\* The API's steps: it stores an order and its event, or answers.
LEMMA ApiWorks ==
    ASSUME NEW r \in Request, ApiStep(r)
    PROVE  /\ UNCHANGED work
           /\ \/ /\ orders' = orders \union {r} /\ SameKey(r) = {}
                 /\ OP!Insert(r)
              \/ UNCHANGED <<orders, relay>>
<1>1. O!Insert(r) => OP!Insert(r)
  BY DEF O!Insert, OP!Insert, O!counts, OP!counts
<1> QED
  BY <1>1 DEF ApiStep, LookUp, Commit, Conflict, CommitFails, Store

\* The steps by program.
LEMMA StepCases ==
    ASSUME [Next]_vars
    PROVE  \/ \E r \in Request : ApiStep(r)
           \/ Relays \/ Handles
           \/ UNCHANGED vars
  BY DEF Next, Relays, Handles

LEMMA StepOfRelay == WP!TypeInv /\ [Next]_vars => [OP!Next]_(OP!vars)
<1> SUFFICES ASSUME WP!TypeInv, [Next]_vars PROVE [OP!Next]_(OP!vars)
  OBVIOUS
<1>1. OP!Works => OP!Next
  BY DEF OP!Works, OP!Next
<1>2. ASSUME NEW r \in Request, OP!Insert(r) PROVE OP!Next
  BY <1>2 DEF OP!Next
<1>3. UNCHANGED relay => UNCHANGED OP!vars
  BY DEF relay, OP!vars
<1> QED
  BY <1>1, <1>2, <1>3, StepCases, ApiWorks, RelayWorks, HandlesWork DEF vars

LEMMA StepOfWork == WP!TypeInv /\ [Next]_vars => [WP!Next]_(WP!vars)
<1> SUFFICES ASSUME WP!TypeInv, [Next]_vars PROVE [WP!Next]_(WP!vars)
  OBVIOUS
<1>1. UNCHANGED work => UNCHANGED WP!vars
  BY DEF work, WP!vars
<1>2. ASSUME NEW r \in Request, WP!Publish(r) PROVE WP!Next
  BY <1>2 DEF WP!Next
<1>3. ASSUME Relays PROVE [WP!Next]_(WP!vars)
  BY <1>1, <1>2, <1>3, RelayWorks DEF Passes
<1>4. ASSUME Handles PROVE WP!Next
  BY <1>4, HandlesWork DEF WP!Next, WP!Moves, Repeats
<1> QED
  BY <1>1, <1>3, <1>4, StepCases, ApiWorks DEF vars

-----------------------------------------------------------------------------
(* The invariant. *)

LEMMA PartsStart == Init => RelayInv /\ WorkInv
<1> SUFFICES ASSUME Init PROVE RelayInv /\ WorkInv
  OBVIOUS
<1>1. OP!Init
  BY DEF Init, O!Init, OP!Init, O!IdleTick, OP!IdleTick, O!Tick, OP!Tick
<1>2. WP!Init
  BY DEF Init, W!Init, WP!Init, W!Idle, WP!Idle
<1>3. WP!AnnouncedInv
  BY <1>2 DEF WP!Init, WP!Idle, WP!AnnouncedInv, WP!MarkedWasAnnounced
<1> QED
  BY <1>1, <1>2, <1>3, OP!SentInvInit, WP!TypeStart, WP!KeyStart, PartAssumptions
     DEF RelayInv, WorkInv

LEMMA PartsStep ==
    RelayInv /\ WorkInv /\ [Next]_vars => RelayInv' /\ WorkInv'
<1> SUFFICES ASSUME RelayInv, WorkInv, [Next]_vars PROVE RelayInv' /\ WorkInv'
  OBVIOUS
<1>1. WP!TypeInv /\ WP!KeyInv /\ WP!AnnouncedInv /\ OP!SentInv
  BY DEF RelayInv, WorkInv
<1>2. [OP!Next]_(OP!vars) /\ [WP!Next]_(WP!vars)
  BY <1>1, StepOfRelay, StepOfWork
<1>3. OP!SentInv'
  BY <1>1, <1>2, OP!SentInvStep, PartAssumptions
<1>4. WP!TypeInv' /\ WP!KeyInv' /\ WP!AnnouncedInv'
  BY <1>1, <1>2, WP!TypeStep, WP!KeyStep, WP!AnnouncedStep, PartAssumptions
<1> QED
  BY <1>3, <1>4 DEF RelayInv, WorkInv

LEMMA Start == Init => IInv
<1> SUFFICES ASSUME Init PROVE IInv
  OBVIOUS
<1>1. RelayInv /\ WorkInv
  BY PartsStart
<1>2. WP!Init /\ OP!Published = {}
  <2>1. WP!Init
    BY DEF Init, W!Init, WP!Init, W!Idle, WP!Idle
  <2>2. log = <<>>
    BY DEF Init, O!Init
  <2> QED
    BY <2>1, <2>2 DEF OP!Published
<1>3. Ordered
  BY DEF Init, O!Init, Ordered
<1>4. HandedOver
  BY <1>2, RequestAssumption DEF HandedOver, Touched, WP!Init, WP!Idle, WP!Handlers
<1>5. AllAccounted
  BY <1>2, WP!TraceStart, PartAssumptions DEF AllAccounted
<1> QED
  BY <1>1, <1>3, <1>4, <1>5 DEF IInv

\* Only createOrder adds an order, when there is none with its key.
LEMMA OrderedStep == IInv /\ [Next]_vars => Ordered'
<1> SUFFICES ASSUME IInv, [Next]_vars PROVE Ordered'
  OBVIOUS
<1>1. OP!SentInv /\ WP!TypeInv /\ Ordered
  BY DEF IInv, RelayInv, WorkInv
<1>2. ASSUME NEW r \in Request, ApiStep(r) PROVE Ordered'
  <2>1. CASE UNCHANGED <<orders, relay>>
    BY <1>1, <2>1 DEF Ordered, relay
  <2>2. CASE orders' = orders \union {r} /\ SameKey(r) = {} /\ OP!Insert(r)
    <3>1. \A q \in Request : outbox'[q].present <=> q = r \/ outbox[q].present
      <4>1. outbox \in [Request -> OP!Row] /\ outbox' = [outbox EXCEPT ![r].present = TRUE]
        BY <1>1, <2>2 DEF OP!SentInv, OP!TypeOK, OP!Insert
      <4> QED
        BY <4>1 DEF OP!Row
    <3>2. \A q \in orders : KeyOf[q] # KeyOf[r]
      BY <2>2 DEF SameKey
    <3> QED
      BY <1>1, <2>2, <3>1, <3>2 DEF Ordered
  <2> QED
    BY <1>2, <2>1, <2>2, ApiWorks
<1>3. ASSUME Relays PROVE Ordered'
  <2>1. /\ \A q \in Request : outbox'[q].present <=> outbox[q].present
        /\ orders' = orders
    BY <1>1, <1>3, RelayWorks, OP!WorkKeepsRows, PartAssumptions DEF api
  <2> QED
    BY <1>1, <2>1 DEF Ordered
<1>4. ASSUME UNCHANGED <<orders, outbox>> PROVE Ordered'
  BY <1>1, <1>4 DEF Ordered
<1> QED
  BY <1>1, <1>2, <1>3, <1>4, StepCases, HandlesWork DEF api, relay, vars

\* No step of the order worker touches an order that was not.
LEMMA TouchedBefore ==
    ASSUME WP!TypeInv, NEW o \in Request, Touched(o)',
           \/ \E p \in Request : Repeats(p) \/ WP!KeyExpires(p)
           \/ \E w \in Worker : \/ \E p \in Request : WP!Receive(w, p)
                                \/ WP!Moves(w)
    PROVE  Touched(o)
<1>1. /\ topic \in [Request -> Nat] /\ dlq \in [Request -> Nat]
      /\ processed \in [Request -> Nat] /\ handlers \in [Worker -> WP!Handler]
  BY DEF WP!TypeInv, WP!TypeOK, WP!Handler
<1>2. ASSUME NEW p \in Request, Repeats(p) \/ WP!KeyExpires(p) PROVE Touched(o)
  <2>1. /\ UNCHANGED <<handlers, dlq, processed>>
        /\ topic'[o] # topic[o] => o = p /\ Repeats(p)
    BY <1>1, <1>2 DEF Repeats, WP!Publish, WP!KeyExpires
  <2> QED
    BY <2>1 DEF Touched, Repeats, WP!Handlers
<1>3. ASSUME NEW w \in Worker, NEW p \in Request, WP!Receive(w, p) PROVE Touched(o)
  <2>1. /\ UNCHANGED <<dlq, processed>> /\ topic[p] > 0
        /\ topic'[o] > 0 => topic[o] > 0
        /\ \A v \in Worker : handlers'[v] = handlers[v] \/ handlers'[v].ord = p
    BY <1>1, <1>3 DEF WP!Receive
  <2> QED
    BY <2>1 DEF Touched, WP!Handlers
<1>4. ASSUME NEW w \in Worker, WP!Moves(w) PROVE Touched(o)
  <2>1. /\ \A v \in Worker \ {w} : handlers'[v] = handlers[v]
        /\ handlers'[w].ord \in {handlers[w].ord, NoOrder}
        /\ handlers[w].ord \in Request
    BY <1>4, WP!HandlerMoves, PartAssumptions
  <2>2. handlers[w].ord # o => /\ topic'[o] = topic[o] /\ dlq'[o] = dlq[o]
                               /\ processed'[o] = processed[o]
    BY <1>1, <1>4, <2>1
       DEF WP!Moves, WP!HandlerStep, WP!SendAgain, WP!HandlerFault, WP!Crash, WP!Acquire,
           WP!SkipDuplicate, WP!SendProcessed, WP!MarkProcessed, WP!MarkFailed, WP!PublishDlq,
           WP!AcquireThrows, WP!SendThrows, WP!MarkProcessedThrows, WP!MarkFailedThrows,
           WP!PublishDlqThrows, WP!counts
  <2> QED
    BY <2>1, <2>2, RequestAssumption DEF Touched, WP!Handlers
<1> QED
  BY <1>2, <1>3, <1>4

LEMMA HandedOverStep == IInv /\ [Next]_vars => HandedOver'
<1> SUFFICES ASSUME IInv, [Next]_vars PROVE HandedOver'
  OBVIOUS
<1>1. OP!SentInv /\ WP!TypeInv /\ Ordered /\ HandedOver
  BY DEF IInv, RelayInv, WorkInv
<1>2. ASSUME UNCHANGED <<work, log>>, orders \subseteq orders' PROVE HandedOver'
  BY <1>1, <1>2 DEF HandedOver, Touched, WP!Handlers, OP!Published, work
<1>3. ASSUME NEW r \in Request, ApiStep(r) PROVE HandedOver'
  BY <1>2, <1>3, ApiWorks DEF OP!Insert, relay
<1>4. ASSUME NEW t \in OP!Tick, NEW r \in Request, Passes(t, r), UNCHANGED orders
      PROVE  HandedOver'
  <2>1. r \in orders
    BY <1>1, <1>4 DEF Passes, OP!SentInv, OP!Working, Ordered
  <2>2. OP!Published' = OP!Published \union {r}
    <3>1. log \in Seq(Request)
      BY <1>1 DEF OP!SentInv, OP!TypeOK
    <3> QED
      BY <1>4, <3>1, OP!PublishedAfterAppend, PartAssumptions DEF Passes
  <2>3. ASSUME NEW o \in Request, Touched(o)' PROVE o = r \/ Touched(o)
    <3>1. /\ UNCHANGED <<handlers, dlq, processed>>
          /\ o # r => topic'[o] = topic[o]
      BY <1>1, <1>4 DEF Passes, WP!Publish, WP!TypeInv, WP!TypeOK
    <3> QED
      BY <2>3, <3>1 DEF Touched, WP!Handlers
  <2> QED
    BY <1>1, <1>4, <2>1, <2>2, <2>3 DEF HandedOver
<1>5. ASSUME Relays PROVE HandedOver'
  BY <1>2, <1>4, <1>5, RelayWorks DEF api
<1>6. ASSUME Handles PROVE HandedOver'
  <2>1. UNCHANGED <<orders, log>>
    BY <1>1, <1>6, HandlesWork DEF api, relay
  <2>2. \A o \in Request : Touched(o)' => Touched(o)
    BY <1>1, <1>6, HandlesWork, TouchedBefore
  <2> QED
    BY <1>1, <2>1, <2>2 DEF HandedOver, OP!Published
<1>7. CASE UNCHANGED vars
  BY <1>2, <1>7 DEF vars, api, relay
<1> QED
  BY <1>3, <1>5, <1>6, <1>7, StepCases

\* What is published waits on the topic.
LEMMA AllAccountedStep == IInv /\ [Next]_vars => AllAccounted'
<1> SUFFICES ASSUME IInv, [Next]_vars, NEW o \in Request \ Malformed
             PROVE  WP!Accounted(o, OP!Published)'
  BY DEF AllAccounted
<1>1. /\ OP!SentInv /\ WP!TypeInv /\ [WP!Next]_(WP!vars)
      /\ WP!Accounted(o, OP!Published)
  BY StepOfWork DEF IInv, RelayInv, WorkInv, AllAccounted
<1>4. o \in OP!Published' => o \in OP!Published \/ topic'[o] > 0
  <2>1. UNCHANGED log => OP!Published' = OP!Published
    BY DEF OP!Published
  <2>2. ASSUME NEW t \in OP!Tick, NEW r \in Request, Passes(t, r)
        PROVE  o \in OP!Published' => o \in OP!Published \/ topic'[o] > 0
    <3>1. log \in Seq(Request) /\ topic \in [Request -> Nat]
      BY <1>1 DEF OP!SentInv, OP!TypeOK, WP!TypeInv, WP!TypeOK
    <3>2. OP!Published' = OP!Published \union {r}
      BY <2>2, <3>1, OP!PublishedAfterAppend, PartAssumptions DEF Passes
    <3>3. topic'[r] > 0
      BY <2>2, <3>1 DEF Passes, WP!Publish
    <3> QED
      BY <3>2, <3>3
  <2> QED
    BY <1>1, <2>1, <2>2, StepCases, ApiWorks, RelayWorks, HandlesWork
       DEF OP!Insert, relay, vars
<1>5. PICK sent : sent = OP!Published'
  OBVIOUS
<1>6. WP!Accounted(o, sent)'
  BY <1>1, <1>4, <1>5, WP!TraceStep, PartAssumptions
<1> QED
  BY <1>5, <1>6 DEF WP!Accounted, WP!Traced

LEMMA Always == Spec => []IInv
<1>1. IInv /\ [Next]_vars => IInv'
  BY PartsStep, OrderedStep, HandedOverStep, AllAccountedStep DEF IInv
<1> QED
  BY <1>1, Start, PTL DEF Spec

\* Composed, the programs are still the ones of Outbox and OrderWorker: what
\* createOrder writes and Kafka carries are steps that those modules allow, so
\* that every safety theorem about them holds of the release.
THEOREM PartsKeepTheirSpecs == Spec => OP!Spec /\ WP!Spec
<1>1. Init => OP!Init /\ WP!Init
  BY DEF Init, O!Init, OP!Init, O!IdleTick, OP!IdleTick, O!Tick, OP!Tick,
         W!Init, WP!Init, W!Idle, WP!Idle
<1>2. IInv /\ [Next]_vars => [OP!Next]_(OP!vars) /\ [WP!Next]_(WP!vars)
  BY StepOfRelay, StepOfWork DEF IInv, WorkInv
<1> QED
  BY <1>1, <1>2, Always, PTL DEF Spec, OP!Spec, WP!Spec

\* Between the API, the outbox worker and the order worker an order waits in
\* the outbox or on the topic, a handler has it, or its row or a dead letter
\* tells what became of it, whatever fails, expires or is repeated: it is lost
\* only if a worker past the claim died with it or markFailed threw.
THEOREM LossesHaveCauses == Spec => []LossHasCause
<1>1. ASSUME IInv, NEW o \in orders \ Malformed
      PROVE  InFlight(o) \/ Outcome(o) \/ o \in silenced
  <2>1. /\ o \in Request /\ outbox[o].present
        /\ outbox[o].sent => o \in OP!Published
        /\ WP!Accounted(o, OP!Published)
    BY <1>1 DEF IInv, RelayInv, OP!SentInv, OP!SentIsPublished, Ordered, AllAccounted
  <2>2. o \in OP!Published => topic[o] > 0 \/ WP!Handlers(o) # {} \/ WP!Traced(o)
    BY <2>1 DEF WP!Accounted
  <2> QED
    BY <2>1, <2>2 DEF InFlight, Outcome, WP!Traced, W!Handlers, WP!Handlers
<1>2. IInv => LossHasCause
  BY <1>1 DEF LossHasCause
<1> QED
  BY <1>2, Always, PTL

\* The UNIQUE column and the Redis key together: two requests with one
\* idempotency key have one order, and it is processed once for each time its
\* key is taken, so once within ten minutes.
THEOREM KeysHaveOneEffect == Spec => []OneEffectPerIdempotencyKey
<1>1. ASSUME IInv, NEW r \in Request
      PROVE  /\ Cardinality(SameKey(r)) <= 1
             /\ processed[r] <= IF r \in orders THEN 1 + expiries[r] + resends[r] ELSE 0
  <2>1. Ordered /\ HandedOver /\ WP!TypeInv /\ WP!KeyInv
    BY <1>1 DEF IInv, WorkInv
  <2>2. Cardinality(SameKey(r)) <= 1
    <3>1. CASE SameKey(r) = {}
      BY <3>1, FS_EmptySet
    <3>2. CASE SameKey(r) # {}
      <4>1. PICK o : SameKey(r) = {o}
        BY <2>1, <3>2 DEF SameKey, Ordered
      <4> QED
        BY <4>1, FS_Singleton
    <3> QED
      BY <3>1, <3>2
  <2>3. processed[r] <= 1 + expiries[r] + resends[r] /\ processed[r] \in Nat
    BY <2>1, WP!KeyBoundsEffects, PartAssumptions
       DEF WP!OneEffectPerKey, WP!TypeInv, WP!TypeOK
  <2>4. r \notin orders => processed[r] = 0
    BY <2>1, <2>3 DEF HandedOver, Touched
  <2> QED
    BY <2>2, <2>3, <2>4
<1>2. IInv => OneEffectPerIdempotencyKey
  BY <1>1 DEF OneEffectPerIdempotencyKey
<1> QED
  BY <1>2, Always, PTL

-----------------------------------------------------------------------------
(* The pipeline is an outbox whose deliveries are effects. *)

Effects == {o \in Request : processed[o] > 0}
Told    == {o \in Request : rows[o].processedAt}

\* A handler's step is one delivery, one settlement or neither.
LEMMA MoveDelivers ==
    ASSUME IInv, NEW w \in Worker, WP!Moves(w), orders' = orders
    PROVE  [EndToEnd!Next]_(EndToEnd!vars)
<1> DEFINE o == handlers[w].ord
<1>1. /\ WP!TypeInv /\ WP!AnnouncedInv /\ HandedOver
      /\ rows \in [Request -> WP!Row] /\ processed \in [Request -> Nat]
  BY DEF IInv, WorkInv, WP!TypeInv, WP!TypeOK
<1>2. o \in Request /\ o \in orders
  <2>1. o \in Request
    BY <1>1, WP!HandlerMoves, PartAssumptions
  <2> QED
    BY <1>1, <2>1 DEF HandedOver, Touched, WP!Handlers
<1>3. \/ /\ rows' = rows
         /\ processed' = processed \/ processed' = [processed EXCEPT ![o] = @ + 1]
      \/ /\ processed' = processed
         /\ rows' = [rows EXCEPT ![o] = WP!Failed(@)]
      \/ /\ processed' = processed /\ handlers[w].pc = "mark"
         /\ rows' = [rows EXCEPT ![o] = WP!Marked(@)]
  BY DEF WP!Moves, WP!HandlerStep, WP!SendAgain, WP!HandlerFault, WP!Crash, WP!Acquire,
         WP!SkipDuplicate, WP!SendProcessed, WP!MarkProcessed, WP!MarkFailed, WP!PublishDlq,
         WP!AcquireThrows, WP!SendThrows, WP!MarkProcessedThrows, WP!MarkFailedThrows,
         WP!PublishDlqThrows
<1>4. handlers[w].pc = "mark" => o \in Effects
  BY <1>1, <1>2 DEF WP!AnnouncedInv, Effects
<1> HIDE DEF o
<1>5. ASSUME Effects' \in {Effects, Effects \union {o}}, Told' = Told
      PROVE  [EndToEnd!Next]_(EndToEnd!vars)
  BY <1>2, <1>5 DEF EndToEnd!Next, EndToEnd!Deliver, EndToEnd!vars, Effects, Told
<1>6. ASSUME Effects' = Effects, Told' \in {Told, Told \union {o}},
             Told' # Told => o \in Effects
      PROVE  [EndToEnd!Next]_(EndToEnd!vars)
  BY <1>2, <1>6 DEF EndToEnd!Next, EndToEnd!Settle, EndToEnd!vars, Effects, Told
<1>7. CASE /\ rows' = rows
           /\ processed' = processed \/ processed' = [processed EXCEPT ![o] = @ + 1]
  <2>1. Effects' \in {Effects, Effects \union {o}}
    BY <1>1, <1>2, <1>7 DEF Effects
  <2> QED
    BY <1>5, <1>7, <2>1 DEF Told
<1>8. CASE processed' = processed /\ rows' = [rows EXCEPT ![o] = WP!Failed(@)]
  <2>1. \A p \in Request : rows'[p].processedAt = rows[p].processedAt
    BY <1>1, <1>2, <1>8 DEF WP!Failed, WP!Row
  <2> QED
    BY <1>5, <1>8, <2>1 DEF Told, Effects
<1>9. CASE /\ processed' = processed /\ handlers[w].pc = "mark"
           /\ rows' = [rows EXCEPT ![o] = WP!Marked(@)]
  <2>1. /\ \A p \in Request \ {o} : rows'[p] = rows[p]
        /\ rows'[o].processedAt \/ rows'[o] = rows[o]
    BY <1>1, <1>2, <1>9 DEF WP!Marked
  <2>2. rows[o].processedAt => rows'[o].processedAt
    BY <1>1, <1>2, <1>9 DEF WP!Marked
  <2>3. Told' \in {Told, Told \union {o}}
    BY <1>2, <2>1, <2>2 DEF Told
  <2> QED
    BY <1>4, <1>6, <1>9, <2>3 DEF Effects
<1> QED
  BY <1>3, <1>7, <1>8, <1>9

LEMMA EndToEndStep == IInv /\ [Next]_vars => [EndToEnd!Next]_(EndToEnd!vars)
<1> SUFFICES ASSUME IInv, [Next]_vars PROVE [EndToEnd!Next]_(EndToEnd!vars)
  OBVIOUS
<1>1. WP!TypeInv /\ orders \subseteq Request
  BY DEF IInv, WorkInv, Ordered
<1>2. UNCHANGED <<orders, rows, processed>> => UNCHANGED EndToEnd!vars
  BY DEF EndToEnd!vars
<1>3. ASSUME NEW r \in Request, ApiStep(r) PROVE [EndToEnd!Next]_(EndToEnd!vars)
  <2>1. SameKey(r) = {} => r \notin orders
    BY DEF SameKey
  <2>2. ASSUME orders' = orders \union {r}, r \notin orders, UNCHANGED work
        PROVE  EndToEnd!Next
    BY <2>2 DEF EndToEnd!Next, EndToEnd!Record, work
  <2> QED
    BY <1>2, <1>3, <2>1, <2>2, ApiWorks DEF work
<1>4. ASSUME Relays PROVE UNCHANGED <<orders, rows, processed>>
  BY <1>4, RelayWorks DEF Passes, WP!Publish, work, api
<1>5. ASSUME Handles PROVE [EndToEnd!Next]_(EndToEnd!vars)
  BY <1>1, <1>2, <1>5, HandlesWork, MoveDelivers
     DEF Repeats, WP!Publish, WP!KeyExpires, WP!Receive, api
<1>7. CASE UNCHANGED vars
  BY <1>2, <1>7 DEF vars, api, work
<1> QED
  BY <1>2, <1>3, <1>4, <1>5, <1>7, StepCases

\* End to end the pipeline keeps the outbox's promise: orders.processed names
\* committed orders only, and a row says so only after it did.
THEOREM PipelineDelivers == Spec => EndToEndSpec
<1>1. Init => EndToEnd!Init
  BY DEF Init, W!Init, EndToEnd!Init
<1> QED
  BY <1>1, EndToEndStep, Always, PTL DEF Spec, EndToEndSpec, EndToEnd!Spec
=============================================================================
