------------------------------- MODULE Outbox -------------------------------
(***************************************************************************)
(* The outbox worker: OutboxPublisher.tick over the outbox_events table.   *)
(*                                                                         *)
(* Each replica starts a tick every second without waiting for the         *)
(* previous one, so one process may run several ticks at a time.  A tick   *)
(* claims a batch of rows, sends each row to Kafka and then marks it.  The *)
(* statement that claims locks the rows it picks until it commits or fails,*)
(* and skips the rows that others have locked.  The claim it leaves is     *)
(* a timestamp that other ticks ignore once it is 30 seconds old, whether  *)
(* its tick is still running or not.                                       *)
(*                                                                         *)
(* An event is its rank in created_at order, so that "ORDER BY created_at  *)
(* LIMIT n" is the n smallest.                                             *)
(***************************************************************************)
EXTENDS Integers, Sequences, FiniteSets

CONSTANTS Event,        \* outbox rows, numbered by created_at
          Earlier,      \* Event -> events of its topic and partition_key that
                        \* were committed before its own transaction began
          Process,      \* replicas of the outbox worker
          Slot,         \* ticks one replica may have in flight
          BatchLimit,   \* rows of one claim (50 in the code)
          MaxAttempts,  \* outbox_events.max_attempts (20 in the schema)
          MaxCrashes,   \* bound: crashes of replicas
          MaxDbErrors,  \* bound: statements of a tick that throw
          MaxEarly,     \* bound: claims that expire under a running tick
          MaxResends    \* bound: records of one event written by kafkajs's own retry

ASSUME EventAssumption == /\ Event \subseteq Nat /\ IsFiniteSet(Event)
                          /\ \A e \in Event : Earlier[e] \subseteq {f \in Event : f < e}
ASSUME TickAssumption  == IsFiniteSet(Process) /\ IsFiniteSet(Slot)
ASSUME BoundAssumption == /\ BatchLimit \in Nat \ {0}
                          /\ MaxAttempts \in Nat \ {0}
                          /\ {MaxCrashes, MaxDbErrors, MaxEarly, MaxResends} \subseteq Nat

Tick == Process \X Slot

VARIABLES rows,     \* outbox_events: Event -> row
          ticks,    \* Tick -> [pc, batch, cur]
          log,      \* what Kafka holds, oldest first
          crashes, dbErrors,  \* counts of the bounded faults
          expiries, \* Event -> [early, late]: claims on it that expired
          resends   \* Event -> records written by a retry inside one send

vars == <<rows, ticks, log, crashes, dbErrors, expiries, resends>>
counts == <<crashes, dbErrors, expiries, resends>>

\* A row is "absent" until its transaction commits.  claim is locked_at seen
\* through the 30 second test: null, younger, or older.  due is
\* next_attempt_at <= now().
Row == [sent : BOOLEAN, present : BOOLEAN, due : BOOLEAN,
        claim : {"none", "fresh", "stale"}, attempts : Nat]

\* batch holds the rows that the tick's claim is locking ("claim"), or has
\* claimed and the tick has not finished, the current one (cur) included.
TickState == [pc : {"idle", "claim", "send", "mark", "fail"}, batch : SUBSET Event,
              cur : Event \union {-1}]

IdleTick == [pc |-> "idle", batch |-> {}, cur |-> -1]

Copies(e) == Cardinality({i \in DOMAIN log : log[i] = e})
Published == {log[i] : i \in DOMAIN log}
Holders(e) == {t \in Tick : ticks[t].pc # "claim" /\ e \in ticks[t].batch}

\* A claim that has not committed holds the row's lock.
Locked(e) == \E t \in Tick : ticks[t].pc = "claim" /\ e \in ticks[t].batch
\* A mark of the row is on its way and may hold its lock.
Marked(e) == \E t \in Tick : ticks[t].pc \in {"mark", "fail"} /\ ticks[t].cur = e

Init == /\ rows = [e \in Event |-> [sent |-> FALSE, present |-> FALSE, due |-> TRUE,
                                    claim |-> "none", attempts |-> 0]]
        /\ ticks = [t \in Tick |-> IdleTick]
        /\ log = <<>>
        /\ crashes = 0 /\ dbErrors = 0
        /\ expiries = [e \in Event |-> [early |-> 0, late |-> 0]]
        /\ resends = [e \in Event |-> 0]

-----------------------------------------------------------------------------
\* The writer of the outbox: a transaction of the API or of the worker
\* commits the row.  created_at is the start of that transaction, so rows
\* may become visible in another order than their rank.
Insert(e) == /\ ~rows[e].present
             /\ \A f \in Earlier[e] : rows[f].present
             /\ rows' = [rows EXCEPT ![e].present = TRUE]
             /\ UNCHANGED <<ticks, log, counts>>

\* Mutants of Eligible: a clause of the WHERE of fetchPending is dropped, or
\* only rows that were never claimed are read.
MutantEligibleSent(e) == /\ rows[e].present /\ rows[e].claim # "fresh" /\ rows[e].due
                         /\ rows[e].attempts < MaxAttempts
MutantEligibleExhausted(e) == /\ rows[e].present /\ ~rows[e].sent
                              /\ rows[e].claim # "fresh" /\ rows[e].due
MutantEligibleUnclaimed(e) == /\ rows[e].present /\ ~rows[e].sent /\ rows[e].due
                              /\ rows[e].claim = "none"
                              /\ rows[e].attempts < MaxAttempts

Eligible(e) == /\ rows[e].present
               /\ ~rows[e].sent
               /\ rows[e].claim # "fresh"
               /\ rows[e].due
               /\ rows[e].attempts < MaxAttempts

\* Mutant: the SELECT of the claim does not lock what it reads.
MutantFree(e) == Eligible(e)

\* The rows that a claim can have now.
Free(e) == Eligible(e) /\ ~Locked(e)

\* The first rows of S in created_at order.
FirstOf(S) == {e \in S : Cardinality({f \in S : f < e}) < BatchLimit}

\* Mutant: the rows are marked as sent when they are claimed.
MutantClaim(S) == [e \in Event |-> IF e \in S THEN [rows[e] EXCEPT !.sent = TRUE]
                                              ELSE rows[e]]

\* The table after a claim of the rows S.
Claim(S) == [e \in Event |-> IF e \in S THEN [rows[e] EXCEPT !.claim = "fresh"]
                                        ELSE rows[e]]

\* The claim's SELECT ... ORDER BY created_at LIMIT n FOR UPDATE SKIP LOCKED:
\* it locks the first rows it may claim and passes over those that another
\* statement has locked, a claim or a mark.  A tick that finds nothing ends
\* without a trace.
SelectPending(t) ==
    /\ ticks[t].pc = "idle"
    /\ \E skipped \in SUBSET {e \in Event : Marked(e)} :
          LET picked == FirstOf({e \in Event \ skipped : Free(e)})
          IN  /\ picked # {}
              /\ ticks' = [ticks EXCEPT ![t] = [pc |-> "claim", batch |-> picked,
                                                cur |-> -1]]
    /\ UNCHANGED <<rows, log, counts>>

\* The UPDATE of the locked rows commits and returns them.
FetchPending(t) ==
    /\ ticks[t].pc = "claim"
    /\ rows' = Claim(ticks[t].batch)
    /\ ticks' = [ticks EXCEPT ![t].pc = "send"]
    /\ UNCHANGED <<log, counts>>

\* The statement fails and is rolled back, or it commits and its answer is
\* lost: the tick ends, and in the second case no tick knows of the claim.
FetchPendingThrows(t) ==
    /\ ticks[t].pc = "claim"
    /\ dbErrors < MaxDbErrors
    /\ dbErrors' = dbErrors + 1
    /\ rows' \in {rows, Claim(ticks[t].batch)}
    /\ ticks' = [ticks EXCEPT ![t] = IdleTick]
    /\ UNCHANGED <<log, crashes, expiries, resends>>

\* The next row is any of the batch (UPDATE ... RETURNING promises no order),
\* or the one whose send is going on.
Sending(t, e) == /\ ticks[t].pc = "send" /\ e \in ticks[t].batch
                 /\ ticks[t].cur \in {-1, e}

\* producer.send of the next row.
SendOk(t, e) ==
    /\ Sending(t, e)
    /\ log' = Append(log, e)
    /\ ticks' = [ticks EXCEPT ![t].pc = "mark", ![t].cur = e]
    /\ UNCHANGED <<rows, counts>>

\* The send is rejected: the broker did not take the record, or it took it
\* and its acknowledgement was lost.
SendRejected(t, e) ==
    /\ Sending(t, e)
    /\ log' \in {log, Append(log, e)}
    /\ ticks' = [ticks EXCEPT ![t].pc = "fail", ![t].cur = e]
    /\ UNCHANGED <<rows, counts>>

\* Within one send kafkajs repeats a produce request whose acknowledgement it
\* missed.  The producer is not idempotent, so the broker writes the record
\* once more.
SendAgain(t, e) ==
    /\ Sending(t, e)
    /\ resends[e] < MaxResends
    /\ resends' = [resends EXCEPT ![e] = @ + 1]
    /\ log' = Append(log, e)
    /\ ticks' = [ticks EXCEPT ![t].cur = e]
    /\ UNCHANGED <<rows, crashes, dbErrors, expiries>>

\* The rest of the batch, after the current row.
Advance(t) ==
    LET rest == ticks[t].batch \ {ticks[t].cur}
    IN  [pc |-> IF rest = {} THEN "idle" ELSE "send", batch |-> rest, cur |-> -1]

\* Mutant: markPublished releases the claim but does not set sent_at.
MutantSettled(r) == [r EXCEPT !.claim = "none"]

\* The row as markPublished leaves it.
Settled(r) == [r EXCEPT !.sent = TRUE, !.claim = "none"]

\* The row is addressed by id alone: no test that the claim is still ours.
\* The statement waits for a claim that has the row locked.
MarkPublished(t) ==
    /\ ticks[t].pc = "mark" /\ ~Locked(ticks[t].cur)
    /\ rows' = [rows EXCEPT ![ticks[t].cur] = Settled(@)]
    /\ ticks' = [ticks EXCEPT ![t] = Advance(t)]
    /\ UNCHANGED <<log, counts>>

\* markPublished throws after Kafka took the record, and before or after its
\* statement took effect: the catch block counts a failed attempt.
MarkPublishedThrows(t) ==
    /\ ticks[t].pc = "mark" /\ ~Locked(ticks[t].cur)
    /\ dbErrors < MaxDbErrors
    /\ dbErrors' = dbErrors + 1
    /\ rows' \in {rows, [rows EXCEPT ![ticks[t].cur] = Settled(@)]}
    /\ ticks' = [ticks EXCEPT ![t].pc = "fail"]
    /\ UNCHANGED <<log, crashes, expiries, resends>>

\* Mutant: attempts counts down.
MutantRetried(r) == [r EXCEPT !.attempts = @ - 1, !.claim = "none", !.due = FALSE]

\* The row as markFailed leaves it.
Retried(r) == [r EXCEPT !.attempts = @ + 1, !.claim = "none", !.due = FALSE]

\* Again by id alone: it releases whatever claim the row has by now, and it
\* counts an attempt on a row that another tick may have marked as sent.
MarkFailed(t) ==
    /\ ticks[t].pc = "fail" /\ ~Locked(ticks[t].cur)
    /\ rows' = [rows EXCEPT ![ticks[t].cur] = Retried(@)]
    /\ ticks' = [ticks EXCEPT ![t] = Advance(t)]
    /\ UNCHANGED <<log, counts>>

\* markFailed throws out of the catch block, before or after its statement
\* took effect: the tick ends, and the claims on the rest of its batch stay
\* until they are 30 seconds old.
MarkFailedThrows(t) ==
    /\ ticks[t].pc = "fail" /\ ~Locked(ticks[t].cur)
    /\ dbErrors < MaxDbErrors
    /\ dbErrors' = dbErrors + 1
    /\ rows' \in {rows, [rows EXCEPT ![ticks[t].cur] = Retried(@)]}
    /\ ticks' = [ticks EXCEPT ![t] = IdleTick]
    /\ UNCHANGED <<log, crashes, expiries, resends>>

-----------------------------------------------------------------------------
\* A replica dies with all its ticks, and is restarted.  A claim that has not
\* committed is rolled back.
Crash(p) ==
    /\ crashes < MaxCrashes
    /\ \E s \in Slot : ticks[<<p, s>>].pc # "idle"
    /\ crashes' = crashes + 1
    /\ ticks' = [t \in Tick |-> IF t[1] = p THEN IdleTick ELSE ticks[t]]
    /\ UNCHANGED <<rows, log, dbErrors, expiries, resends>>

\* 30 seconds pass over a claim.  Under a running tick (a slow broker, a
\* batch of 50 sequential sends) it is early, and bounded; otherwise the
\* claim was left behind.
ClaimExpires(e) ==
    /\ rows[e].claim = "fresh"
    /\ \/ /\ Holders(e) = {}
          /\ expiries' = [expiries EXCEPT ![e].late = @ + 1]
       \/ /\ Holders(e) # {}
          /\ expiries[e].early < MaxEarly
          /\ expiries' = [expiries EXCEPT ![e].early = @ + 1]
    /\ rows' = [rows EXCEPT ![e].claim = "stale"]
    /\ UNCHANGED <<ticks, log, crashes, dbErrors, resends>>

\* The backoff of the last failure passes.
BecomesDue(e) ==
    /\ ~rows[e].due
    /\ rows' = [rows EXCEPT ![e].due = TRUE]
    /\ UNCHANGED <<ticks, log, counts>>

TickStep(t) == \/ SelectPending(t) \/ FetchPending(t)
               \/ \E e \in Event : SendOk(t, e) \/ SendRejected(t, e)
               \/ MarkPublished(t) \/ MarkFailed(t)

TickThrows(t) == FetchPendingThrows(t) \/ MarkPublishedThrows(t) \/ MarkFailedThrows(t)

Next == \/ \E e \in Event : Insert(e) \/ ClaimExpires(e) \/ BecomesDue(e)
        \/ \E t \in Tick : \/ TickStep(t) \/ TickThrows(t)
                           \/ \E e \in Event : SendAgain(t, e)
        \/ \E p \in Process : Crash(p)

Spec == Init /\ [][Next]_vars

\* setInterval keeps starting ticks and a started tick runs to its end;
\* time passes.  Nothing obliges Kafka to accept, a replica to crash or a
\* statement to fail.
FairSpec == /\ Spec
            /\ \A t \in Tick : WF_vars(TickStep(t))
            /\ \A e \in Event : WF_vars(ClaimExpires(e)) /\ WF_vars(BecomesDue(e))

-----------------------------------------------------------------------------
\* Type invariant.
TypeOK == /\ rows \in [Event -> Row]
          /\ ticks \in [Tick -> TickState]
          /\ log \in Seq(Event)
          /\ crashes \in Nat /\ dbErrors \in Nat
          /\ expiries \in [Event -> [early : Nat, late : Nat]]
          /\ resends \in [Event -> Nat]

\* At least once: a row marked as sent, which no tick will ever read again,
\* is in Kafka (tick awaits producer.send before markPublished).
SentIsPublished == \A e \in Event : rows[e].sent => e \in Published

\* The claim of fetchPending excludes: beyond one tick per row, every tick
\* that works on it is due to a claim that turned 30 seconds old under a
\* running tick.  With ticks faster than that, a row has one owner.
ClaimsExclude == \A e \in Event : Cardinality(Holders(e)) <= 1 + expiries[e].early

\* Duplicates have causes: every copy of an event beyond the first is paid
\* for by a failed attempt, by an expired claim or by a retry inside a send.
CopiesAreAccounted ==
    \A e \in Event :
        Copies(e) <= 1 + rows[e].attempts + expiries[e].early + expiries[e].late
                       + resends[e]

\* max_attempts is read by the claim but not by markFailed: several ticks on
\* one row may overrun it, by less than the number of ticks.
AttemptsBounded ==
    \A e \in Event : rows[e].attempts < MaxAttempts + Cardinality(Tick)

\* No tick reads the row again although it is not sent.
Stranded(e) == rows[e].present /\ ~rows[e].sent /\ rows[e].attempts >= MaxAttempts

\* Under fair scheduling every recorded event is marked as sent or exhausts
\* its attempts, whatever crashes, throws and slow ticks happen.
EventuallySettled ==
    \A e \in Event : rows[e].present ~> (rows[e].sent \/ Stranded(e))

\* The documented ordering per entity: an event reaches Kafka only after the
\* events of its topic and key that were committed before it was written.
PartitionOrdered ==
    [][\A f \in Event : log' = Append(log, f) => Earlier[f] \subseteq Published]_vars

\* No step takes a row back: once marked as sent it stays sent and is never
\* claimed again, though late ticks still count failures on it.
SettledStaysSettled ==
    [][\A e \in Event : rows[e].sent => /\ rows'[e].sent
                                        /\ rows'[e].claim = "none"]_vars

\* The outbox implements at-least-once delivery.
Delivery == INSTANCE OutboxDelivery
                WITH recorded  <- {e \in Event : rows[e].present},
                     delivered <- Published,
                     settled   <- {e \in Event : rows[e].sent}
DeliverySpec == Delivery!Spec
=============================================================================
