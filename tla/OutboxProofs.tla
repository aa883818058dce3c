---------------------------- MODULE OutboxProofs ----------------------------
(***************************************************************************)
(* Theorems about the outbox worker, for every number of events, replicas, *)
(* overlapping ticks, crashes, errors and expired claims.                  *)
(*                                                                         *)
(* The type invariant needs Working, which says that the current row of a  *)
(* tick is one of its batch, and that a tick about to mark a row as sent   *)
(* has sent it.  From the two follow that a sent row is in Kafka and that  *)
(* the outbox implements at-least-once delivery.  Picking says what the    *)
(* row locks of a claim are good for: between its SELECT and its COMMIT    *)
(* nobody else claims or marks the rows.  The last part counts the         *)
(* holders, the attempts and the copies of a row.                          *)
(***************************************************************************)
EXTENDS Outbox, FiniteSetTheorems, TLAPS

\* What a tick knows of the rows it works on.
Working ==
    \A t \in Tick :
        /\ \A e \in ticks[t].batch : rows[e].present
        /\ ticks[t].pc \in {"mark", "fail"} => ticks[t].cur \in ticks[t].batch
        /\ ticks[t].pc = "mark" => ticks[t].cur \in Published

\* A row that a claim has locked can still be claimed, and no other claim
\* has it.
Picking ==
    \A t \in Tick : ticks[t].pc = "claim" =>
        \A e \in ticks[t].batch :
            /\ Eligible(e)
            /\ \A u \in Tick : ticks[u].pc = "claim" /\ e \in ticks[u].batch => u = t

SentInv == TypeOK /\ Working /\ SentIsPublished /\ Picking

-----------------------------------------------------------------------------
\* Appending to the log publishes exactly one more event.
LEMMA PublishedAfterAppend ==
    ASSUME NEW e \in Event, log \in Seq(Event), log' = Append(log, e)
    PROVE  /\ log' \in Seq(Event)
           /\ Published' = Published \union {e}
<1>1. /\ log' \in Seq(Event)
      /\ DOMAIN log = 1..Len(log) /\ DOMAIN log' = 1..(Len(log) + 1)
      /\ \A i \in 1..Len(log) : log'[i] = log[i]
      /\ log'[Len(log) + 1] = e
      /\ Len(log) \in Nat
    OBVIOUS
<1>2. Published' \subseteq Published \union {e}
    BY <1>1 DEF Published
<1>3. Published \union {e} \subseteq Published'
    BY <1>1 DEF Published
<1> QED
    BY <1>1, <1>2, <1>3

\* A send, accepted or rejected, leaves the log well formed and loses nothing.
LEMMA LogGrows ==
    ASSUME NEW e \in Event, log \in Seq(Event),
           log' \in {log, Append(log, e)}
    PROVE  /\ log' \in Seq(Event)
           /\ Published \subseteq Published'
<1>1. CASE log' = log
    BY <1>1 DEF Published
<1>2. CASE log' = Append(log, e)
    BY <1>2, PublishedAfterAppend
<1> QED
    BY <1>1, <1>2

LEMMA SentInvInit == Init => SentInv
<1> SUFFICES ASSUME Init PROVE SentInv
    OBVIOUS
<1>1. TypeOK
    BY DEF Init, TypeOK, Row, TickState, IdleTick
<1>2. Working
    BY DEF Init, Working, IdleTick
<1>3. SentIsPublished
    BY DEF Init, SentIsPublished
<1>4. Picking
    BY DEF Init, Picking, IdleTick
<1> QED
    BY <1>1, <1>2, <1>3, <1>4 DEF SentInv

\* The statements of the tick keep the table well typed, never hide a row
\* and mark nothing but the row they are given.
LEMMA ClaimTable ==
    ASSUME TypeOK, NEW S \in SUBSET Event
    PROVE  /\ Claim(S) \in [Event -> Row]
           /\ \A e \in Event : /\ Claim(S)[e].present = rows[e].present
                               /\ Claim(S)[e].sent = rows[e].sent
                               /\ Claim(S)[e].attempts = rows[e].attempts
                               /\ e \in S => Claim(S)[e].claim = "fresh"
                               /\ e \notin S => Claim(S)[e] = rows[e]
    BY DEF TypeOK, Row, Claim

LEMMA SettledTable ==
    ASSUME TypeOK, NEW c \in Event, rows' = [rows EXCEPT ![c] = Settled(rows[c])]
    PROVE  /\ rows' \in [Event -> Row]
           /\ \A e \in Event \ {c} : rows'[e] = rows[e]
           /\ rows'[c].present = rows[c].present /\ rows'[c].sent
           /\ rows'[c].claim = "none" /\ rows'[c].attempts = rows[c].attempts
    BY DEF TypeOK, Row, Settled

LEMMA RetriedTable ==
    ASSUME TypeOK, NEW c \in Event, rows' = [rows EXCEPT ![c] = Retried(rows[c])]
    PROVE  /\ rows' \in [Event -> Row]
           /\ \A e \in Event \ {c} : rows'[e] = rows[e]
           /\ rows'[c].present = rows[c].present /\ rows'[c].sent = rows[c].sent
           /\ rows'[c].claim = "none" /\ rows'[c].attempts = rows[c].attempts + 1
<1>1. /\ rows \in [Event -> Row] /\ rows[c] \in Row
      /\ rows[c].attempts + 1 \in Nat
    BY DEF TypeOK, Row
<1>2. /\ Retried(rows[c]) \in Row
      /\ Retried(rows[c]).present = rows[c].present
      /\ Retried(rows[c]).sent = rows[c].sent
      /\ Retried(rows[c]).claim = "none"
      /\ Retried(rows[c]).attempts = rows[c].attempts + 1
    BY <1>1 DEF Row, Retried
<1> QED
    BY <1>1, <1>2

\* Either statement, whether it took effect or not.
LEMMA MarkedTable ==
    ASSUME TypeOK, NEW c \in Event,
           rows' \in {rows, [rows EXCEPT ![c] = Settled(rows[c])],
                            [rows EXCEPT ![c] = Retried(rows[c])]}
    PROVE  /\ rows' \in [Event -> Row]
           /\ \A e \in Event : rows'[e].present = rows[e].present
           /\ \A e \in Event \ {c} : rows'[e] = rows[e]
<1>1. CASE rows' = rows
    BY <1>1 DEF TypeOK
<1>2. CASE rows' = [rows EXCEPT ![c] = Settled(rows[c])]
    BY <1>2, SettledTable
<1>3. CASE rows' = [rows EXCEPT ![c] = Retried(rows[c])]
    BY <1>3, RetriedTable
<1> QED
    BY <1>1, <1>2, <1>3

\* Moving to the next row of the batch keeps a tick well formed.
LEMMA AdvanceType ==
    ASSUME TypeOK, NEW t \in Tick
    PROVE  /\ Advance(t) \in TickState
           /\ Advance(t).batch = ticks[t].batch \ {ticks[t].cur}
           /\ Advance(t).pc \notin {"claim", "mark", "fail"}
<1>1. ticks[t] \in TickState
    BY DEF TypeOK
<1> QED
    BY <1>1 DEF Advance, TickState

-----------------------------------------------------------------------------
\* The facts of SentInv before the locks are looked at.
Sound == TypeOK /\ Working /\ SentIsPublished

\* Every step keeps them.
LEMMA SoundStep == SentInv /\ [Next]_vars => Sound'
<1> SUFFICES ASSUME SentInv, [Next]_vars PROVE Sound'
    OBVIOUS
<1>t. TypeOK /\ Working /\ SentIsPublished /\ Picking
    BY DEF SentInv
<1>d. /\ rows \in [Event -> Row] /\ ticks \in [Tick -> TickState]
      /\ log \in Seq(Event) /\ crashes \in Nat /\ dbErrors \in Nat
      /\ expiries \in [Event -> [early : Nat, late : Nat]]
      /\ resends \in [Event -> Nat]
    BY <1>t DEF TypeOK
<1>1. ASSUME NEW e \in Event, Insert(e) PROVE Sound'
  <2>1. TypeOK'
      BY <1>1, <1>d DEF Insert, counts, TypeOK, Row
  <2>2. Working'
      BY <1>1, <1>t, <1>d DEF Insert, Working, Published, Row, TickState
  <2>3. SentIsPublished'
      BY <1>1, <1>t, <1>d DEF Insert, SentIsPublished, Published, Row
  <2> QED
      BY <2>1, <2>2, <2>3 DEF Sound
<1>2. ASSUME NEW e \in Event, ClaimExpires(e) PROVE Sound'
  <2>1. TypeOK'
    <3>1. rows' \in [Event -> Row]
        BY <1>2, <1>d DEF ClaimExpires, Row
    <3>2. expiries' \in [Event -> [early : Nat, late : Nat]]
      <4>1. expiries[e].early + 1 \in Nat /\ expiries[e].late + 1 \in Nat
          BY <1>d
      <4> QED
          BY <1>2, <1>d, <4>1 DEF ClaimExpires
    <3> QED
        BY <1>2, <1>d, <3>1, <3>2 DEF ClaimExpires, TypeOK
  <2>2. Working'
      BY <1>2, <1>t, <1>d DEF ClaimExpires, Working, Published, Row, TickState
  <2>3. SentIsPublished'
      BY <1>2, <1>t, <1>d DEF ClaimExpires, SentIsPublished, Published, Row
  <2> QED
      BY <2>1, <2>2, <2>3 DEF Sound
<1>3. ASSUME NEW e \in Event, BecomesDue(e) PROVE Sound'
  <2>1. TypeOK'
      BY <1>3, <1>d DEF BecomesDue, counts, TypeOK, Row
  <2>2. Working'
      BY <1>3, <1>t, <1>d DEF BecomesDue, Working, Published, Row, TickState
  <2>3. SentIsPublished'
      BY <1>3, <1>t, <1>d DEF BecomesDue, SentIsPublished, Published, Row
  <2> QED
      BY <2>1, <2>2, <2>3 DEF Sound
<1>4. ASSUME NEW t \in Tick, SelectPending(t) PROVE Sound'
  <2>0. PICK S \in SUBSET Event :
            /\ \A e \in S : rows[e].present
            /\ ticks' = [ticks EXCEPT ![t] = [pc |-> "claim", batch |-> S, cur |-> -1]]
      BY <1>4 DEF SelectPending, FirstOf, Free, Eligible
  <2>u. UNCHANGED <<rows, log, crashes, dbErrors, expiries, resends>>
      BY <1>4 DEF SelectPending, counts
  <2>1. TypeOK'
    <3>1. ticks' \in [Tick -> TickState]
        BY <1>d, <2>0 DEF TickState
    <3> QED
        BY <1>d, <2>u, <3>1 DEF TypeOK
  <2>2. Working'
      BY <1>t, <1>d, <2>0, <2>u DEF Working, Published, TickState
  <2>3. SentIsPublished'
      BY <1>t, <2>u DEF SentIsPublished, Published
  <2> QED
      BY <2>1, <2>2, <2>3 DEF Sound
<1>5. ASSUME NEW t \in Tick, FetchPending(t) \/ FetchPendingThrows(t) PROVE Sound'
  <2>0. PICK S \in SUBSET Event : S = ticks[t].batch
      BY <1>d DEF TickState
  <2>r. /\ rows' \in [Event -> Row]
        /\ \A e \in Event : rows'[e].present = rows[e].present /\ rows'[e].sent = rows[e].sent
    <3>1. rows' = Claim(S) \/ rows' = rows
        BY <1>5, <2>0 DEF FetchPending, FetchPendingThrows
    <3>2. CASE rows' = rows
        BY <1>d, <3>2
    <3>3. CASE rows' = Claim(S)
        BY <1>t, <3>3, ClaimTable
    <3> QED
        BY <3>1, <3>2, <3>3
  <2>k. /\ ticks' \in [Tick -> TickState]
        /\ \A u \in Tick \ {t} : ticks'[u] = ticks[u]
        /\ ticks'[t].batch \subseteq ticks[t].batch
        /\ ticks'[t].pc \in {"idle", "send"}
    <3>1. CASE FetchPending(t)
        BY <3>1, <1>d DEF FetchPending, TickState
    <3>2. CASE FetchPendingThrows(t)
        BY <3>2, <1>d DEF FetchPendingThrows, TickState, IdleTick
    <3> QED
        BY <1>5, <3>1, <3>2
  <2>l. log' = log /\ Published' = Published
      BY <1>5 DEF FetchPending, FetchPendingThrows, Published
  <2>1. TypeOK'
      BY <1>5, <1>d, <2>r, <2>k DEF FetchPending, FetchPendingThrows, counts, TypeOK
  <2>2. Working'
      BY <1>t, <1>d, <2>r, <2>k, <2>l DEF Working, TickState
  <2>3. SentIsPublished'
      BY <1>t, <2>r, <2>l DEF SentIsPublished
  <2> QED
      BY <2>1, <2>2, <2>3 DEF Sound
<1>6. ASSUME NEW t \in Tick, NEW e \in Event, SendOk(t, e) PROVE Sound'
  <2>0. log' \in Seq(Event) /\ Published' = Published \union {e}
      BY <1>6, <1>d, PublishedAfterAppend DEF SendOk
  <2>1. TypeOK'
      BY <1>6, <1>d, <2>0 DEF SendOk, Sending, counts, TypeOK, TickState
  <2>2. Working'
      BY <1>6, <1>t, <1>d, <2>0 DEF SendOk, Sending, Working, TickState
  <2>3. SentIsPublished'
      BY <1>6, <1>t, <2>0 DEF SendOk, Sending, SentIsPublished
  <2> QED
      BY <2>1, <2>2, <2>3 DEF Sound
<1>7. ASSUME NEW t \in Tick, NEW e \in Event, SendRejected(t, e) PROVE Sound'
  <2>0. log' \in Seq(Event) /\ Published \subseteq Published'
      BY <1>7, <1>d, LogGrows DEF SendRejected
  <2>1. TypeOK'
      BY <1>7, <1>d, <2>0 DEF SendRejected, Sending, counts, TypeOK, TickState
  <2>2. Working'
      BY <1>7, <1>t, <1>d, <2>0 DEF SendRejected, Sending, Working, TickState
  <2>3. SentIsPublished'
      BY <1>7, <1>t, <2>0 DEF SendRejected, Sending, SentIsPublished
  <2> QED
      BY <2>1, <2>2, <2>3 DEF Sound
<1>8. ASSUME NEW t \in Tick, MarkPublished(t) PROVE Sound'
  <2>0. ticks[t].cur \in Event /\ ticks[t].cur \in Published
      BY <1>8, <1>t, <1>d DEF MarkPublished, Working, TickState
  <2>r. /\ rows' \in [Event -> Row]
        /\ \A e \in Event : rows'[e].present = rows[e].present
        /\ \A e \in Event \ {ticks[t].cur} : rows'[e] = rows[e]
      BY <1>8, <1>t, <2>0, MarkedTable DEF MarkPublished
  <2>k. /\ ticks' \in [Tick -> TickState]
        /\ \A u \in Tick \ {t} : ticks'[u] = ticks[u]
        /\ ticks'[t].batch \subseteq ticks[t].batch
        /\ ticks'[t].pc # "mark"
        /\ ticks'[t].pc = "fail" => ticks'[t].cur \in ticks'[t].batch
      BY <1>8, <1>t, <1>d, AdvanceType DEF MarkPublished, Working, TickState
  <2>l. log' = log /\ Published' = Published
      BY <1>8 DEF MarkPublished, Published
  <2>1. TypeOK'
      BY <1>8, <1>d, <2>r, <2>k DEF MarkPublished, counts, TypeOK
  <2>2. Working'
      BY <1>t, <1>d, <2>r, <2>k, <2>l DEF Working, TickState
  <2>3. SentIsPublished'
      BY <1>t, <2>0, <2>r, <2>l DEF SentIsPublished
  <2> QED
      BY <2>1, <2>2, <2>3 DEF Sound
<1>9. ASSUME NEW t \in Tick, MarkFailed(t) PROVE Sound'
  <2>0. ticks[t].cur \in Event
      BY <1>9, <1>t, <1>d DEF MarkFailed, Working, TickState
  <2>r. /\ rows' \in [Event -> Row]
        /\ \A e \in Event : rows'[e].present = rows[e].present
        /\ \A e \in Event \ {ticks[t].cur} : rows'[e] = rows[e]
      BY <1>9, <1>t, <2>0, MarkedTable DEF MarkFailed
  <2>s. rows'[ticks[t].cur].sent = rows[ticks[t].cur].sent
      BY <1>9, <1>t, <2>0, RetriedTable DEF MarkFailed
  <2>k. /\ ticks' \in [Tick -> TickState]
        /\ \A u \in Tick \ {t} : ticks'[u] = ticks[u]
        /\ ticks'[t].batch \subseteq ticks[t].batch
        /\ ticks'[t].pc # "mark"
        /\ ticks'[t].pc = "fail" => ticks'[t].cur \in ticks'[t].batch
      BY <1>9, <1>t, <1>d, AdvanceType DEF MarkFailed, Working, TickState
  <2>l. log' = log /\ Published' = Published
      BY <1>9 DEF MarkFailed, Published
  <2>1. TypeOK'
      BY <1>9, <1>d, <2>r, <2>k DEF MarkFailed, counts, TypeOK
  <2>2. Working'
      BY <1>t, <1>d, <2>r, <2>k, <2>l DEF Working, TickState
  <2>3. SentIsPublished'
      BY <1>t, <2>0, <2>r, <2>s, <2>l DEF SentIsPublished
  <2> QED
      BY <2>1, <2>2, <2>3 DEF Sound
<1>10. ASSUME NEW t \in Tick, MarkPublishedThrows(t) PROVE Sound'
  <2>0. ticks[t].cur \in Event /\ ticks[t].cur \in Published
      BY <1>10, <1>t, <1>d DEF MarkPublishedThrows, Working, TickState
  <2>r. /\ rows' \in [Event -> Row]
        /\ \A e \in Event : rows'[e].present = rows[e].present
        /\ \A e \in Event \ {ticks[t].cur} : rows'[e] = rows[e]
      BY <1>10, <1>t, <2>0, MarkedTable DEF MarkPublishedThrows
  <2>k. /\ ticks' \in [Tick -> TickState]
        /\ \A u \in Tick \ {t} : ticks'[u] = ticks[u]
        /\ ticks'[t].batch \subseteq ticks[t].batch
        /\ ticks'[t].pc # "mark"
        /\ ticks'[t].pc = "fail" => ticks'[t].cur \in ticks'[t].batch
    <3>1. ticks[t].pc = "mark" /\ ticks[t].cur \in ticks[t].batch
        BY <1>10, <1>t DEF MarkPublishedThrows, Working
    <3>2. ticks' = [ticks EXCEPT ![t].pc = "fail"]
        BY <1>10 DEF MarkPublishedThrows
    <3>3. ticks' \in [Tick -> TickState]
        BY <1>d, <3>2 DEF TickState
    <3> QED
        BY <1>d, <3>1, <3>2, <3>3 DEF TickState
  <2>l. log' = log /\ Published' = Published
      BY <1>10 DEF MarkPublishedThrows, Published
  <2>1. TypeOK'
      BY <1>10, <1>d, <2>r, <2>k DEF MarkPublishedThrows, TypeOK
  <2>2. Working'
      BY <1>t, <1>d, <2>r, <2>k, <2>l DEF Working, TickState
  <2>3. SentIsPublished'
      BY <1>t, <2>0, <2>r, <2>l DEF SentIsPublished
  <2> QED
      BY <2>1, <2>2, <2>3 DEF Sound
<1>11. ASSUME NEW t \in Tick, MarkFailedThrows(t) PROVE Sound'
  <2>0. ticks[t].cur \in Event
      BY <1>11, <1>t, <1>d DEF MarkFailedThrows, Working, TickState
  <2>r. /\ rows' \in [Event -> Row]
        /\ \A e \in Event : rows'[e].present = rows[e].present
        /\ \A e \in Event \ {ticks[t].cur} : rows'[e] = rows[e]
      BY <1>11, <1>t, <2>0, MarkedTable DEF MarkFailedThrows
  <2>s. rows'[ticks[t].cur].sent = rows[ticks[t].cur].sent
      BY <1>11, <1>t, <2>0, RetriedTable DEF MarkFailedThrows
  <2>k. /\ ticks' \in [Tick -> TickState]
        /\ \A u \in Tick \ {t} : ticks'[u] = ticks[u]
        /\ ticks'[t].batch \subseteq ticks[t].batch
        /\ ticks'[t].pc # "mark"
        /\ ticks'[t].pc = "fail" => ticks'[t].cur \in ticks'[t].batch
      BY <1>11, <1>t, <1>d DEF MarkFailedThrows, Working, IdleTick, TickState
  <2>l. log' = log /\ Published' = Published
      BY <1>11 DEF MarkFailedThrows, Published
  <2>1. TypeOK'
      BY <1>11, <1>d, <2>r, <2>k DEF MarkFailedThrows, TypeOK
  <2>2. Working'
      BY <1>t, <1>d, <2>r, <2>k, <2>l DEF Working, TickState
  <2>3. SentIsPublished'
      BY <1>t, <2>0, <2>r, <2>s, <2>l DEF SentIsPublished
  <2> QED
      BY <2>1, <2>2, <2>3 DEF Sound
<1>12. ASSUME NEW p \in Process, Crash(p) PROVE Sound'
  <2>1. TypeOK'
      BY <1>12, <1>d DEF Crash, TypeOK, IdleTick, TickState
  <2>2. Working'
      BY <1>12, <1>t, <1>d DEF Crash, Working, Published, IdleTick, TickState
  <2>3. SentIsPublished'
      BY <1>12, <1>t DEF Crash, SentIsPublished, Published
  <2> QED
      BY <2>1, <2>2, <2>3 DEF Sound
<1>14. ASSUME NEW t \in Tick, NEW e \in Event, SendAgain(t, e) PROVE Sound'
  <2>0. log' \in Seq(Event) /\ Published' = Published \union {e}
      BY <1>14, <1>d, PublishedAfterAppend DEF SendAgain
  <2>k. /\ ticks' \in [Tick -> TickState]
        /\ \A u \in Tick \ {t} : ticks'[u] = ticks[u]
        /\ ticks'[t].batch = ticks[t].batch /\ ticks'[t].pc = "send"
      BY <1>14, <1>d DEF SendAgain, Sending, TickState
  <2>1. TypeOK'
      BY <1>14, <1>d, <2>0, <2>k DEF SendAgain, TypeOK
  <2>2. Working'
      BY <1>14, <1>t, <1>d, <2>0, <2>k DEF SendAgain, Working, TickState
  <2>3. SentIsPublished'
      BY <1>14, <1>t, <2>0 DEF SendAgain, SentIsPublished
  <2> QED
      BY <2>1, <2>2, <2>3 DEF Sound
<1>13. CASE UNCHANGED vars
  <2>1. TypeOK'
      BY <1>13, <1>t DEF vars, TypeOK
  <2>2. Working'
      BY <1>13, <1>t DEF vars, Working, Published
  <2>3. SentIsPublished'
      BY <1>13, <1>t DEF vars, SentIsPublished, Published
  <2> QED
      BY <2>1, <2>2, <2>3 DEF Sound
<1> QED
    BY <1>1, <1>2, <1>3, <1>4, <1>5, <1>6, <1>7, <1>8, <1>9, <1>10, <1>11, <1>12, <1>13,
       <1>14 DEF Next, TickStep, TickThrows

\* A step keeps Picking if claims only end in it and the rows that the others
\* have locked can still be claimed.
LEMMA PickingKept ==
    ASSUME Picking, ticks \in [Tick -> TickState],
           \A t \in Tick : ticks'[t].pc = "claim" =>
               /\ ticks[t].pc = "claim" /\ ticks'[t].batch = ticks[t].batch
               /\ \A e \in ticks[t].batch : Eligible(e)'
    PROVE  Picking'
    BY DEF Picking

\* A mark writes no row that a claim has locked.
LEMMA MarkLeavesLocked ==
    ASSUME SentInv, NEW t \in Tick, \/ MarkPublished(t) \/ MarkFailed(t)
                                    \/ MarkPublishedThrows(t) \/ MarkFailedThrows(t)
    PROVE  Picking'
<1>d. TypeOK /\ Working /\ Picking /\ rows \in [Event -> Row] /\ ticks \in [Tick -> TickState]
    BY DEF SentInv, TypeOK
<1>1. /\ ticks[t].cur \in Event /\ ~Locked(ticks[t].cur)
      /\ rows' \in {rows, [rows EXCEPT ![ticks[t].cur] = Settled(rows[ticks[t].cur])],
                          [rows EXCEPT ![ticks[t].cur] = Retried(rows[ticks[t].cur])]}
    BY <1>d DEF MarkPublished, MarkFailed, MarkPublishedThrows, MarkFailedThrows, Working, TickState
<1>2. /\ \A u \in Tick \ {t} : ticks'[u] = ticks[u]
      /\ ticks'[t].pc # "claim"
  <2>1. Advance(t).pc # "claim"
      BY DEF Advance
  <2> QED
      BY <1>d, <2>1 DEF MarkPublished, MarkFailed, MarkPublishedThrows, MarkFailedThrows,
         IdleTick, TickState
<1>3. PICK c \in Event : c = ticks[t].cur
    BY <1>1
<1>4. \A e \in Event \ {c} : rows'[e] = rows[e]
    BY <1>d, <1>1, <1>3, MarkedTable
<1>5. ASSUME NEW u \in Tick, ticks'[u].pc = "claim"
      PROVE  /\ ticks[u].pc = "claim" /\ ticks'[u].batch = ticks[u].batch
             /\ \A e \in ticks[u].batch : Eligible(e)'
  <2>1. u # t /\ ticks[u].pc = "claim" /\ ticks'[u].batch = ticks[u].batch
      BY <1>2, <1>5
  <2>2. ASSUME NEW e \in ticks[u].batch PROVE Eligible(e)'
    <3>1. e \in Event /\ e # c /\ Eligible(e)
        BY <1>1, <1>3, <1>d, <2>1 DEF Picking, Locked, TickState
    <3> QED
        BY <1>4, <3>1 DEF Eligible
  <2> QED
      BY <2>1, <2>2
<1> QED
    BY <1>5, <1>d, PickingKept

\* No step touches the rows that a claim has locked, the claim's own apart.
LEMMA PickingStep == SentInv /\ [Next]_vars => Picking'
<1> SUFFICES ASSUME SentInv, [Next]_vars PROVE Picking'
    OBVIOUS
<1>d. TypeOK /\ Working /\ Picking /\ rows \in [Event -> Row] /\ ticks \in [Tick -> TickState]
    BY DEF SentInv, TypeOK
\* Ticks change, but no row does and no claim begins.
<1>r. ASSUME UNCHANGED rows,
             \A t \in Tick : ticks'[t].pc = "claim" => ticks'[t] = ticks[t]
      PROVE  Picking'
  <2>1. \A e \in Event : Eligible(e)' = Eligible(e)
      BY <1>r DEF Eligible
  <2> QED
      BY <1>r, <1>d, <2>1, PickingKept DEF Picking, TickState
<1>1. ASSUME NEW e \in Event, Insert(e) \/ ClaimExpires(e) \/ BecomesDue(e) PROVE Picking'
  <2>1. UNCHANGED ticks
      BY <1>1 DEF Insert, ClaimExpires, BecomesDue
  <2>2. ASSUME NEW f \in Event, Eligible(f) PROVE Eligible(f)'
    <3>1. CASE Insert(e)
        BY <1>d, <2>2, <3>1 DEF Insert, Eligible, Row
    <3>2. CASE ClaimExpires(e)
        BY <1>d, <2>2, <3>2 DEF ClaimExpires, Eligible, Row
    <3>3. CASE BecomesDue(e)
        BY <1>d, <2>2, <3>3 DEF BecomesDue, Eligible, Row
    <3> QED
        BY <1>1, <3>1, <3>2, <3>3
  <2>3. \A t \in Tick : ticks'[t].pc = "claim" =>
               /\ ticks[t].pc = "claim" /\ ticks'[t].batch = ticks[t].batch
               /\ \A f \in ticks[t].batch : Eligible(f)'
      BY <1>d, <2>1, <2>2 DEF Picking, TickState
  <2> QED
      BY <1>d, <2>3, PickingKept
<1>2. ASSUME NEW t \in Tick, SelectPending(t) PROVE Picking'
  <2>1. PICK S \in SUBSET Event :
            /\ \A e \in S : Free(e)
            /\ ticks' = [ticks EXCEPT ![t] = [pc |-> "claim", batch |-> S, cur |-> -1]]
      BY <1>2 DEF SelectPending, FirstOf
  <2>2. UNCHANGED rows
      BY <1>2 DEF SelectPending
  <2>3. \A e \in Event : Eligible(e)' = Eligible(e)
      BY <2>2 DEF Eligible
  <2>4. ASSUME NEW u \in Tick, ticks'[u].pc = "claim", NEW e \in ticks'[u].batch
        PROVE  /\ Eligible(e)'
               /\ \A v \in Tick : ticks'[v].pc = "claim" /\ e \in ticks'[v].batch => v = u
    <3>1. CASE u = t
      <4>1. e \in S /\ e \in Event /\ Eligible(e) /\ ~Locked(e)
          BY <1>d, <2>1, <2>4, <3>1 DEF Free
      <4> QED
          BY <1>d, <2>1, <2>3, <3>1, <4>1 DEF Locked
    <3>2. CASE u # t
      <4>1. ticks'[u] = ticks[u] /\ e \in Event /\ Locked(e)
          BY <1>d, <2>1, <2>4, <3>2 DEF Locked, TickState
      <4>2. e \notin S
          BY <2>1, <4>1 DEF Free
      <4> QED
          BY <1>d, <2>1, <2>3, <2>4, <3>2, <4>1, <4>2 DEF Picking
    <3> QED
        BY <3>1, <3>2
  <2> QED
      BY <2>4 DEF Picking
<1>3. ASSUME NEW t \in Tick, FetchPending(t) \/ FetchPendingThrows(t) PROVE Picking'
  <2>1. /\ ticks[t].pc = "claim"
        /\ \A u \in Tick \ {t} : ticks'[u] = ticks[u]
        /\ ticks'[t].pc # "claim"
      BY <1>3, <1>d DEF FetchPending, FetchPendingThrows, IdleTick, TickState
  <2>2. \A e \in Event \ ticks[t].batch : rows'[e] = rows[e]
    <3>1. PICK S \in SUBSET Event : S = ticks[t].batch
        BY <1>d DEF TickState
    <3> QED
        BY <1>3, <1>d, <3>1, ClaimTable DEF FetchPending, FetchPendingThrows
  <2>3. ASSUME NEW u \in Tick, ticks'[u].pc = "claim"
        PROVE  /\ ticks[u].pc = "claim" /\ ticks'[u].batch = ticks[u].batch
               /\ \A e \in ticks[u].batch : Eligible(e)'
    <3>1. u # t /\ ticks'[u] = ticks[u]
        BY <2>1, <2>3
    <3>2. ASSUME NEW e \in ticks[u].batch PROVE Eligible(e)'
      <4>1. e \in Event /\ e \notin ticks[t].batch /\ Eligible(e)
          BY <1>d, <2>1, <2>3, <3>1 DEF Picking, TickState
      <4> QED
          BY <2>2, <4>1 DEF Eligible
    <3> QED
        BY <2>3, <3>1, <3>2
  <2> QED
      BY <1>d, <2>3, PickingKept
<1>4. ASSUME NEW t \in Tick, NEW e \in Event,
             SendOk(t, e) \/ SendRejected(t, e) \/ SendAgain(t, e)
      PROVE  Picking'
    BY <1>4, <1>d, <1>r DEF SendOk, SendRejected, SendAgain, Sending, TickState
<1>5. ASSUME NEW p \in Process, Crash(p) PROVE Picking'
    BY <1>5, <1>d, <1>r DEF Crash, IdleTick
<1>6. CASE UNCHANGED vars
    BY <1>6, <1>r DEF vars
<1> QED
    BY <1>1, <1>2, <1>3, <1>4, <1>5, <1>6, MarkLeavesLocked DEF Next, TickStep, TickThrows

LEMMA SentInvStep == SentInv /\ [Next]_vars => SentInv'
    BY SoundStep, PickingStep DEF Sound, SentInv

\* What the worker does besides the writer's Insert.
Works == \/ \E e \in Event : ClaimExpires(e) \/ BecomesDue(e)
         \/ \E t \in Tick : \/ TickStep(t) \/ TickThrows(t)
                            \/ \E e \in Event : SendAgain(t, e)
         \/ \E p \in Process : Crash(p)

\* The worker neither adds nor removes a row.
LEMMA WorkKeepsRows ==
    ASSUME SentInv, Works
    PROVE  \A e \in Event : rows'[e].present <=> rows[e].present
<1>t. TypeOK /\ Working
    BY DEF SentInv
<1>d. rows \in [Event -> Row] /\ ticks \in [Tick -> TickState]
    BY <1>t DEF TypeOK
<1>1. ASSUME NEW e \in Event, ClaimExpires(e) \/ BecomesDue(e)
      PROVE  \A f \in Event : rows'[f].present <=> rows[f].present
  <2>1. \/ rows' = [rows EXCEPT ![e].claim = "stale"]
        \/ rows' = [rows EXCEPT ![e].due = TRUE]
      BY <1>1 DEF ClaimExpires, BecomesDue
  <2> QED
      BY <1>d, <2>1 DEF Row
<1>2. ASSUME NEW t \in Tick, \/ MarkPublished(t) \/ MarkFailed(t)
                             \/ MarkPublishedThrows(t) \/ MarkFailedThrows(t)
      PROVE  \A f \in Event : rows'[f].present <=> rows[f].present
  <2>1. ticks[t].cur \in Event
      BY <1>2, <1>t, <1>d DEF MarkPublished, MarkFailed, MarkPublishedThrows, MarkFailedThrows,
         Working, TickState
  <2>2. rows' \in {rows, [rows EXCEPT ![ticks[t].cur] = Settled(rows[ticks[t].cur])],
                         [rows EXCEPT ![ticks[t].cur] = Retried(rows[ticks[t].cur])]}
      BY <1>2 DEF MarkPublished, MarkFailed, MarkPublishedThrows, MarkFailedThrows
  <2> QED
      BY <1>t, <2>1, <2>2, MarkedTable
<1>3. ASSUME NEW t \in Tick, FetchPending(t) \/ FetchPendingThrows(t)
      PROVE  \A f \in Event : rows'[f].present <=> rows[f].present
  <2>1. PICK S \in SUBSET Event : S = ticks[t].batch
      BY <1>d DEF TickState
  <2> QED
      BY <1>t, <1>3, <2>1, ClaimTable DEF FetchPending, FetchPendingThrows
<1>4. ASSUME rows' = rows
      PROVE  \A f \in Event : rows'[f].present <=> rows[f].present
    BY <1>4
<1> QED
    BY <1>1, <1>2, <1>3, <1>4
       DEF Works, TickStep, TickThrows, SelectPending, SendOk, SendRejected, SendAgain, Crash

\* The state keeps its types.
THEOREM TypeCorrect == Spec => []TypeOK
<1>1. SentInv => TypeOK
    BY DEF SentInv
<1> QED
    BY <1>1, SentInvInit, SentInvStep, PTL DEF Spec

\* At least once: a row marked as sent is in Kafka, whatever crashes, errors
\* and expired claims happen (markPublished is reached only after the awaited
\* producer.send of the same row).
THEOREM SentIsInKafka == Spec => []SentIsPublished
<1>1. SentInv => SentIsPublished
    BY DEF SentInv
<1> QED
    BY <1>1, SentInvInit, SentInvStep, PTL DEF Spec

-----------------------------------------------------------------------------
(* A sent row is settled for good. *)

Unclaimed == \A e \in Event : rows[e].sent => rows[e].claim = "none"

LEMMA SettledStep ==
    ASSUME SentInv, Unclaimed, [Next]_vars
    PROVE  \A e \in Event : /\ rows[e].sent => rows'[e].sent
                            /\ rows'[e].sent => rows'[e].claim = "none"
<1> SUFFICES ASSUME NEW x \in Event
             PROVE  /\ rows[x].sent => rows'[x].sent
                    /\ rows'[x].sent => rows'[x].claim = "none"
    OBVIOUS
<1>t. TypeOK /\ Working /\ Picking /\ rows \in [Event -> Row] /\ ticks \in [Tick -> TickState]
      /\ (rows[x].sent => rows[x].claim = "none")
    BY DEF SentInv, TypeOK, Unclaimed
<1>1. ASSUME NEW e \in Event, Insert(e) \/ ClaimExpires(e) \/ BecomesDue(e)
      PROVE  /\ rows[x].sent => rows'[x].sent
             /\ rows'[x].sent => rows'[x].claim = "none"
  <2>1. CASE Insert(e)
      BY <1>t, <2>1 DEF Insert, Row
  <2>2. CASE ClaimExpires(e)
      BY <1>t, <2>2 DEF ClaimExpires, Row
  <2>3. CASE BecomesDue(e)
      BY <1>t, <2>3 DEF BecomesDue, Row
  <2> QED
      BY <1>1, <2>1, <2>2, <2>3
<1>2. ASSUME NEW t \in Tick, FetchPending(t) \/ FetchPendingThrows(t)
      PROVE  /\ rows[x].sent => rows'[x].sent
             /\ rows'[x].sent => rows'[x].claim = "none"
  <2>1. PICK S \in SUBSET Event : S = ticks[t].batch
      BY <1>t DEF TickState
  <2>2. rows[x].sent => x \notin S
      BY <1>2, <1>t, <2>1 DEF Picking, Eligible, FetchPending, FetchPendingThrows
  <2>3. rows' = Claim(S) \/ rows' = rows
      BY <1>2, <2>1 DEF FetchPending, FetchPendingThrows
  <2> QED
      BY <2>3, <1>t, <2>2, ClaimTable
<1>3. ASSUME NEW c \in Event,
             rows' \in {rows, [rows EXCEPT ![c] = Settled(rows[c])],
                              [rows EXCEPT ![c] = Retried(rows[c])]}
      PROVE  /\ rows[x].sent => rows'[x].sent
             /\ rows'[x].sent => rows'[x].claim = "none"
  <2>1. CASE rows' = rows
      BY <1>t, <2>1
  <2>2. CASE rows' = [rows EXCEPT ![c] = Settled(rows[c])]
      BY <1>t, <2>2, SettledTable
  <2>3. CASE rows' = [rows EXCEPT ![c] = Retried(rows[c])]
      BY <1>t, <2>3, RetriedTable
  <2> QED
      BY <1>3, <2>1, <2>2, <2>3
<1>4. ASSUME NEW t \in Tick, \/ MarkPublished(t) \/ MarkFailed(t)
                             \/ MarkPublishedThrows(t) \/ MarkFailedThrows(t)
      PROVE  /\ rows[x].sent => rows'[x].sent
             /\ rows'[x].sent => rows'[x].claim = "none"
  <2>1. ticks[t].cur \in Event
      BY <1>4, <1>t DEF MarkPublished, MarkFailed, MarkPublishedThrows, MarkFailedThrows,
         Working, TickState
  <2>2. rows' \in {rows, [rows EXCEPT ![ticks[t].cur] = Settled(rows[ticks[t].cur])],
                         [rows EXCEPT ![ticks[t].cur] = Retried(rows[ticks[t].cur])]}
      BY <1>4 DEF MarkPublished, MarkFailed, MarkPublishedThrows, MarkFailedThrows
  <2>3. PICK c \in Event : c = ticks[t].cur
      BY <2>1
  <2> QED
      BY <1>3, <2>2, <2>3
<1>5. CASE rows' = rows
    BY <1>5, <1>t
<1> QED
    BY <1>1, <1>2, <1>4, <1>5
       DEF Next, TickStep, TickThrows, SelectPending, SendOk, SendRejected, SendAgain, Crash, vars

\* Once marked as sent a row stays sent and is never claimed again, whatever
\* late ticks, lost answers and expired claims do to it.
THEOREM SentRowsAreSettled == Spec => SettledStaysSettled
<1> DEFINE Inv == SentInv /\ Unclaimed
           Step == \A e \in Event : rows[e].sent => /\ rows'[e].sent
                                                    /\ rows'[e].claim = "none"
<1>1. Init => Inv
    BY SentInvInit DEF Init, Unclaimed
<1>2. Inv /\ [Next]_vars => Inv' /\ Step
    BY SentInvStep, SettledStep DEF Unclaimed
<1>3. Inv /\ [Next]_vars => [Step]_vars
    BY <1>2
<1> HIDE DEF Inv
<1>4. Inv /\ [Next]_vars => Inv'
    BY <1>2
<1> QED
    BY <1>1, <1>3, <1>4, PTL DEF Spec, SettledStaysSettled

-----------------------------------------------------------------------------
(* The outbox implements at-least-once delivery. *)

Recorded == {e \in Event : rows[e].present}
SentRows == {e \in Event : rows[e].sent}

\* Each step records, delivers or settles one event, or does none of them.
LEMMA DeliveryStep == SentInv /\ [Next]_vars => [Delivery!Next]_(Delivery!vars)
<1> SUFFICES ASSUME SentInv, [Next]_vars PROVE [Delivery!Next]_(Delivery!vars)
    OBVIOUS
<1>t. TypeOK /\ Working /\ SentIsPublished
    BY DEF SentInv
<1>d. /\ rows \in [Event -> Row] /\ ticks \in [Tick -> TickState] /\ log \in Seq(Event)
    BY <1>t DEF TypeOK
<1>s. ASSUME Recorded' = Recorded, Published' = Published, SentRows' = SentRows
      PROVE  UNCHANGED Delivery!vars
    BY <1>s DEF Delivery!vars, Recorded, SentRows
<1>1. ASSUME NEW e \in Event, Insert(e) PROVE Delivery!Record(e)
  <2>1. e \notin Recorded /\ Recorded' = Recorded \union {e}
      BY <1>1, <1>d DEF Insert, Recorded, Row
  <2>2. SentRows' = SentRows /\ Published' = Published
      BY <1>1, <1>d DEF Insert, SentRows, Published, Row
  <2> QED
      BY <2>1, <2>2 DEF Delivery!Record, Recorded, SentRows
<1>2. ASSUME NEW e \in Event, ClaimExpires(e) PROVE UNCHANGED Delivery!vars
  <2>1. Recorded' = Recorded /\ SentRows' = SentRows /\ Published' = Published
      BY <1>2, <1>d DEF ClaimExpires, Recorded, SentRows, Published, Row
  <2> QED
      BY <2>1, <1>s
<1>3. ASSUME NEW e \in Event, BecomesDue(e) PROVE UNCHANGED Delivery!vars
  <2>1. Recorded' = Recorded /\ SentRows' = SentRows /\ Published' = Published
      BY <1>3, <1>d DEF BecomesDue, Recorded, SentRows, Published, Row
  <2> QED
      BY <2>1, <1>s
<1>4. ASSUME NEW t \in Tick, FetchPending(t) \/ FetchPendingThrows(t)
      PROVE  UNCHANGED Delivery!vars
  <2>1. PICK S \in SUBSET Event : S = ticks[t].batch
      BY <1>d DEF TickState
  <2>2. (rows' = Claim(S) \/ rows' = rows) /\ log' = log
      BY <1>4, <2>1 DEF FetchPending, FetchPendingThrows
  <2>3. Recorded' = Recorded /\ Published' = Published /\ SentRows' = SentRows
      BY <2>2, <1>t, ClaimTable DEF Recorded, SentRows, Published
  <2> QED
      BY <2>3, <1>s
<1>5. ASSUME NEW t \in Tick, NEW e \in ticks[t].batch, rows' = rows,
             log' \in {log, Append(log, e)}
      PROVE  Delivery!Deliver(e) \/ UNCHANGED Delivery!vars
  <2>1. e \in Event /\ e \in Recorded
      BY <1>5, <1>t, <1>d DEF Working, Recorded, TickState
  <2>2. Recorded' = Recorded /\ SentRows' = SentRows
      BY <1>5 DEF Recorded, SentRows
  <2>3. Published' = Published \/ Published' = Published \union {e}
      BY <1>5, <1>d, <2>1, PublishedAfterAppend DEF Published
  <2>4. CASE Published' = Published
      BY <2>2, <2>4, <1>s
  <2>5. CASE Published' = Published \union {e} /\ e \notin Published
      BY <2>1, <2>2, <2>5 DEF Delivery!Deliver, Recorded, SentRows
  <2> QED
      BY <2>3, <2>4, <2>5
<1>6. ASSUME NEW t \in Tick, ticks[t].pc = "mark", log' = log,
             NEW c \in Event, c = ticks[t].cur,
             rows' \in {rows, [rows EXCEPT ![ticks[t].cur] = Settled(rows[ticks[t].cur])]}
      PROVE  Delivery!Settle(c) \/ UNCHANGED Delivery!vars
  <2>1. c \in Event /\ c \in Published
      BY <1>6, <1>t, <1>d DEF Working, TickState
  <2>2. Recorded' = Recorded /\ Published' = Published
      BY <1>6, <1>t, <2>1, MarkedTable DEF Recorded, Published
  <2>3. SentRows' = SentRows \/ SentRows' = SentRows \union {c}
      BY <1>6, <1>t, <2>1, SettledTable DEF SentRows
  <2>4. CASE SentRows' = SentRows
      BY <2>2, <2>4, <1>s
  <2>5. CASE SentRows' = SentRows \union {c} /\ c \notin SentRows
      BY <2>1, <2>2, <2>5 DEF Delivery!Settle, Recorded, SentRows
  <2> QED
      BY <2>3, <2>4, <2>5
<1>7. ASSUME NEW t \in Tick, ticks[t].pc = "fail", log' = log,
             rows' \in {rows, [rows EXCEPT ![ticks[t].cur] = Retried(rows[ticks[t].cur])]}
      PROVE  UNCHANGED Delivery!vars
  <2>1. ticks[t].cur \in Event
      BY <1>7, <1>t, <1>d DEF Working, TickState
  <2>2. Recorded' = Recorded /\ Published' = Published
      BY <1>7, <1>t, <2>1, MarkedTable DEF Recorded, Published
  <2>3. SentRows' = SentRows
      BY <1>7, <1>t, <2>1, RetriedTable DEF SentRows
  <2> QED
      BY <2>2, <2>3, <1>s
<1>8. ASSUME rows' = rows, log' = log PROVE UNCHANGED Delivery!vars
    BY <1>8, <1>s DEF Recorded, SentRows, Published
<1>9. ASSUME NEW t \in Tick, TickStep(t) PROVE [Delivery!Next]_(Delivery!vars)
  <2>0. CASE SelectPending(t)
      BY <2>0, <1>8 DEF SelectPending
  <2>1. CASE FetchPending(t)
      BY <2>1, <1>4
  <2>2. CASE \E e \in Event : SendOk(t, e) \/ SendRejected(t, e)
    <3>1. PICK e \in Event : SendOk(t, e) \/ SendRejected(t, e)
        BY <2>2
    <3>2. /\ e \in ticks[t].batch /\ rows' = rows
          /\ log' \in {log, Append(log, e)}
        BY <3>1 DEF SendOk, SendRejected, Sending
    <3> QED
        BY <1>5, <3>2 DEF Delivery!Next
  <2>3. CASE MarkPublished(t)
    <3>1. PICK c \in Event : c = ticks[t].cur
        BY <2>3, <1>t, <1>d DEF MarkPublished, Working, TickState
    <3>2. Delivery!Settle(c) \/ UNCHANGED Delivery!vars
        BY <2>3, <3>1, <1>6 DEF MarkPublished
    <3> QED
        BY <3>2 DEF Delivery!Next
  <2>4. CASE MarkFailed(t)
      BY <2>4, <1>7 DEF MarkFailed
  <2> QED
      BY <1>9, <2>0, <2>1, <2>2, <2>3, <2>4 DEF TickStep
<1>10. ASSUME NEW t \in Tick, MarkPublishedThrows(t) \/ MarkFailedThrows(t)
       PROVE  [Delivery!Next]_(Delivery!vars)
  <2>1. CASE MarkPublishedThrows(t)
    <3>1. PICK c \in Event : c = ticks[t].cur
        BY <2>1, <1>t, <1>d DEF MarkPublishedThrows, Working, TickState
    <3>2. Delivery!Settle(c) \/ UNCHANGED Delivery!vars
        BY <2>1, <3>1, <1>6 DEF MarkPublishedThrows
    <3> QED
        BY <3>2 DEF Delivery!Next
  <2>2. CASE MarkFailedThrows(t)
      BY <2>2, <1>7 DEF MarkFailedThrows
  <2> QED
      BY <1>10, <2>1, <2>2
<1>11. ASSUME NEW e \in Event, Insert(e) \/ ClaimExpires(e) \/ BecomesDue(e)
       PROVE  [Delivery!Next]_(Delivery!vars)
    BY <1>11, <1>1, <1>2, <1>3 DEF Delivery!Next
<1>12. ASSUME NEW t \in Tick, NEW e \in Event, SendAgain(t, e)
       PROVE  [Delivery!Next]_(Delivery!vars)
  <2>1. /\ e \in ticks[t].batch /\ rows' = rows
        /\ log' \in {log, Append(log, e)}
      BY <1>12 DEF SendAgain, Sending
  <2> QED
      BY <1>5, <2>1 DEF Delivery!Next
<1>13. ASSUME NEW p \in Process, Crash(p) PROVE UNCHANGED Delivery!vars
    BY <1>13, <1>8 DEF Crash
<1>14. CASE UNCHANGED vars
    BY <1>14, <1>8 DEF vars
<1> QED
    BY <1>4, <1>9, <1>10, <1>11, <1>12, <1>13, <1>14 DEF Next, TickThrows

\* The outbox implements OutboxDelivery: an event is delivered only if its
\* transaction committed, settled only if it was delivered, and neither is
\* ever undone.
THEOREM OutboxImplementsDelivery == Spec => DeliverySpec
<1>1. Init => Delivery!Init
  <2> SUFFICES ASSUME Init PROVE Delivery!Init
      OBVIOUS
  <2>1. {e \in Event : rows[e].present} = {} /\ {e \in Event : rows[e].sent} = {}
      BY DEF Init
  <2>2. Published = {}
      BY DEF Init, Published
  <2> QED
      BY <2>1, <2>2 DEF Delivery!Init
<1> QED
    BY <1>1, SentInvInit, SentInvStep, DeliveryStep, PTL DEF Spec, DeliverySpec, Delivery!Spec

-----------------------------------------------------------------------------
(***************************************************************************)
(* How many ticks work on a row, how often it is attempted and how often   *)
(* it is published.  Each bound holds because of a right that is given     *)
(* back only against a price: a row is open to one claim, a claim closes   *)
(* it, and it opens again by an attempt that is counted or by a claim that *)
(* expires, which is counted too.                                          *)
(***************************************************************************)

\* Ticks that hold e and have not sent it yet.
Sends(t, e) == ticks[t].pc # "claim" /\ e \in ticks[t].batch
               /\ ~(ticks[t].cur = e /\ ticks[t].pc \in {"mark", "fail"})
Unsent(e) == {t \in Tick : Sends(t, e)}

\* 1 when the next claim may take the row.
Open(e) == IF rows[e].claim = "fresh" \/ rows[e].sent THEN 0 ELSE 1

Counted(e) ==
    /\ Cardinality(Holders(e)) + Open(e) <= 1 + expiries[e].early
    /\ rows[e].attempts + Cardinality(Holders(e)) <= MaxAttempts - 1 + Cardinality(Tick)
    /\ Copies(e) + Cardinality(Unsent(e)) + Open(e)
          <= 1 + rows[e].attempts + expiries[e].early + expiries[e].late + resends[e]

CountInv == SentInv /\ \A e \in Event : Counted(e)

-----------------------------------------------------------------------------
\* Every set of ticks is finite and has at most Cardinality(Tick) members.
LEMMA TicksFinite ==
    ASSUME NEW S \in SUBSET Tick
    PROVE  /\ IsFiniteSet(S) /\ IsFiniteSet(Tick)
           /\ Cardinality(S) \in Nat /\ Cardinality(Tick) \in Nat
           /\ Cardinality(S) <= Cardinality(Tick)
<1>1. IsFiniteSet(Tick)
    BY TickAssumption, FS_Product DEF Tick
<1> QED
    BY <1>1, FS_Subset, FS_CardinalityType

\* A set of ticks that one tick joins or leaves, or that shrinks.
LEMMA TicksChange ==
    ASSUME NEW S \in SUBSET Tick, NEW t \in Tick
    PROVE  /\ Cardinality(S \union {t}) <= Cardinality(S) + 1
           /\ t \in S => Cardinality(S \ {t}) = Cardinality(S) - 1
           /\ \A R \in SUBSET S : Cardinality(R) <= Cardinality(S)
<1>1. IsFiniteSet(S) /\ Cardinality(S) \in Nat
    BY TicksFinite
<1> QED
    BY <1>1, FS_AddElement, FS_RemoveElement, FS_Subset

\* Copies counts, and an append adds one copy of its own event only.
LEMMA CopiesFinite ==
    ASSUME NEW e \in Event, log \in Seq(Event)
    PROVE  /\ IsFiniteSet({i \in DOMAIN log : log[i] = e})
           /\ Copies(e) \in Nat
<1>1. IsFiniteSet(DOMAIN log)
    BY FS_Interval
<1> QED
    BY <1>1, FS_Subset, FS_CardinalityType DEF Copies

LEMMA CopiesAfterAppend ==
    ASSUME NEW e \in Event, NEW x \in Event, log \in Seq(Event), log' = Append(log, e)
    PROVE  Copies(x)' = IF x = e THEN Copies(x) + 1 ELSE Copies(x)
<1> DEFINE S == {i \in DOMAIN log : log[i] = x}
           T == {i \in DOMAIN log' : log'[i] = x}
<1>1. /\ Len(log) \in Nat
      /\ DOMAIN log = 1..Len(log) /\ DOMAIN log' = 1..(Len(log) + 1)
      /\ \A i \in 1..Len(log) : log'[i] = log[i]
      /\ log'[Len(log) + 1] = e
    OBVIOUS
<1>2. IsFiniteSet(S) /\ Copies(x) = Cardinality(S) /\ Copies(x)' = Cardinality(T)
    BY CopiesFinite DEF Copies
<1>3. CASE x = e
  <2>1. T = S \union {Len(log) + 1} /\ Len(log) + 1 \notin S
      BY <1>1, <1>3
  <2> HIDE DEF S, T
  <2> QED
      BY <1>2, <1>3, <2>1, FS_AddElement
<1>4. CASE x # e
  <2>1. T = S
      BY <1>1, <1>4
  <2> HIDE DEF S, T
  <2> QED
      BY <1>2, <1>4, <2>1
<1> QED
    BY <1>3, <1>4

\* The numbers of one event are natural numbers.
LEMMA CountTypes ==
    ASSUME TypeOK, NEW x \in Event
    PROVE  /\ Holders(x) \in SUBSET Tick /\ Unsent(x) \in SUBSET Tick
           /\ Cardinality(Holders(x)) \in Nat /\ Cardinality(Unsent(x)) \in Nat
           /\ Cardinality(Tick) \in Nat /\ MaxAttempts \in Nat
           /\ Copies(x) \in Nat /\ Open(x) \in {0, 1} /\ rows[x].attempts \in Nat
           /\ expiries[x].early \in Nat /\ expiries[x].late \in Nat /\ resends[x] \in Nat
<1>1. Holders(x) \in SUBSET Tick /\ Unsent(x) \in SUBSET Tick
    BY DEF Holders, Unsent
<1>2. /\ Copies(x) \in Nat /\ rows[x].attempts \in Nat
      /\ expiries[x].early \in Nat /\ expiries[x].late \in Nat /\ resends[x] \in Nat
    BY CopiesFinite DEF TypeOK, Row
<1> QED
    BY <1>1, <1>2, TicksFinite, BoundAssumption DEF Open

LEMMA CountInvInit == Init => CountInv
<1> SUFFICES ASSUME Init, NEW e \in Event PROVE Counted(e)
    BY SentInvInit DEF CountInv
<1>1. TypeOK
    BY SentInvInit DEF SentInv
<1>2. Holders(e) = {} /\ Unsent(e) = {} /\ {i \in DOMAIN log : log[i] = e} = {}
    BY DEF Init, IdleTick, Holders, Unsent, Sends
<1>3. Cardinality(Holders(e)) = 0 /\ Cardinality(Unsent(e)) = 0 /\ Copies(e) = 0
    BY <1>2, FS_EmptySet DEF Copies
<1>4. /\ Open(e) = 1 /\ rows[e].attempts = 0
      /\ expiries[e].early = 0 /\ expiries[e].late = 0 /\ resends[e] = 0
    BY DEF Init, Open
<1>5. Cardinality(Tick) \in Nat /\ MaxAttempts \in Nat \ {0}
    BY <1>1, CountTypes, BoundAssumption
<1> QED
    BY <1>3, <1>4, <1>5 DEF Counted

-----------------------------------------------------------------------------
\* A row moves on, or is given up, by the tick that handles it: it leaves the
\* tick's batch, it was sent by it already, and nothing else changes hands.
LEMMA RowLeaves ==
    ASSUME SentInv, NEW x \in Event, NEW t \in Tick,
           ticks[t].pc \in {"mark", "fail"}, ticks[t].cur = x,
           ticks' \in [Tick -> TickState],
           \A u \in Tick \ {t} : ticks'[u] = ticks[u],
           x \notin ticks'[t].batch
    PROVE  /\ Cardinality(Holders(x)') = Cardinality(Holders(x)) - 1
           /\ Cardinality(Unsent(x)') = Cardinality(Unsent(x))
<1>1. x \in ticks[t].batch
    BY DEF SentInv, Working
<1>2. Holders(x)' = Holders(x) \ {t} /\ t \in Holders(x)
    BY <1>1 DEF Holders
<1>3. Unsent(x)' = Unsent(x)
    BY <1>1 DEF Unsent, Sends
<1> QED
    BY <1>2, <1>3, TicksChange DEF Holders

\* Every step of a tick leaves alone the events it does not touch.
LEMMA OthersStay ==
    ASSUME NEW x \in Event, NEW t \in Tick,
           \A u \in Tick \ {t} : ticks'[u] = ticks[u],
           x \in ticks'[t].batch <=> x \in ticks[t].batch,
           ticks[t].pc # "claim" /\ ticks'[t].pc # "claim",
           ~(ticks[t].cur = x /\ ticks[t].pc \in {"mark", "fail"}),
           ~(ticks'[t].cur = x /\ ticks'[t].pc \in {"mark", "fail"})
    PROVE  Holders(x)' = Holders(x) /\ Unsent(x)' = Unsent(x)
    BY DEF Holders, Unsent, Sends

\* Every step keeps the bounds of every event.
LEMMA CountInvStep == CountInv /\ [Next]_vars => CountInv'
<1> SUFFICES ASSUME CountInv, [Next]_vars, NEW x \in Event PROVE Counted(x)'
    BY SentInvStep DEF CountInv
<1>i. SentInv /\ SentInv' /\ TypeOK /\ TypeOK' /\ Working /\ Picking /\ Counted(x)
    BY SentInvStep DEF CountInv, SentInv
<1>d. /\ rows \in [Event -> Row] /\ ticks \in [Tick -> TickState] /\ log \in Seq(Event)
      /\ ticks' \in [Tick -> TickState]
      /\ expiries \in [Event -> [early : Nat, late : Nat]]
      /\ resends \in [Event -> Nat]
    BY <1>i DEF TypeOK
<1>n. /\ Holders(x) \in SUBSET Tick /\ Unsent(x) \in SUBSET Tick
      /\ Cardinality(Holders(x)) \in Nat /\ Cardinality(Unsent(x)) \in Nat
      /\ Cardinality(Tick) \in Nat /\ MaxAttempts \in Nat
      /\ Copies(x) \in Nat /\ Open(x) \in {0, 1} /\ rows[x].attempts \in Nat
      /\ expiries[x].early \in Nat /\ expiries[x].late \in Nat /\ resends[x] \in Nat
    BY <1>i, CountTypes
\* Holders and ticks that are the same, or fewer, keep the bounds.
<1>s. ASSUME Cardinality(Holders(x)') <= Cardinality(Holders(x)),
             Cardinality(Unsent(x)') <= Cardinality(Unsent(x)),
             Cardinality(Holders(x)') \in Nat, Cardinality(Unsent(x)') \in Nat,
             Copies(x)' = Copies(x), Open(x)' <= Open(x), Open(x)' \in {0, 1},
             rows'[x].attempts = rows[x].attempts, expiries'[x] = expiries[x],
             resends'[x] = resends[x]
      PROVE  Counted(x)'
    BY <1>i, <1>n, <1>s DEF Counted
<1>h. ASSUME UNCHANGED ticks
      PROVE  /\ Holders(x)' = Holders(x) /\ Unsent(x)' = Unsent(x)
    BY <1>h DEF Holders, Unsent, Sends
<1>c. ASSUME UNCHANGED log
      PROVE  Copies(x)' = Copies(x)
    BY <1>c DEF Copies
<1>o. Open(x)' \in {0, 1}
    BY DEF Open
<1>1. ASSUME NEW e \in Event, Insert(e) \/ BecomesDue(e) PROVE Counted(x)'
  <2>1. /\ rows'[x].claim = rows[x].claim /\ rows'[x].sent = rows[x].sent
        /\ rows'[x].attempts = rows[x].attempts
    <3>1. CASE Insert(e)
        BY <3>1, <1>d DEF Insert, Row
    <3>2. CASE BecomesDue(e)
        BY <3>2, <1>d DEF BecomesDue, Row
    <3> QED
        BY <1>1, <3>1, <3>2
  <2>2. UNCHANGED <<ticks, log, expiries, resends>>
      BY <1>1 DEF Insert, BecomesDue, counts
  <2> QED
      BY <2>1, <2>2, <1>s, <1>h, <1>c, <1>o, <1>n DEF Open
<1>2. ASSUME NEW e \in Event, ClaimExpires(e) PROVE Counted(x)'
  <2>1. UNCHANGED <<ticks, log, resends>> /\ rows'[x].attempts = rows[x].attempts
      BY <1>2, <1>d DEF ClaimExpires, Row
  <2>2. CASE x # e
    <3>1. Open(x)' = Open(x) /\ expiries'[x] = expiries[x]
        BY <1>2, <1>d, <2>2 DEF ClaimExpires, Open, Row
    <3> QED
        BY <2>1, <3>1, <1>s, <1>h, <1>c, <1>o, <1>n
  <2>3. CASE x = e
    <3>1. Open(x) = 0
        BY <1>2, <2>3 DEF ClaimExpires, Open
    <3>2. \/ /\ Cardinality(Holders(x)) = 0 /\ expiries'[x].early = expiries[x].early
             /\ expiries'[x].late = expiries[x].late + 1
          \/ /\ expiries'[x].early = expiries[x].early + 1
             /\ expiries'[x].late = expiries[x].late
      <4>1. CASE /\ Holders(x) = {}
                 /\ expiries' = [expiries EXCEPT ![x].late = @ + 1]
          BY <1>d, <4>1, FS_EmptySet
      <4>2. CASE expiries' = [expiries EXCEPT ![x].early = @ + 1]
          BY <1>d, <4>2
      <4> QED
          BY <1>2, <2>3, <4>1, <4>2 DEF ClaimExpires
    <3> QED
        BY <2>1, <3>1, <3>2, <1>i, <1>h, <1>c, <1>o, <1>n DEF Counted
  <2> QED
      BY <2>2, <2>3
<1>3. ASSUME NEW t \in Tick, SelectPending(t) PROVE Counted(x)'
  <2>1. UNCHANGED <<rows, log, expiries, resends>>
      BY <1>3 DEF SelectPending, counts
  <2>2. /\ \A u \in Tick \ {t} : ticks'[u] = ticks[u]
        /\ ticks'[t].pc = "claim"
      BY <1>3, <1>d DEF SelectPending
  <2>3. Holders(x)' \in SUBSET Holders(x) /\ Unsent(x)' \in SUBSET Unsent(x)
      BY <2>2 DEF Holders, Unsent, Sends
  <2>4. /\ Cardinality(Holders(x)') <= Cardinality(Holders(x))
        /\ Cardinality(Unsent(x)') <= Cardinality(Unsent(x))
        /\ Cardinality(Holders(x)') \in Nat /\ Cardinality(Unsent(x)') \in Nat
      BY <2>3, <1>3, <1>n, TicksFinite, TicksChange
  <2> QED
      BY <1>c, <1>s, <1>n, <2>1, <2>4 DEF Open
\* What a claim of the rows S does to the row.
<1>f. ASSUME NEW S \in SUBSET Event, \A e \in S : Eligible(e), rows' = Claim(S)
      PROVE  /\ rows'[x].attempts = rows[x].attempts
             /\ Open(x)' = IF x \in S THEN 0 ELSE Open(x)
             /\ x \in S => Open(x) = 1 /\ rows[x].attempts <= MaxAttempts - 1
    BY <1>f, <1>i, <1>n, ClaimTable DEF Open, Eligible
<1>4. ASSUME NEW t \in Tick, FetchPending(t) \/ FetchPendingThrows(t) PROVE Counted(x)'
  <2>0. PICK S \in SUBSET Event : S = ticks[t].batch
      BY <1>d DEF TickState
  <2>1. /\ UNCHANGED <<log, expiries, resends>> /\ ticks[t].pc = "claim"
        /\ \A u \in Tick \ {t} : ticks'[u] = ticks[u]
        /\ rows' = Claim(S) \/ rows' = rows
      BY <1>4, <1>d, <2>0 DEF FetchPending, FetchPendingThrows, counts
  <2>2. \A e \in S : Eligible(e)
      BY <1>i, <2>0, <2>1 DEF Picking
  <2>3. CASE FetchPending(t) /\ x \in S
    <3>0. rows' = Claim(S) /\ ticks'[t].pc = "send" /\ ticks'[t].batch = ticks[t].batch
        BY <1>d, <2>0, <2>3 DEF FetchPending, TickState
    <3>1. Holders(x)' = Holders(x) \union {t} /\ Unsent(x)' = Unsent(x) \union {t}
        BY <2>0, <2>1, <2>3, <3>0 DEF Holders, Unsent, Sends
    <3>2. /\ Cardinality(Holders(x)') <= Cardinality(Holders(x)) + 1
          /\ Cardinality(Unsent(x)') <= Cardinality(Unsent(x)) + 1
          /\ Cardinality(Holders(x)') \in Nat /\ Cardinality(Unsent(x)') \in Nat
          /\ Cardinality(Holders(x)') <= Cardinality(Tick)
        BY <3>1, <1>n, TicksChange, TicksFinite
    <3>3. /\ rows'[x].attempts = rows[x].attempts /\ Open(x)' = 0
          /\ Open(x) = 1 /\ rows[x].attempts <= MaxAttempts - 1
        BY <1>f, <2>2, <2>3, <3>0
    <3> QED
        BY <2>1, <3>2, <3>3, <1>c, <1>i, <1>n DEF Counted
  <2>4. CASE FetchPendingThrows(t) \/ x \notin S
    <3>1. Holders(x)' \in SUBSET Holders(x) /\ Unsent(x)' \in SUBSET Unsent(x)
      <4>1. x \notin ticks'[t].batch
        <5>1. CASE FetchPending(t)
            BY <5>1, <1>d, <2>0, <2>4 DEF FetchPending, FetchPendingThrows, IdleTick, TickState
        <5>2. CASE FetchPendingThrows(t)
            BY <5>2, <1>d DEF FetchPendingThrows, IdleTick, TickState
        <5> QED
            BY <1>4, <5>1, <5>2
      <4> QED
          BY <2>1, <4>1 DEF Holders, Unsent, Sends
    <3>2. /\ Cardinality(Holders(x)') <= Cardinality(Holders(x))
          /\ Cardinality(Unsent(x)') <= Cardinality(Unsent(x))
          /\ Cardinality(Holders(x)') \in Nat /\ Cardinality(Unsent(x)') \in Nat
        BY <3>1, <1>4, <1>n, TicksFinite, TicksChange
    <3>3. Open(x)' <= Open(x) /\ rows'[x].attempts = rows[x].attempts
      <4>1. CASE rows' = rows
          BY <4>1, <1>n DEF Open
      <4>2. CASE rows' = Claim(S)
          BY <4>2, <1>f, <2>2, <1>n
      <4> QED
          BY <2>1, <4>1, <4>2
    <3> QED
        BY <2>1, <3>2, <3>3, <1>c, <1>s, <1>o, <1>n
  <2> QED
      BY <1>4, <2>3, <2>4
<1>5. ASSUME NEW t \in Tick, NEW e \in Event, SendOk(t, e) \/ SendRejected(t, e)
      PROVE  Counted(x)'
  <2>1. UNCHANGED <<rows, expiries, resends>> /\ log' \in {log, Append(log, e)}
      BY <1>5 DEF SendOk, SendRejected, counts
  <2>2. /\ \A u \in Tick \ {t} : ticks'[u] = ticks[u]
        /\ ticks[t].pc = "send" /\ e \in ticks[t].batch
        /\ ticks'[t].pc \in {"mark", "fail"} /\ ticks'[t].cur = e
        /\ ticks'[t].batch = ticks[t].batch
      BY <1>5, <1>d DEF SendOk, SendRejected, Sending, TickState
  <2>3. Open(x)' = Open(x)
      BY <2>1 DEF Open
  <2>4. Copies(x)' = Copies(x) \/ (x = e /\ Copies(x)' = Copies(x) + 1)
      BY <2>1, <1>c, <1>d, CopiesAfterAppend
  <2>5. CASE x # e
    <3>1. Holders(x)' = Holders(x) /\ Unsent(x)' = Unsent(x)
        BY <2>2, <2>5, OthersStay
    <3> QED
        BY <2>1, <2>3, <2>4, <2>5, <3>1, <1>s, <1>n
  <2>6. CASE x = e
    <3>1. Holders(x)' = Holders(x)
        BY <2>2, <2>6 DEF Holders
    <3>2. Unsent(x)' = Unsent(x) \ {t} /\ t \in Unsent(x)
        BY <2>2, <2>6 DEF Unsent, Sends
    <3>3. Cardinality(Unsent(x)') = Cardinality(Unsent(x)) - 1
        BY <3>2, <1>n, TicksChange
    <3>4. Cardinality(Holders(x)') = Cardinality(Holders(x))
        BY <3>1
    <3>5. /\ Copies(x)' <= Copies(x) + 1 /\ Copies(x)' \in Nat
          /\ rows'[x].attempts = rows[x].attempts /\ expiries'[x] = expiries[x]
          /\ resends'[x] = resends[x]
        BY <2>1, <2>4, <1>n
    <3> QED
        BY <2>3, <3>3, <3>4, <3>5, <1>i, <1>n DEF Counted
  <2> QED
      BY <2>5, <2>6
<1>6. ASSUME NEW t \in Tick, MarkPublished(t) PROVE Counted(x)'
  <2>1. /\ UNCHANGED <<log, expiries, resends>> /\ ticks[t].pc = "mark" /\ ticks[t].cur \in Event
        /\ rows' = [rows EXCEPT ![ticks[t].cur] = Settled(rows[ticks[t].cur])]
      BY <1>6, <1>i, <1>d DEF MarkPublished, counts, Working, TickState
  <2>2. /\ \A u \in Tick \ {t} : ticks'[u] = ticks[u]
        /\ ticks'[t].batch = ticks[t].batch \ {ticks[t].cur}
        /\ ticks'[t].pc \notin {"claim", "mark", "fail"}
      BY <1>6, <1>i, <1>d, AdvanceType DEF MarkPublished
  <2>3. CASE x = ticks[t].cur
    <3>1. rows'[x].sent /\ rows'[x].attempts = rows[x].attempts
        BY <1>i, <2>1, <2>3, SettledTable
    <3>2. Open(x)' = 0
        BY <3>1 DEF Open
    <3>3. /\ Cardinality(Holders(x)') = Cardinality(Holders(x)) - 1
          /\ Cardinality(Unsent(x)') = Cardinality(Unsent(x))
        BY <1>i, <1>d, <2>1, <2>2, <2>3, RowLeaves
    <3> QED
        BY <1>c, <1>i, <1>n, <2>1, <3>1, <3>2, <3>3 DEF Counted
  <2>4. CASE x # ticks[t].cur
    <3>1. rows'[x] = rows[x]
        BY <1>i, <2>1, <2>4, MarkedTable
    <3>2. Holders(x)' = Holders(x) /\ Unsent(x)' = Unsent(x)
        BY <2>1, <2>2, <2>4, OthersStay
    <3> QED
        BY <1>c, <1>s, <1>n, <2>1, <3>1, <3>2 DEF Open
  <2> QED
      BY <2>3, <2>4
<1>7. ASSUME NEW t \in Tick, MarkFailed(t) PROVE Counted(x)'
  <2>1. /\ UNCHANGED <<log, expiries, resends>> /\ ticks[t].pc = "fail" /\ ticks[t].cur \in Event
        /\ rows' = [rows EXCEPT ![ticks[t].cur] = Retried(rows[ticks[t].cur])]
      BY <1>7, <1>i, <1>d DEF MarkFailed, counts, Working, TickState
  <2>2. /\ \A u \in Tick \ {t} : ticks'[u] = ticks[u]
        /\ ticks'[t].batch = ticks[t].batch \ {ticks[t].cur}
        /\ ticks'[t].pc \notin {"claim", "mark", "fail"}
      BY <1>7, <1>i, <1>d, AdvanceType DEF MarkFailed
  <2>3. CASE x = ticks[t].cur
    <3>1. rows'[x].attempts = rows[x].attempts + 1
        BY <1>i, <2>1, <2>3, RetriedTable
    <3>2. /\ Cardinality(Holders(x)') = Cardinality(Holders(x)) - 1
          /\ Cardinality(Unsent(x)') = Cardinality(Unsent(x))
        BY <1>i, <1>d, <2>1, <2>2, <2>3, RowLeaves
    <3> QED
        BY <1>c, <1>i, <1>n, <1>o, <2>1, <3>1, <3>2 DEF Counted
  <2>4. CASE x # ticks[t].cur
    <3>1. rows'[x] = rows[x]
        BY <1>i, <2>1, <2>4, MarkedTable
    <3>2. Holders(x)' = Holders(x) /\ Unsent(x)' = Unsent(x)
        BY <2>1, <2>2, <2>4, OthersStay
    <3> QED
        BY <1>c, <1>s, <1>n, <2>1, <3>1, <3>2 DEF Open
  <2> QED
      BY <2>3, <2>4
<1>8. ASSUME NEW t \in Tick, MarkPublishedThrows(t) PROVE Counted(x)'
  <2>1. /\ UNCHANGED <<log, expiries, resends>> /\ ticks[t].pc = "mark" /\ ticks[t].cur \in Event
        /\ rows' \in {rows, [rows EXCEPT ![ticks[t].cur] = Settled(rows[ticks[t].cur])]}
      BY <1>8, <1>i, <1>d DEF MarkPublishedThrows, Working, TickState
  <2>2. /\ \A u \in Tick \ {t} : ticks'[u] = ticks[u]
        /\ ticks'[t].batch = ticks[t].batch /\ ticks'[t].cur = ticks[t].cur
        /\ ticks'[t].pc = "fail"
      BY <1>8, <1>d DEF MarkPublishedThrows, TickState
  <2>3. Holders(x)' = Holders(x) /\ Unsent(x)' = Unsent(x)
      BY <2>1, <2>2 DEF Holders, Unsent, Sends
  <2>4. rows'[x] = rows[x] \/ (rows'[x].sent /\ rows'[x].attempts = rows[x].attempts)
      BY <1>i, <2>1, SettledTable
  <2>5. Open(x)' <= Open(x) /\ rows'[x].attempts = rows[x].attempts
      BY <2>4, <1>n DEF Open
  <2> QED
      BY <1>c, <1>s, <1>n, <1>o, <2>1, <2>3, <2>5
<1>9. ASSUME NEW t \in Tick, MarkFailedThrows(t) PROVE Counted(x)'
  <2>1. /\ UNCHANGED <<log, expiries, resends>> /\ ticks[t].pc = "fail" /\ ticks[t].cur \in Event
        /\ rows' \in {rows, [rows EXCEPT ![ticks[t].cur] = Retried(rows[ticks[t].cur])]}
      BY <1>9, <1>i, <1>d DEF MarkFailedThrows, Working, TickState
  <2>2. /\ \A u \in Tick \ {t} : ticks'[u] = ticks[u]
        /\ ticks'[t].batch = {}
      BY <1>9, <1>d DEF MarkFailedThrows, IdleTick
  <2>3. CASE x = ticks[t].cur
    <3>1. \/ Open(x)' = Open(x) /\ rows'[x].attempts = rows[x].attempts
          \/ rows'[x].attempts = rows[x].attempts + 1
        BY <1>i, <2>1, <2>3, RetriedTable DEF Open
    <3>2. /\ Cardinality(Holders(x)') = Cardinality(Holders(x)) - 1
          /\ Cardinality(Unsent(x)') = Cardinality(Unsent(x))
        BY <1>i, <1>d, <2>1, <2>2, <2>3, RowLeaves
    <3> QED
        BY <1>c, <1>i, <1>n, <1>o, <2>1, <3>1, <3>2 DEF Counted
  <2>4. CASE x # ticks[t].cur
    <3>1. rows'[x] = rows[x]
        BY <1>i, <2>1, <2>4, MarkedTable
    <3>2. Holders(x)' \in SUBSET Holders(x) /\ Unsent(x)' \in SUBSET Unsent(x)
        BY <2>2 DEF Holders, Unsent, Sends
    <3>3. /\ Cardinality(Holders(x)') <= Cardinality(Holders(x))
          /\ Cardinality(Unsent(x)') <= Cardinality(Unsent(x))
          /\ Cardinality(Holders(x)') \in Nat /\ Cardinality(Unsent(x)') \in Nat
        BY <3>2, <1>n, TicksFinite, TicksChange, <1>9
    <3> QED
        BY <1>c, <1>s, <1>n, <2>1, <3>1, <3>3 DEF Open
  <2> QED
      BY <2>3, <2>4
<1>10. ASSUME NEW p \in Process, Crash(p) PROVE Counted(x)'
  <2>1. UNCHANGED <<rows, log, expiries, resends>>
      BY <1>10 DEF Crash
  <2>2. \A u \in Tick : ticks'[u] = ticks[u] \/ ticks'[u].batch = {}
      BY <1>10, <1>d DEF Crash, IdleTick
  <2>3. Holders(x)' \in SUBSET Holders(x) /\ Unsent(x)' \in SUBSET Unsent(x)
      BY <2>2 DEF Holders, Unsent, Sends
  <2>4. PICK s \in Tick : TRUE
      BY <1>10 DEF Crash, Tick
  <2>5. /\ Cardinality(Holders(x)') <= Cardinality(Holders(x))
        /\ Cardinality(Unsent(x)') <= Cardinality(Unsent(x))
        /\ Cardinality(Holders(x)') \in Nat /\ Cardinality(Unsent(x)') \in Nat
      BY <2>3, <2>4, <1>n, TicksFinite, TicksChange
  <2> QED
      BY <1>c, <1>s, <1>n, <2>1, <2>5 DEF Open
<1>12. ASSUME NEW t \in Tick, NEW e \in Event, SendAgain(t, e) PROVE Counted(x)'
  <2>1. /\ UNCHANGED <<rows, expiries>> /\ log' = Append(log, e)
        /\ resends' = [resends EXCEPT ![e] = @ + 1]
      BY <1>12 DEF SendAgain
  <2>2. /\ \A u \in Tick \ {t} : ticks'[u] = ticks[u]
        /\ ticks[t].pc = "send" /\ ticks'[t].pc = "send"
        /\ ticks'[t].batch = ticks[t].batch
      BY <1>12, <1>d DEF SendAgain, Sending, TickState
  <2>3. Holders(x)' = Holders(x) /\ Unsent(x)' = Unsent(x) /\ Open(x)' = Open(x)
      BY <2>1, <2>2 DEF Holders, Unsent, Sends, Open
  <2>4. /\ Copies(x)' = IF x = e THEN Copies(x) + 1 ELSE Copies(x)
        /\ resends'[x] = IF x = e THEN resends[x] + 1 ELSE resends[x]
      BY <1>d, <2>1, CopiesAfterAppend
  <2>5. /\ Cardinality(Holders(x)') = Cardinality(Holders(x))
        /\ Cardinality(Unsent(x)') = Cardinality(Unsent(x))
      BY <2>3
  <2>6. rows'[x].attempts = rows[x].attempts /\ expiries'[x] = expiries[x]
      BY <2>1
  <2> QED
      BY <2>3, <2>4, <2>5, <2>6, <1>i, <1>n DEF Counted
<1>11. CASE UNCHANGED vars
  <2>1. UNCHANGED <<rows, ticks, log, expiries, resends>>
      BY <1>11 DEF vars
  <2> QED
      BY <2>1, <1>c, <1>h, <1>s, <1>n DEF Open
<1> QED
    BY <1>1, <1>2, <1>3, <1>4, <1>5, <1>6, <1>7, <1>8, <1>9, <1>10, <1>11, <1>12
       DEF Next, TickStep, TickThrows

LEMMA CountInvAlways == Spec => [](TypeOK /\ \A e \in Event : Counted(e))
<1>1. CountInv => TypeOK /\ \A e \in Event : Counted(e)
    BY DEF CountInv, SentInv
<1> QED
    BY <1>1, CountInvInit, CountInvStep, PTL DEF Spec

\* The claim excludes: the ticks on one row are at most one, plus one for
\* every claim on it that turned 30 seconds old under a running tick
\* (locked_at in the WHERE clause of fetchPending).
THEOREM ClaimsAreExclusive == Spec => []ClaimsExclude
<1>1. TypeOK /\ (\A e \in Event : Counted(e)) => ClaimsExclude
  <2> SUFFICES ASSUME TypeOK, NEW e \in Event, Counted(e)
               PROVE  Cardinality(Holders(e)) <= 1 + expiries[e].early
      BY DEF ClaimsExclude
  <2> QED
      BY CountTypes DEF Counted
<1> QED
    BY <1>1, CountInvAlways, PTL

\* Duplicates have causes: Kafka holds at most one copy of an event, plus one
\* for every failed attempt, every claim on it that expired and every repeated
\* request inside a send.
THEOREM DuplicatesAreAccounted == Spec => []CopiesAreAccounted
<1>1. TypeOK /\ (\A e \in Event : Counted(e)) => CopiesAreAccounted
  <2> SUFFICES ASSUME TypeOK, NEW e \in Event, Counted(e)
               PROVE  Copies(e) <= 1 + rows[e].attempts + expiries[e].early
                                     + expiries[e].late + resends[e]
      BY DEF CopiesAreAccounted
  <2> QED
      BY CountTypes DEF Counted
<1> QED
    BY <1>1, CountInvAlways, PTL

\* attempts may overrun max_attempts, which only fetchPending reads, by less
\* than the number of ticks.
THEOREM AttemptsAreBounded == Spec => []AttemptsBounded
<1>1. TypeOK /\ (\A e \in Event : Counted(e)) => AttemptsBounded
  <2> SUFFICES ASSUME TypeOK, NEW e \in Event, Counted(e)
               PROVE  rows[e].attempts < MaxAttempts + Cardinality(Tick)
      BY DEF AttemptsBounded
  <2> QED
      BY CountTypes DEF Counted
<1> QED
    BY <1>1, CountInvAlways, PTL
=============================================================================
