-------------------------- MODULE StorefrontProofs --------------------------
(***************************************************************************)
(* What the browser and the API guarantee together, for any number of      *)
(* submissions and refreshes, any overlap of their attempts, and any       *)
(* number of faults: one order per submission, a screen that never runs    *)
(* ahead of the backend, and no loading indicator without a call.  At the  *)
(* end, that the API behind the browser is Checkout still.                 *)
(***************************************************************************)
EXTENDS Storefront, TLAPS, FiniteSetTheorems

-----------------------------------------------------------------------------
(* The orders: one per key. *)

RowsNamed == \A row \in orders : row.id \in Attempt /\ row.key = IdempotencyKey[row.id]
OneRowPerKey == \A p, q \in orders : p.key = q.key => p = q
OrdersOK == RowsNamed /\ OneRowPerKey

\* What an API step does to the orders: nothing, or it adds the row of its
\* attempt under a key that has none.
AddsRow(a) == /\ API!OrdersOf(IdempotencyKey[a]) = {}
              /\ \E row : /\ orders' = orders \union {row}
                          /\ row.id = a /\ row.key = IdempotencyKey[a]

\* What it does to the answer of its attempt: nothing, a refusal, or the name
\* of an order that is committed by now.
Answers(a) ==
    \/ replies' = replies
    \/ \E outcome \in {"created", "existing", "conflict", "error"},
          id \in Committed' \union {NoOrder} :
          /\ replies' = [replies EXCEPT ![a] = [outcome |-> outcome, order |-> id]]
          /\ outcome \in {"created", "existing"} => id \in Committed'

LEMMA ServeShape ==
    ASSUME NEW a \in Attempt, Serve(a)
    PROVE  /\ orders' = orders \/ AddsRow(a)
           /\ Answers(a)
<1> USE DEF Answers, Committed
<1>1. CASE API!FindExisting(a)
  <2>1. PICK row \in API!OrdersOf(IdempotencyKey[a]) : API!Reply(a, "existing", row.id)
    BY <1>1 DEF API!FindExisting
  <2>2. orders' = orders /\ row.id \in Committed'
    BY <1>1, <2>1 DEF API!FindExisting, API!OrdersOf
  <2>3. replies' = [replies EXCEPT ![a] = [outcome |-> "existing", order |-> row.id]]
    BY <2>1 DEF API!Reply
  <2> QED
    BY <2>2, <2>3
<1>2. CASE API!FindNothing(a) \/ API!ChargeCard(a)
  BY <1>2 DEF API!FindNothing, API!ChargeCard
<1>3. CASE API!InsertOrder(a)
  <2> DEFINE row == [id |-> a, key |-> IdempotencyKey[a], payment |-> requests[a].answer]
  <2>1. orders' = orders \union {row} /\ API!OrdersOf(IdempotencyKey[a]) = {}
    BY <1>3 DEF API!InsertOrder
  <2>2. row.id = a /\ row.key = IdempotencyKey[a]
    OBVIOUS
  <2>3. AddsRow(a) /\ a \in Committed'
    <3> HIDE DEF row
    <3> QED
      BY <2>1, <2>2 DEF AddsRow
  <2>4. replies' = [replies EXCEPT ![a] = [outcome |-> "created", order |-> a]]
    BY <1>3 DEF API!InsertOrder, API!Reply
  <2> QED
    BY <2>3, <2>4
<1>4. CASE API!InsertConflicts(a)
  BY <1>4 DEF API!InsertConflicts, API!Reply
<1>5. CASE API!InsertFails(a)
  <2> DEFINE row == [id |-> a, key |-> IdempotencyKey[a], payment |-> requests[a].answer]
  <2>1. /\ orders' = orders \/ orders' = orders \union {row}
        /\ API!OrdersOf(IdempotencyKey[a]) = {}
    BY <1>5 DEF API!InsertFails
  <2>2. row.id = a /\ row.key = IdempotencyKey[a]
    OBVIOUS
  <2>3. orders' = orders \/ AddsRow(a)
    <3> HIDE DEF row
    <3> QED
      BY <2>1, <2>2 DEF AddsRow
  <2>4. replies' = [replies EXCEPT ![a] = [outcome |-> "error", order |-> NoOrder]]
    BY <1>5 DEF API!InsertFails, API!Reply
  <2> QED
    BY <2>3, <2>4
<1>6. CASE API!Crash(a)
  BY <1>6 DEF API!Crash, API!Reply
<1> QED
  BY <1>1, <1>2, <1>3, <1>4, <1>5, <1>6 DEF Serve, API!RequestStep

\* Only the API writes the orders and the answers.
LEMMA ApiAlone ==
    ASSUME [Next]_vars
    PROVE  \/ \E a \in Attempt : Serve(a)
           \/ UNCHANGED <<orders, replies>>
<1> USE DEF server, client
<1>1. ASSUME NEW a \in Attempt, PaymentMoves(a) PROVE UNCHANGED <<orders, replies>>
  BY <1>1 DEF PaymentMoves
<1>2. ASSUME NEW f \in Refresh, NEW o, ServeRead(f) \/ StartRefresh(f, o)
      PROVE  UNCHANGED <<orders, replies>>
  BY <1>2 DEF ServeRead, StartRefresh, Begin
<1>3. ASSUME NEW s \in Submission, Submit(s) PROVE UNCHANGED <<orders, replies>>
  BY <1>3 DEF Submit, Begin
<1>4. ASSUME NEW c \in Call, Proceed(c) \/ BodyArrives(c) PROVE UNCHANGED <<orders, replies>>
  BY <1>4 DEF Proceed, BodyArrives, PostSucceeds, PostRefused, GetSucceeds, GetRefused,
              Answered, TimesOut, Resume
<1>5. ASSUME NEW c \in Call, ExchangeBreaks(c) \/ BodyBreaks(c)
      PROVE  UNCHANGED <<orders, replies>>
  BY <1>5 DEF ExchangeBreaks, BodyBreaks
<1>6. CASE Reset \/ UNCHANGED vars
  BY <1>6 DEF Reset, vars
<1> QED
  BY <1>1, <1>2, <1>3, <1>4, <1>5, <1>6 DEF Next

\* A new row has an id and a key that no other has.
LEMMA NewRow ==
    ASSUME OrdersOK, NEW a \in Attempt, AddsRow(a)
    PROVE  /\ OrdersOK'
           /\ a \notin Committed
           /\ \A row \in orders' \ orders : row.id = a
           /\ Committed' = Committed \union {a}
<1>1. PICK new : orders' = orders \union {new} /\ new.id = a /\ new.key = IdempotencyKey[a]
  BY DEF AddsRow
<1>2. \A row \in orders : row.key # IdempotencyKey[a]
  BY DEF AddsRow, API!OrdersOf
<1> QED
  BY <1>1, <1>2 DEF OrdersOK, RowsNamed, OneRowPerKey, Committed

LEMMA OrdersStep == ASSUME OrdersOK, [Next]_vars PROVE OrdersOK'
<1>1. CASE \E a \in Attempt : Serve(a)
  BY <1>1, ServeShape, NewRow DEF OrdersOK, RowsNamed, OneRowPerKey
<1>2. CASE UNCHANGED orders
  BY <1>2 DEF OrdersOK, RowsNamed, OneRowPerKey
<1> QED
  BY <1>1, <1>2, ApiAlone

LEMMA OneOrderEach == ASSUME OrdersOK PROVE RetriesMakeOneOrder
<1> SUFFICES ASSUME NEW s \in Submission
             PROVE  Cardinality({o \in Committed : o[1] = s}) <= 1
  BY DEF RetriesMakeOneOrder
<1> DEFINE mine == {o \in Committed : o[1] = s}
<1>1. ASSUME NEW o \in mine, NEW p \in mine PROVE o = p
  <2>1. PICK row \in orders : row.id = o
    BY DEF Committed
  <2>2. PICK other \in orders : other.id = p
    BY DEF Committed
  <2>3. row.key = s /\ other.key = s
    BY <2>1, <2>2 DEF OrdersOK, RowsNamed, IdempotencyKey
  <2> QED
    BY <2>1, <2>2, <2>3 DEF OrdersOK, OneRowPerKey
<1>2. CASE mine = {}
  BY <1>2, FS_EmptySet
<1>3. CASE mine # {}
  <2>1. PICK o \in mine : TRUE
    BY <1>3
  <2>2. mine = {o}
    BY <1>1, <2>1
  <2>3. Cardinality(mine) = 1
    BY <2>2, FS_Singleton
  <2> QED
    BY <2>3
<1> QED
  BY <1>2, <1>3

\* A submission becomes at most one order, however many attempts of it the
\* API works on at once (the key of submitOrder, the UNIQUE column).
THEOREM SubmissionsMakeOneOrder == Spec => []RetriesMakeOneOrder
<1>1. Init => OrdersOK
  BY DEF Init, API!Init, OrdersOK, RowsNamed, OneRowPerKey
<1>2. OrdersOK /\ [Next]_vars => OrdersOK'
  BY OrdersStep
<1>3. OrdersOK => RetriesMakeOneOrder
  BY OneOrderEach
<1> QED
  BY <1>1, <1>2, <1>3, PTL DEF Spec
-----------------------------------------------------------------------------
(* The screen: what is known of an order, and who knows it. *)

\* p was true of the order once, and if nothing moved since it still is.
Known(order, p) ==
    /\ order \in Committed /\ p.version \in Nat
    /\ p.version <= payments[order].version
    /\ p.version = payments[order].version => p.status = payments[order].status

\* The answer a call reads: that of its current attempt, or its own.
Source(c) == IF c \in Submission THEN Current(c) ELSE c

PaymentsTyped == /\ payments = [o \in Attempt |-> payments[o]]
                 /\ \A o \in Attempt : payments[o].version \in Nat
RepliesTyped == replies = [a \in Attempt |-> replies[a]]
HeardTyped == heard = [x \in Attempt \union Refresh |-> heard[x]]
CallsTyped == calls \in [Call -> [pc : {"idle", "sent", "body", "pause", "done"},
                                 attempt : Nat, target : Attempt \union {NoOrder}]]
StoreTyped == /\ store = [order |-> store.order, payment |-> store.payment,
                          stage |-> store.stage, loading |-> store.loading,
                          error |-> store.error]
              /\ store.payment.version \in Nat
Typed == PaymentsTyped /\ RepliesTyped /\ HeardTyped /\ CallsTyped /\ StoreTyped

AttemptsBounded == \A c \in Call : /\ calls[c].attempt <= Retries(c)
                                   /\ calls[c].pc = "pause" => calls[c].attempt < Retries(c)
RepliesCommitted == \A a \in Attempt : replies[a].order # NoOrder => replies[a].order \in Committed
TargetsCommitted == \A f \in Refresh : calls[f].target \in Committed \union {NoOrder}
HeardTrue == \A x \in Attempt \union Refresh :
                 heard[x] = NotHeard \/ Known(heard[x].order, heard[x].payment)
AnswersHeard == \A a \in Attempt :
                   replies[a].outcome \in {"created", "existing"} => heard[a] # NotHeard
BodyHeard == \A c \in Call : calls[c].pc = "body" => heard[Source(c)] # NotHeard

IInv == /\ OrdersOK /\ Typed /\ AttemptsBounded
        /\ RepliesCommitted /\ TargetsCommitted
        /\ HeardTrue /\ AnswersHeard /\ BodyHeard
        /\ ShownIsTrue /\ LoadingHasCall

LEMMA Start == Init => IInv
<1> SUFFICES ASSUME Init PROVE IInv
  OBVIOUS
<1> USE DEF Init, API!Init
<1>1. OrdersOK
  BY DEF OrdersOK, RowsNamed, OneRowPerKey
<1>2. Typed
  BY DEF Typed, PaymentsTyped, RepliesTyped, HeardTyped, CallsTyped, StoreTyped,
         NotOrdered, EmptyStore
<1>3. AttemptsBounded /\ TargetsCommitted /\ BodyHeard
  BY DEF AttemptsBounded, TargetsCommitted, BodyHeard, Retries, PostRetries, GetRetries, Call
<1>4. RepliesCommitted /\ HeardTrue /\ AnswersHeard
  BY DEF RepliesCommitted, HeardTrue, AnswersHeard, API!NoReply
<1>5. ShownIsTrue /\ LoadingHasCall
  BY DEF ShownIsTrue, LoadingHasCall, EmptyStore
<1> QED
  BY <1>1, <1>2, <1>3, <1>4, <1>5 DEF IInv

\* An answer that names an order is not mistaken for none.
LEMMA KnownIsHeard ==
    ASSUME OrdersOK, NEW x, x.order \in Committed
    PROVE  x # NotHeard
BY NameAssumption DEF OrdersOK, RowsNamed, Committed, NotHeard

\* A call reads an answer that somebody may write.
LEMMA SourceInDomain ==
    ASSUME CallsTyped, AttemptsBounded, NEW c \in Call
    PROVE  /\ c \in Submission => Source(c) = Current(c) /\ Source(c) \in Attempt
           /\ c \notin Submission => c \in Refresh /\ Source(c) = c
BY DEF Source, Current, Attempt, Call, AttemptsBounded, Retries, CallsTyped, PostRetries

-----------------------------------------------------------------------------
(* The backend's steps. *)

\* The backend moves forward: an order stays, and its payment is as it was or
\* has a higher version.
Forward == /\ Committed \subseteq Committed'
           /\ \A o \in Committed : \/ payments'[o] = payments[o]
                                  \/ payments'[o].version > payments[o].version

\* Then what was known, and what is shown, is still known and still right.
LEMMA KnowledgeLasts ==
    ASSUME OrdersOK, PaymentsTyped, PaymentsTyped', Forward, NEW o, NEW p, Known(o, p)
    PROVE  /\ o \in Committed' /\ p.version \in Nat
           /\ p.version <= payments'[o].version
           /\ p.version = payments'[o].version => p.status = payments'[o].status
<1>1. o \in Attempt /\ o \in Committed /\ o \in Committed'
  BY DEF Forward, Known, OrdersOK, RowsNamed, Committed
<1>2. payments[o].version \in Nat /\ payments'[o].version \in Nat /\ p.version \in Nat
  BY <1>1 DEF PaymentsTyped, Known
<1>3. CASE payments'[o] = payments[o]
  BY <1>1, <1>2, <1>3 DEF Known
<1>4. CASE payments'[o].version > payments[o].version
  BY <1>1, <1>2, <1>4 DEF Known
<1> QED
  BY <1>1, <1>3, <1>4 DEF Forward

LEMMA ScreenStaysTrue ==
    ASSUME OrdersOK, Typed, PaymentsTyped', Forward, ShownIsTrue, store' = store
    PROVE  ShownIsTrue'
<1> SUFFICES ASSUME store.order # NoOrder
             PROVE  LET p == payments'[store.order]
                    IN  /\ store.order \in Committed'
                        /\ store.payment.version <= p.version
                        /\ store.payment.version = p.version =>
                              /\ store.stage = "confirmed" => p.status = "PAGAMENTO_CONFIRMADO"
                              /\ store.stage = "failed" => p.status = "PAGAMENTO_FALHOU"
  BY DEF ShownIsTrue
<1>1. store.order \in Attempt /\ store.order \in Committed
  BY DEF ShownIsTrue, OrdersOK, RowsNamed, Committed
<1>2. /\ payments[store.order].version \in Nat /\ payments'[store.order].version \in Nat
      /\ store.payment.version \in Nat
  BY <1>1 DEF Typed, PaymentsTyped, StoreTyped
<1> QED
  BY <1>1, <1>2 DEF Forward, ShownIsTrue

\* A step that leaves the browser alone, and hears nothing new of a call that
\* was not told anything: everything about the browser stays.
LEMMA ServeKeeps == ASSUME IInv, NEW a \in Attempt, Serve(a) PROVE IInv'
<1> USE DEF IInv
<1>1. OrdersOK' /\ Committed \subseteq Committed'
  BY ServeShape, NewRow DEF OrdersOK, RowsNamed, OneRowPerKey, Committed
<1>2. Committed' \subseteq Attempt
  BY <1>1 DEF OrdersOK, RowsNamed, Committed
<1>3. \A o \in Committed : payments'[o] = payments[o]
  <2> SUFFICES ASSUME NEW o \in Committed PROVE payments'[o] = payments[o]
    OBVIOUS
  <2>1. o \in Attempt
    BY <1>1, <1>2
  <2>2. ~ \E row \in orders' \ orders : row.id = o
    BY ServeShape, NewRow
  <2> QED
    BY <2>1, <2>2 DEF Serve
<1>4. PaymentsTyped'
  <2>1. ASSUME NEW o \in Attempt PROVE payments'[o].version \in Nat
    BY DEF Serve, Inserted, Typed, PaymentsTyped
  <2>2. payments' = [o \in Attempt |-> payments'[o]]
    BY DEF Serve
  <2> QED
    BY <2>1, <2>2 DEF PaymentsTyped
<1>5. Forward
  BY <1>1, <1>3 DEF Forward
<1>6. UNCHANGED <<calls, store>>
  BY DEF Serve, client
<1>7. RepliesTyped' /\ RepliesCommitted'
  BY <1>1, ServeShape DEF Answers, Typed, RepliesTyped, RepliesCommitted
<1>8. \/ heard' = heard /\ replies'[a].order = NoOrder
      \/ /\ replies'[a].order \in Committed'
         /\ heard' = [heard EXCEPT ![a] = [order   |-> replies'[a].order,
                                          payment |-> payments'[replies'[a].order]]]
  BY <1>7 DEF Serve, RepliesCommitted
<1>9. HeardTyped'
  BY <1>8 DEF Typed, HeardTyped
<1>10. ASSUME NEW x \in Attempt \union Refresh
       PROVE  \/ heard'[x] = heard[x]
              \/ /\ heard'[x].order \in Committed'
                 /\ heard'[x].payment = payments'[heard'[x].order]
  BY <1>8 DEF Typed, HeardTyped
<1>11. HeardTrue'
  <2> SUFFICES ASSUME NEW x \in Attempt \union Refresh, heard'[x] # NotHeard
               PROVE  Known(heard[x].order, heard[x].payment)'
    BY DEF HeardTrue, NotHeard, NotOrdered
  <2>1. CASE heard'[x] = heard[x]
    <3>1. Known(heard[x].order, heard[x].payment)
      BY <2>1 DEF HeardTrue
    <3> QED
      BY <1>4, <1>5, <2>1, <3>1, KnowledgeLasts DEF Known, Typed
  <2>2. CASE /\ heard'[x].order \in Committed'
             /\ heard'[x].payment = payments'[heard'[x].order]
    BY <1>2, <1>4, <2>2 DEF Known, PaymentsTyped
  <2> QED
    BY <1>10, <2>1, <2>2
<1>12. ASSUME NEW x \in Attempt \union Refresh, heard[x] # NotHeard
       PROVE  heard'[x] # NotHeard
  BY <1>10, <1>12, <1>2, NameAssumption DEF NotHeard
<1>13. AnswersHeard'
  <2> SUFFICES ASSUME NEW b \in Attempt, replies'[b].outcome \in {"created", "existing"}
               PROVE  heard'[b] # NotHeard
    BY DEF AnswersHeard, NotHeard, NotOrdered
  <2>1. CASE replies'[b] = replies[b]
    BY <1>12, <2>1 DEF AnswersHeard
  <2>2. CASE b = a /\ replies'[a].order \in Committed'
    <3>1. replies'[a].order # NoOrder
      BY <1>2, <2>2, NameAssumption
    <3>2. heard'[a].order = replies'[a].order
      BY <1>8, <3>1 DEF Typed, HeardTyped
    <3> QED
      BY <2>2, <3>1, <3>2 DEF NotHeard
  <2>3. replies'[b] = replies[b] \/ (b = a /\ replies'[a].order \in Committed')
    BY ServeShape DEF Answers, Typed, RepliesTyped
  <2> QED
    BY <2>1, <2>2, <2>3
<1>14. BodyHeard'
  <2> SUFFICES ASSUME NEW c \in Call, calls[c].pc = "body" PROVE heard'[Source(c)] # NotHeard
    BY <1>6 DEF BodyHeard, NotHeard, NotOrdered, Source, Current
  <2>1. Source(c) \in Attempt \union Refresh
    BY SourceInDomain DEF Typed
  <2> QED
    BY <1>12, <2>1 DEF BodyHeard
<1>15. ShownIsTrue'
  BY <1>4, <1>5, <1>6, ScreenStaysTrue
<1>16. CallsTyped' /\ StoreTyped' /\ AttemptsBounded' /\ LoadingHasCall'
  BY <1>6 DEF Typed, CallsTyped, StoreTyped, AttemptsBounded, LoadingHasCall, Underway
<1>17. TargetsCommitted'
  BY <1>1, <1>6 DEF TargetsCommitted
<1> QED
  BY <1>1, <1>4, <1>7, <1>9, <1>11, <1>13, <1>14, <1>15, <1>16, <1>17 DEF Typed

LEMMA PaymentMovesKeeps == ASSUME IInv, NEW o \in Attempt, PaymentMoves(o) PROVE IInv'
<1> USE DEF IInv
<1>1. UNCHANGED <<orders, replies, calls, store, heard>>
  BY DEF PaymentMoves, client
<1>2. PaymentsTyped' /\ payments'[o].version > payments[o].version
      /\ \A p \in Attempt \ {o} : payments'[p] = payments[p]
  <2>1. PICK status : payments' = [payments EXCEPT ![o] = [status |-> status,
                                                           version |-> payments[o].version + 1]]
    BY DEF PaymentMoves, Typed, PaymentsTyped
  <2> QED
    BY <2>1 DEF Typed, PaymentsTyped
<1>3. Forward
  BY <1>1, <1>2 DEF Forward, Committed, OrdersOK, RowsNamed
<1>4. HeardTrue'
  <2> SUFFICES ASSUME NEW x \in Attempt \union Refresh, heard[x] # NotHeard
               PROVE  Known(heard[x].order, heard[x].payment)'
    BY <1>1 DEF HeardTrue, NotHeard, NotOrdered
  <2>1. Known(heard[x].order, heard[x].payment)
    BY DEF HeardTrue
  <2> QED
    BY <1>1, <1>2, <1>3, <2>1, KnowledgeLasts DEF Known, Typed
<1>5. ShownIsTrue'
  BY <1>1, <1>2, <1>3, ScreenStaysTrue
<1>6. OrdersOK' /\ RepliesCommitted' /\ TargetsCommitted' /\ AnswersHeard' /\ BodyHeard'
  BY <1>1 DEF OrdersOK, RowsNamed, OneRowPerKey, RepliesCommitted, TargetsCommitted, Committed,
              AnswersHeard, BodyHeard, Source, Current, NotHeard, NotOrdered
<1>7. Typed' /\ AttemptsBounded' /\ LoadingHasCall'
  BY <1>1, <1>2 DEF Typed, RepliesTyped, HeardTyped, CallsTyped, StoreTyped, AttemptsBounded,
                    LoadingHasCall, Underway
<1> QED
  BY <1>4, <1>5, <1>6, <1>7

-----------------------------------------------------------------------------
(* The browser's steps. *)

\* A call moves on by what it has heard, which a refresh may forget, and the
\* screen is right afterwards.
LEMMA CallMoves ==
    ASSUME IInv, NEW c \in Call,
           UNCHANGED <<orders, replies, payments>>, HeardTyped',
           \A x \in Attempt \union Refresh :
              heard'[x] = heard[x] \/ (x = c /\ heard'[x] = NotHeard),
           CallsTyped', \A d \in Call \ {c} : calls'[d] = calls[d],
           calls'[c].attempt <= Retries(c),
           calls'[c].pc = "pause" => calls'[c].attempt < Retries(c),
           calls'[c].pc = "body" => heard'[Source(c)'] # NotHeard,
           c \in Refresh => calls'[c].target \in Committed \union {NoOrder},
           StoreTyped', ShownIsTrue', LoadingHasCall'
    PROVE  IInv'
<1> USE DEF IInv
<1>1. OrdersOK' /\ Committed' = Committed
  BY DEF OrdersOK, RowsNamed, OneRowPerKey, Committed
<1>2. Typed'
  BY DEF Typed, PaymentsTyped, RepliesTyped
<1>3. AttemptsBounded'
  BY DEF AttemptsBounded, Retries, PostRetries, GetRetries
<1>4. RepliesCommitted' /\ TargetsCommitted'
  BY <1>1 DEF RepliesCommitted, TargetsCommitted, Call
<1>5. HeardTrue' /\ AnswersHeard'
  <2>1. HeardTrue'
    BY <1>1 DEF HeardTrue, Known, NotHeard, NotOrdered
  <2>2. AnswersHeard'
    BY NameAssumption DEF AnswersHeard, NotHeard, NotOrdered
  <2> QED
    BY <2>1, <2>2
<1>6. BodyHeard'
  <2> SUFFICES ASSUME NEW d \in Call, calls'[d].pc = "body"
               PROVE  heard'[Source(d)'] # NotHeard
    BY DEF BodyHeard, NotHeard, NotOrdered, Source, Current
  <2>1. CASE d = c
    BY <2>1
  <2>2. CASE d # c
    <3>1. calls'[d] = calls[d]
      BY <2>2
    <3>2. Source(d)' = Source(d)
      BY <3>1 DEF Source, Current
    <3>3. Source(d) \in Attempt \union Refresh /\ Source(d) # c
      BY <2>2, SourceInDomain, NameAssumption DEF Typed
    <3> QED
      BY <3>1, <3>2, <3>3 DEF BodyHeard
  <2> QED
    BY <2>1, <2>2
<1> QED
  BY <1>1, <1>2, <1>3, <1>4, <1>5, <1>6

\* The screen keeps its order, and its stage is one that claims nothing, or
\* the one it had.
LEMMA ScreenKeepsOrder ==
    ASSUME ShownIsTrue, UNCHANGED <<orders, payments>>,
           store'.order = store.order, store'.payment = store.payment,
           store'.stage \in {store.stage, "submitting"}
    PROVE  ShownIsTrue'
BY DEF ShownIsTrue, Committed

\* A call starts: the first POST of a submission, or the GET of an order.
LEMMA BeginKeeps ==
    ASSUME IInv, NEW c \in Call, NEW target, Begin(c, target),
           c \in Submission => target = NoOrder,
           c \in Refresh => target \in Committed \union {NoOrder},
           StoreTyped', store'.order = store.order, store'.payment = store.payment,
           store'.stage \in {store.stage, "submitting"}
    PROVE  IInv'
<1> USE DEF IInv
<1>1. UNCHANGED <<orders, replies, payments, heard>>
  BY DEF Begin, server
<1>2. target \in Attempt \union {NoOrder}
  BY DEF OrdersOK, RowsNamed, Committed, Call
<1>3. /\ calls'[c] = [pc |-> "sent", attempt |-> 0, target |-> target]
      /\ CallsTyped' /\ \A d \in Call \ {c} : calls'[d] = calls[d]
  BY <1>2 DEF Begin, Typed, CallsTyped
<1>4. ShownIsTrue'
  BY <1>1, ScreenKeepsOrder
<1>5. LoadingHasCall'
  BY <1>3 DEF LoadingHasCall, Underway
<1>6. HeardTyped'
  BY <1>1 DEF Typed, HeardTyped
<1> QED
  BY <1>1, <1>3, <1>4, <1>5, <1>6, CallMoves DEF Retries, PostRetries, GetRetries

LEMMA SubmitKeeps == ASSUME IInv, NEW s \in Submission, Submit(s) PROVE IInv'
<1>1. /\ StoreTyped' /\ store'.order = store.order /\ store'.payment = store.payment
      /\ store'.stage = "submitting"
  BY DEF Submit, IInv, Typed, StoreTyped
<1>2. s \in Call /\ s \notin Refresh /\ Begin(s, NoOrder)
  BY CallAssumption DEF Call, Submit
<1> QED
  BY <1>1, <1>2, BeginKeeps

LEMMA StartRefreshKeeps ==
    ASSUME IInv, NEW f \in Refresh, NEW o, StartRefresh(f, o) PROVE IInv'
<1>1. /\ StoreTyped' /\ store'.order = store.order /\ store'.payment = store.payment
      /\ store'.stage = store.stage
  BY DEF StartRefresh, IInv, Typed, StoreTyped
<1>2. f \in Call /\ f \notin Submission /\ Begin(f, o)
  BY CallAssumption DEF Call, StartRefresh
<1>3. o \in Committed \union {NoOrder}
  BY DEF StartRefresh
<1> QED
  BY <1>1, <1>2, <1>3, BeginKeeps

\* A call ends, and takes the loading indicator with it.
LEMMA EndKeeps ==
    ASSUME IInv, NEW c \in Call, calls[c].pc # "idle", End(c),
           UNCHANGED <<orders, replies, payments>>,
           heard' \in {heard, [heard EXCEPT ![c] = NotHeard]},
           StoreTyped', ~ store'.loading, ShownIsTrue'
    PROVE  IInv'
<1> USE DEF IInv
<1>0. calls[c].attempt \in Nat /\ calls[c].attempt <= Retries(c) /\ 0 <= Retries(c)
  BY DEF Typed, CallsTyped, AttemptsBounded, Retries, PostRetries, GetRetries
<1>1. /\ calls'[c].pc = "done" /\ calls'[c].attempt <= Retries(c)
      /\ calls'[c].target = NoOrder
      /\ CallsTyped' /\ \A d \in Call \ {c} : calls'[d] = calls[d]
  <2>1. CASE c \in Submission
    <3>1. calls' = [calls EXCEPT ![c] = [pc |-> "done", attempt |-> calls[c].attempt,
                                         target |-> NoOrder]]
      BY <2>1 DEF End, Typed, CallsTyped
    <3> QED
      BY <1>0, <3>1 DEF Typed, CallsTyped
  <2>2. CASE c \notin Submission
    <3>1. calls' = [calls EXCEPT ![c] = [pc |-> "done", attempt |-> 0, target |-> NoOrder]]
      BY <2>2 DEF End, Typed, CallsTyped
    <3> QED
      BY <1>0, <3>1 DEF Typed, CallsTyped
  <2> QED
    BY <2>1, <2>2
<1>2. LoadingHasCall'
  BY DEF LoadingHasCall
<1>4. /\ HeardTyped'
      /\ \A x \in Attempt \union Refresh :
            heard'[x] = heard[x] \/ (x = c /\ heard'[x] = NotHeard)
  <2>1. CASE heard' = heard
    BY <2>1 DEF Typed, HeardTyped
  <2>2. CASE heard' = [heard EXCEPT ![c] = NotHeard]
    BY <2>2 DEF Typed, HeardTyped
  <2> QED
    BY <2>1, <2>2
<1> QED
  BY <1>1, <1>2, <1>4, CallMoves

\* ... with an error: the screen keeps what it showed.
LEMMA ErrorKeeps ==
    ASSUME IInv, NEW c \in Call, calls[c].pc # "idle", End(c), MarkError,
           UNCHANGED <<orders, replies, payments>>,
           heard' \in {heard, [heard EXCEPT ![c] = NotHeard]}
    PROVE  IInv'
<1>1. /\ StoreTyped' /\ store'.order = store.order /\ store'.payment = store.payment
      /\ store'.stage = store.stage /\ ~ store'.loading
  BY DEF MarkError, IInv, Typed, StoreTyped
<1>2. ShownIsTrue'
  BY <1>1, ScreenKeepsOrder DEF IInv
<1> QED
  BY <1>1, <1>2, EndKeeps

\* An attempt fails: the call pauses, or it was the last one.
LEMMA FailureKeeps ==
    ASSUME IInv, NEW c \in Call, calls[c].pc = "sent", AttemptFails(c),
           UNCHANGED <<orders, replies, payments, heard>>
    PROVE  IInv'
<1>1. CASE calls[c].attempt < Retries(c)
  <2> USE DEF IInv
  <2>1. /\ calls' = [calls EXCEPT ![c].pc = "pause"] /\ store' = store
    BY <1>1 DEF AttemptFails
  <2>2. /\ calls'[c].pc = "pause" /\ calls'[c].attempt = calls[c].attempt
        /\ calls'[c].target = calls[c].target
        /\ CallsTyped' /\ \A d \in Call \ {c} : calls'[d] = calls[d]
    BY <2>1 DEF Typed, CallsTyped
  <2>3. ShownIsTrue' /\ StoreTyped'
    BY <2>1, ScreenKeepsOrder DEF Typed, StoreTyped
  <2>4. LoadingHasCall'
    BY <2>1, <2>2 DEF LoadingHasCall, Underway
  <2>5. c \in Refresh => calls[c].target \in Committed \union {NoOrder}
    BY DEF TargetsCommitted
  <2>6. HeardTyped'
    BY DEF Typed, HeardTyped
  <2> QED
    BY <1>1, <2>2, <2>3, <2>4, <2>5, <2>6, CallMoves DEF AttemptsBounded
<1>2. CASE ~ (calls[c].attempt < Retries(c))
  BY <1>2, ErrorKeeps DEF AttemptFails
<1> QED
  BY <1>1, <1>2

\* The headers of a 2xx answer: what the body will say has been heard.
LEMMA AnsweredKeeps == ASSUME IInv, NEW s \in Submission, Answered(s) PROVE IInv'
<1> USE DEF IInv
<1>1. UNCHANGED <<orders, replies, payments, heard, store>> /\ s \in Call /\ s \notin Refresh
  BY CallAssumption DEF Answered, server, Call
<1>2. /\ calls'[s].pc = "body" /\ calls'[s].attempt = calls[s].attempt
      /\ CallsTyped' /\ \A d \in Call \ {s} : calls'[d] = calls[d]
  BY <1>1 DEF Answered, Typed, CallsTyped
<1>3. Source(s)' = Source(s) /\ Source(s) = Current(s) /\ Source(s) \in Attempt
  BY <1>1, <1>2, SourceInDomain DEF Source, Current, Typed
<1>4. heard'[Source(s)'] # NotHeard
  BY <1>1, <1>3 DEF Answered, AnswersHeard
<1>5. ShownIsTrue' /\ StoreTyped' /\ HeardTyped'
  BY <1>1, ScreenKeepsOrder DEF Typed, StoreTyped, HeardTyped
<1>6. LoadingHasCall'
  BY <1>1, <1>2 DEF LoadingHasCall, Underway
<1> QED
  BY <1>1, <1>2, <1>4, <1>5, <1>6, CallMoves DEF AttemptsBounded

\* The stages that claim a final result are those of the two final statuses.
LEMMA StagesAreHonest ==
    ASSUME NEW status
    PROVE  /\ CreatedStage(status) = "confirmed" \/ OrderStage(status) = "confirmed"
                 => status = "PAGAMENTO_CONFIRMADO"
           /\ CreatedStage(status) = "failed" \/ OrderStage(status) = "failed"
                 => status = "PAGAMENTO_FALHOU"
BY DEF CreatedStage, OrderStage, OrderStatusOf

\* What was heard is shown.
LEMMA ShowsWhatIsHeard ==
    ASSUME IInv, NEW c \in Call, calls[c].pc = "body",
           UNCHANGED <<orders, payments>>,
           store'.order = heard[Source(c)].order,
           store'.payment.version = heard[Source(c)].payment.version,
           store'.stage \in {CreatedStage(heard[Source(c)].payment.status),
                            OrderStage(heard[Source(c)].payment.status)}
    PROVE  ShownIsTrue' /\ store'.payment.version \in Nat
<1> USE DEF IInv
<1>1. Source(c) \in Attempt \union Refresh
  BY SourceInDomain DEF Typed
<1>2. Known(heard[Source(c)].order, heard[Source(c)].payment)
  BY <1>1 DEF BodyHeard, HeardTrue
<1>3. Committed' = Committed
  BY DEF Committed
<1> QED
  BY <1>2, <1>3, StagesAreHonest DEF Known, ShownIsTrue

LEMMA PostSucceedsKeeps == ASSUME IInv, NEW s \in Submission, PostSucceeds(s) PROVE IInv'
<1> DEFINE h == heard[Current(s)]
<1>1. s \in Call /\ Source(s) = Current(s)
  BY DEF Call, Source
<1>2. UNCHANGED <<orders, replies, payments, heard>>
  BY DEF PostSucceeds, server
<1>3. store' = [order |-> h.order, payment |-> [NotOrdered EXCEPT !.version = h.payment.version],
                stage |-> CreatedStage(h.payment.status), loading |-> FALSE, error |-> FALSE]
  BY DEF PostSucceeds
<1>4. store'.payment.version = h.payment.version
  BY <1>3 DEF NotOrdered
<1>5. ShownIsTrue' /\ store'.payment.version \in Nat
  <2> HIDE DEF h
  <2>1. /\ store'.order = h.order
        /\ store'.stage = CreatedStage(h.payment.status)
    BY <1>3
  <2> USE DEF h
  <2> QED
    BY <1>1, <1>2, <1>4, <2>1, ShowsWhatIsHeard DEF PostSucceeds
<1>6. StoreTyped' /\ ~ store'.loading
  BY <1>3, <1>5 DEF StoreTyped
<1> QED
  BY <1>1, <1>2, <1>5, <1>6, EndKeeps DEF PostSucceeds

LEMMA GetSucceedsKeeps == ASSUME IInv, NEW f \in Refresh, GetSucceeds(f) PROVE IInv'
<1>1. f \in Call /\ Source(f) = f
  BY CallAssumption DEF Call, Source
<1>2. /\ UNCHANGED <<orders, replies, payments>>
      /\ heard' = [heard EXCEPT ![f] = NotHeard]
  BY DEF GetSucceeds, server
<1>3. store' = [order |-> heard[f].order, payment |-> heard[f].payment,
                stage |-> OrderStage(heard[f].payment.status),
                loading |-> FALSE, error |-> FALSE]
  BY DEF GetSucceeds
<1>4. ShownIsTrue' /\ store'.payment.version \in Nat
  BY <1>1, <1>2, <1>3, ShowsWhatIsHeard DEF GetSucceeds
<1>5. StoreTyped' /\ ~ store'.loading
  BY <1>3, <1>4 DEF StoreTyped
<1> QED
  BY <1>1, <1>2, <1>4, <1>5, EndKeeps DEF GetSucceeds

\* The pause is over.
LEMMA ResumeKeeps == ASSUME IInv, NEW c \in Call, Resume(c) PROVE IInv'
<1> USE DEF IInv
<1>1. UNCHANGED <<orders, replies, payments, heard, store>>
  BY DEF Resume, server
<1>2. /\ calls'[c].pc = "sent" /\ calls'[c].attempt = calls[c].attempt + 1
      /\ calls'[c].target = calls[c].target
      /\ CallsTyped' /\ \A d \in Call \ {c} : calls'[d] = calls[d]
  BY DEF Resume, Typed, CallsTyped
<1>3. calls'[c].attempt <= Retries(c)
  BY <1>2 DEF Resume, AttemptsBounded, Typed, CallsTyped, Retries, PostRetries, GetRetries
<1>4. c \in Refresh => calls[c].target \in Committed \union {NoOrder}
  BY DEF TargetsCommitted
<1>5. ShownIsTrue' /\ StoreTyped' /\ HeardTyped'
  BY <1>1, ScreenKeepsOrder DEF Typed, StoreTyped, HeardTyped
<1>6. LoadingHasCall'
  BY <1>1, <1>2 DEF LoadingHasCall, Underway
<1> QED
  BY <1>1, <1>2, <1>3, <1>4, <1>5, <1>6, CallMoves

\* A GET is answered with the order as it is.
LEMMA ServeReadKeeps == ASSUME IInv, NEW f \in Refresh, ServeRead(f) PROVE IInv'
<1> USE DEF IInv
<1>1. UNCHANGED <<orders, replies, payments, store>> /\ f \in Call
  BY DEF ServeRead, server, Call
<1>2. calls[f].target \in Committed /\ calls[f].target \in Attempt
  BY DEF ServeRead, TargetsCommitted, OrdersOK, RowsNamed, Committed
<1>3. /\ HeardTyped' /\ heard'[f].order = calls[f].target
      /\ heard'[f].payment = payments[calls[f].target]
      /\ \A x \in (Attempt \union Refresh) \ {f} : heard'[x] = heard[x]
  BY DEF ServeRead, Read, Typed, HeardTyped
<1>4. /\ calls'[f].pc = "body" /\ calls'[f].attempt = calls[f].attempt
      /\ calls'[f].target = calls[f].target
      /\ CallsTyped' /\ \A d \in Call \ {f} : calls'[d] = calls[d]
  BY <1>1 DEF ServeRead, Read, Typed, CallsTyped
<1>5. OrdersOK' /\ Committed' = Committed
  BY <1>1 DEF OrdersOK, RowsNamed, OneRowPerKey, Committed
<1>6. Typed' /\ AttemptsBounded' /\ RepliesCommitted'
  BY <1>1, <1>3, <1>4, <1>5 DEF Typed, PaymentsTyped, RepliesTyped, StoreTyped,
                          AttemptsBounded, RepliesCommitted, Retries, PostRetries, GetRetries
<1>7. TargetsCommitted'
  BY <1>4, <1>5 DEF TargetsCommitted, Call
<1>8. heard'[f] # NotHeard
  BY <1>2, <1>3, NameAssumption DEF NotHeard
<1>9. HeardTrue'
  <2> SUFFICES ASSUME NEW x \in Attempt \union Refresh, heard'[x] # NotHeard
               PROVE  Known(heard[x].order, heard[x].payment)'
    BY DEF HeardTrue, NotHeard, NotOrdered
  <2>1. CASE x = f
    BY <1>1, <1>2, <1>3, <1>5, <2>1 DEF Known, Typed, PaymentsTyped
  <2>2. CASE x # f
    BY <1>1, <1>3, <1>5, <2>2 DEF HeardTrue, Known
  <2> QED
    BY <2>1, <2>2
<1>10. AnswersHeard'
  BY <1>1, <1>3, NameAssumption DEF AnswersHeard, NotHeard, NotOrdered
<1>11. BodyHeard'
  <2> SUFFICES ASSUME NEW d \in Call, calls'[d].pc = "body"
               PROVE  heard'[Source(d)'] # NotHeard
    BY DEF BodyHeard, NotHeard, NotOrdered, Source, Current
  <2>1. CASE d = f
    BY <1>8, <2>1, CallAssumption DEF Source
  <2>2. CASE d # f
    <3>1. calls'[d] = calls[d] /\ Source(d)' = Source(d)
      BY <1>4, <2>2 DEF Source, Current
    <3>2. Source(d) \in Attempt \union Refresh /\ Source(d) # f
      BY <1>1, <2>2, SourceInDomain, NameAssumption DEF Typed
    <3> QED
      BY <1>3, <3>1, <3>2 DEF BodyHeard
  <2> QED
    BY <2>1, <2>2
<1>12. ShownIsTrue' /\ LoadingHasCall'
  BY <1>1, <1>4, ScreenKeepsOrder DEF LoadingHasCall, Underway
<1> QED
  BY <1>5, <1>6, <1>7, <1>9, <1>10, <1>11, <1>12

LEMMA ResetKeeps == ASSUME IInv, Reset PROVE IInv'
<1> USE DEF IInv
<1>1. UNCHANGED <<orders, replies, payments, calls, heard>>
  BY DEF Reset, server
<1>2. StoreTyped' /\ ShownIsTrue' /\ LoadingHasCall'
  BY DEF Reset, EmptyStore, NotOrdered, StoreTyped, ShownIsTrue, LoadingHasCall
<1>3. OrdersOK' /\ Committed' = Committed
  BY <1>1 DEF OrdersOK, RowsNamed, OneRowPerKey, Committed
<1>4. Typed' /\ AttemptsBounded' /\ RepliesCommitted' /\ TargetsCommitted'
  BY <1>1, <1>2, <1>3 DEF Typed, PaymentsTyped, RepliesTyped, HeardTyped, CallsTyped,
                          AttemptsBounded, RepliesCommitted, TargetsCommitted
<1>5. HeardTrue' /\ AnswersHeard' /\ BodyHeard'
  BY <1>1, <1>3 DEF HeardTrue, Known, AnswersHeard, BodyHeard, Source, Current,
                    NotHeard, NotOrdered
<1> QED
  BY <1>2, <1>3, <1>4, <1>5

-----------------------------------------------------------------------------
\* Every step preserves the invariant.
LEMMA Step == IInv /\ [Next]_vars => IInv'
<1> SUFFICES ASSUME IInv, [Next]_vars PROVE IInv'
  OBVIOUS
<1>1. ASSUME NEW a \in Attempt, Serve(a) PROVE IInv'
  BY <1>1, ServeKeeps
<1>2. ASSUME NEW o \in Attempt, PaymentMoves(o) PROVE IInv'
  BY <1>2, PaymentMovesKeeps
<1>3. ASSUME NEW f \in Refresh, ServeRead(f) PROVE IInv'
  BY <1>3, ServeReadKeeps
<1>4. ASSUME NEW f \in Refresh, NEW o, StartRefresh(f, o) PROVE IInv'
  BY <1>4, StartRefreshKeeps
<1>5. ASSUME NEW s \in Submission, Submit(s) PROVE IInv'
  BY <1>5, SubmitKeeps
<1>6. ASSUME NEW c \in Call, Proceed(c) \/ BodyArrives(c) PROVE IInv'
  <2>1. CASE c \in Submission /\ PostSucceeds(c)
    BY <2>1, PostSucceedsKeeps
  <2>2. CASE c \in Submission /\ PostRefused(c)
    BY <2>2, FailureKeeps DEF PostRefused, server
  <2>3. CASE c \in Refresh /\ GetSucceeds(c)
    BY <2>3, GetSucceedsKeeps
  <2>4. CASE c \in Submission /\ Answered(c)
    BY <2>4, AnsweredKeeps
  <2>5. CASE TimesOut(c)
    BY <2>5, ErrorKeeps DEF TimesOut, server
  <2>6. CASE Resume(c)
    BY <2>6, ResumeKeeps
  <2>7. CASE c \in Refresh /\ GetRefused(c)
    BY <2>7, FailureKeeps DEF GetRefused, server
  <2> QED
    BY <1>6, <2>1, <2>2, <2>3, <2>4, <2>5, <2>6, <2>7 DEF Proceed, BodyArrives
<1>7. ASSUME NEW c \in Call, ExchangeBreaks(c) PROVE IInv'
  BY <1>7, FailureKeeps DEF ExchangeBreaks, server
<1>8. ASSUME NEW c \in Call, BodyBreaks(c) PROVE IInv'
  BY <1>8, ErrorKeeps DEF BodyBreaks, server
<1>9. CASE Reset
  BY <1>9, ResetKeeps
<1>10. CASE UNCHANGED vars
  <2> USE DEF IInv
  <2>1. UNCHANGED <<orders, replies, payments, calls, heard, store>>
    BY <1>10 DEF vars, server, client
  <2>2. OrdersOK' /\ Committed' = Committed
    BY <2>1 DEF OrdersOK, RowsNamed, OneRowPerKey, Committed
  <2>3. Typed' /\ AttemptsBounded' /\ RepliesCommitted' /\ TargetsCommitted'
    BY <2>1, <2>2 DEF Typed, PaymentsTyped, RepliesTyped, HeardTyped, CallsTyped, StoreTyped,
                      AttemptsBounded, RepliesCommitted, TargetsCommitted
  <2>4. HeardTrue' /\ AnswersHeard' /\ BodyHeard'
    BY <2>1, <2>2 DEF HeardTrue, Known, AnswersHeard, BodyHeard, Source, Current,
                      NotHeard, NotOrdered
  <2>5. ShownIsTrue' /\ LoadingHasCall'
    BY <2>1, ScreenKeepsOrder DEF LoadingHasCall, Underway
  <2> QED
    BY <2>2, <2>3, <2>4, <2>5
<1> QED
  BY <1>1, <1>2, <1>3, <1>4, <1>5, <1>6, <1>7, <1>8, <1>9, <1>10 DEF Next

\* The screen never runs ahead of the backend, and a final result it shows of
\* the newest state is true (receiveCreatedOrder, receiveOrder and the two
\* stage maps of the store), however calls overlap and attempts are answered
\* late.
THEOREM ScreenIsTrue == Spec => []ShownIsTrue
<1>1. IInv => ShownIsTrue
  BY DEF IInv
<1> QED
  BY Start, Step, <1>1, PTL DEF Spec

\* No loading indicator without a call (markSubmitting and markRefreshing set
\* it; receive*, markError and reset clear it).
THEOREM LoadingAlwaysHasCall == Spec => []LoadingHasCall
<1>1. IInv => LoadingHasCall
  BY DEF IInv
<1> QED
  BY Start, Step, <1>1, PTL DEF Spec

-----------------------------------------------------------------------------
(* The screen goes back by overlap only.  A call that no other answer has    *)
(* overtaken finds the screen as it was when it began, or reset: nothing     *)
(* newer than what a refresh has read, and no order of its own submission.   *)

OwnOrders == \A a \in Attempt :
                 /\ replies[a].order # NoOrder => replies[a].order[1] = a[1]
                 /\ heard[a] # NotHeard => heard[a].order[1] = a[1]
Begun == \A o \in Committed : calls[o[1]].pc # "idle"
FreshReads ==
    \A f \in Refresh :
        calls[f].pc = "body" /\ store.order = heard[f].order
            => overtaken[f] \/ store.payment.version <= heard[f].payment.version
FreshPosts ==
    \A s \in Submission :
        Underway(s) /\ store.order # NoOrder => overtaken[s] \/ store.order[1] # s
BlankScreen == store.order = NoOrder => store.payment.version = 0
OverlapInv == OwnOrders /\ Begun /\ FreshReads /\ FreshPosts /\ BlankScreen

LEMMA OverlapStart == Init => OverlapInv
BY DEF Init, API!Init, OverlapInv, OwnOrders, Begun, FreshReads, FreshPosts, BlankScreen,
       Committed, API!NoReply, EmptyStore, NotOrdered, Call, Underway

\* What the API answers an attempt with is an order of its submission.
LEMMA ServesItsOwn ==
    ASSUME RowsNamed, RepliesTyped, NEW a \in Attempt, Serve(a)
    PROVE  /\ \A b \in Attempt \ {a} : replies'[b] = replies[b]
           /\ \/ replies'[a] = replies[a]
              \/ replies'[a].order = NoOrder
              \/ replies'[a].order[1] = a[1]
<1>1. CASE API!FindExisting(a)
  <2>1. PICK row \in API!OrdersOf(IdempotencyKey[a]) : API!Reply(a, "existing", row.id)
    BY <1>1 DEF API!FindExisting
  <2>2. row.id[1] = a[1]
    BY <2>1 DEF API!OrdersOf, RowsNamed, IdempotencyKey
  <2> QED
    BY <2>1, <2>2 DEF API!Reply, RepliesTyped
<1>2. CASE API!FindNothing(a) \/ API!ChargeCard(a)
  BY <1>2 DEF API!FindNothing, API!ChargeCard
<1>3. CASE API!InsertOrder(a)
  BY <1>3 DEF API!InsertOrder, API!Reply, RepliesTyped
<1>4. CASE API!InsertConflicts(a) \/ API!InsertFails(a) \/ API!Crash(a)
  BY <1>4 DEF API!InsertConflicts, API!InsertFails, API!Crash, API!Reply, RepliesTyped
<1> QED
  BY <1>1, <1>2, <1>3, <1>4 DEF Serve, API!RequestStep

LEMMA ServeOverlap ==
    ASSUME IInv, OverlapInv, NEW a \in Attempt, Serve(a)
    PROVE  OverlapInv'
<1>1. UNCHANGED <<calls, store, overtaken>>
  BY DEF Serve, client
<1>2. /\ \A b \in Attempt \ {a} : replies'[b] = replies[b]
      /\ replies'[a].order # NoOrder => replies'[a].order[1] = a[1]
  BY ServesItsOwn DEF IInv, OrdersOK, Typed, OverlapInv, OwnOrders
<1>3. \/ heard' = heard
      \/ /\ heard' = [heard EXCEPT ![a] = [order   |-> replies'[a].order,
                                          payment |-> payments'[replies'[a].order]]]
         /\ replies'[a].order # NoOrder
  BY DEF Serve
<1>4. /\ \A x \in (Attempt \union Refresh) \ {a} : heard'[x] = heard[x]
      /\ \/ heard'[a] = heard[a]
         \/ heard'[a].order = replies'[a].order /\ replies'[a].order # NoOrder
  BY <1>3 DEF IInv, Typed, HeardTyped
<1>5. OwnOrders'
  BY <1>2, <1>4 DEF OverlapInv, OwnOrders, NotHeard, NotOrdered
<1>6. Begun'
  <2>1. Committed' \subseteq Committed \union {a}
    BY ServeShape, NewRow DEF IInv, Committed
  <2> QED
    BY <1>1, <2>1 DEF Serve, OverlapInv, Begun
<1>7. \A f \in Refresh : heard'[f] = heard[f]
  BY <1>4, NameAssumption DEF Call
<1> QED
  BY <1>1, <1>5, <1>6, <1>7 DEF OverlapInv, FreshReads, FreshPosts, BlankScreen, Underway

LEMMA PaymentMovesOverlap ==
    ASSUME OverlapInv, NEW o \in Attempt, PaymentMoves(o)
    PROVE  OverlapInv'
<1>1. UNCHANGED <<orders, replies, calls, store, overtaken, heard>>
  BY DEF PaymentMoves, client
<1> QED
  BY <1>1 DEF OverlapInv, OwnOrders, Begun, Committed, FreshReads, FreshPosts, BlankScreen,
              Underway, NotHeard, NotOrdered

\* A call begins or moves on, or ends without an answer: the screen keeps its
\* order.
LEMMA QuietOverlap ==
    ASSUME IInv, OverlapInv, NEW c \in Call, calls[c].pc # "done",
           calls'[c].pc # "idle", c \in Refresh => calls'[c].pc # "body",
           \A d \in Call \ {c} : calls'[d] = calls[d],
           UNCHANGED <<orders, replies, overtaken>>,
           \A x \in Attempt \union Refresh :
              heard'[x] = heard[x] \/ (x = c /\ heard'[x] = NotHeard),
           store'.order = store.order, store'.payment = store.payment
    PROVE  OverlapInv'
<1>1. OwnOrders'
  BY DEF OverlapInv, OwnOrders, NotHeard, NotOrdered
<1>2. Begun'
  <2> SUFFICES ASSUME NEW o \in Committed PROVE calls'[o[1]].pc # "idle"
    BY DEF Begun, Committed
  <2>1. o[1] \in Call
    BY DEF IInv, OrdersOK, RowsNamed, Committed, Attempt, Call
  <2> QED
    BY <2>1 DEF OverlapInv, Begun
<1>3. FreshReads'
  <2> SUFFICES ASSUME NEW f \in Refresh, calls'[f].pc = "body", store.order = heard'[f].order
               PROVE  overtaken[f] \/ store.payment.version <= heard'[f].payment.version
    BY DEF FreshReads
  <2>1. f \in Call /\ f # c
    BY DEF Call
  <2>2. calls'[f] = calls[f] /\ heard'[f] = heard[f]
    BY <2>1
  <2> QED
    BY <2>2 DEF OverlapInv, FreshReads
<1>4. FreshPosts'
  <2> SUFFICES ASSUME NEW s \in Submission, calls'[s].pc \in {"sent", "body", "pause"},
                      store.order # NoOrder
               PROVE  overtaken[s] \/ store.order[1] # s
    BY DEF FreshPosts, Underway
  <2>1. s \in Call /\ (s # c => calls'[s] = calls[s])
    BY DEF Call
  <2>2. CASE Underway(s)
    BY <2>2 DEF OverlapInv, FreshPosts
  <2>3. CASE ~Underway(s)
    <3>1. s = c /\ calls[s].pc = "idle"
      BY <2>1, <2>3 DEF Underway, IInv, Typed, CallsTyped
    <3>2. store.order \in Committed
      BY DEF IInv, ShownIsTrue
    <3> QED
      BY <3>1, <3>2 DEF OverlapInv, Begun
  <2> QED
    BY <2>2, <2>3
<1>5. BlankScreen'
  BY DEF OverlapInv, BlankScreen
<1> QED
  BY <1>1, <1>2, <1>3, <1>4, <1>5 DEF OverlapInv

LEMMA BeginOverlap ==
    ASSUME IInv, OverlapInv, NEW c \in Call, NEW target, Begin(c, target),
           store'.order = store.order, store'.payment = store.payment
    PROVE  OverlapInv'
<1>1. UNCHANGED <<orders, replies, overtaken, heard>> /\ calls[c].pc = "idle"
  BY DEF Begin, server
<1>2. calls'[c].pc = "sent" /\ \A d \in Call \ {c} : calls'[d] = calls[d]
  BY DEF Begin, IInv, Typed, CallsTyped
<1> QED
  BY <1>1, <1>2, QuietOverlap

LEMMA ErrorOverlap ==
    ASSUME IInv, OverlapInv, NEW c \in Call, calls[c].pc \in {"sent", "body"},
           \/ AttemptFails(c)
           \/ End(c) /\ MarkError,
           UNCHANGED <<orders, replies, overtaken>>,
           heard' \in {heard, [heard EXCEPT ![c] = NotHeard]}
    PROVE  /\ OverlapInv'
           /\ store'.order = store.order /\ store'.payment = store.payment
<1>1. store'.order = store.order /\ store'.payment = store.payment
  BY DEF AttemptFails, MarkError, IInv, Typed, StoreTyped
<1>2. /\ calls'[c].pc \in {"pause", "done"}
      /\ \A d \in Call \ {c} : calls'[d] = calls[d]
  BY DEF AttemptFails, End, IInv, Typed, CallsTyped
<1>3. \A x \in Attempt \union Refresh :
         heard'[x] = heard[x] \/ (x = c /\ heard'[x] = NotHeard)
  <2>1. CASE heard' = heard
    BY <2>1
  <2>2. CASE heard' = [heard EXCEPT ![c] = NotHeard]
    BY <2>2 DEF IInv, Typed, HeardTyped
  <2> QED
    BY <2>1, <2>2
<1> QED
  BY <1>1, <1>2, <1>3, QuietOverlap

\* The other steps of a call.
LEMMA ProceedOverlap ==
    ASSUME IInv, OverlapInv, NEW c \in Call,
           (c \in Submission /\ Answered(c)) \/ Resume(c)
    PROVE  OverlapInv' /\ store' = store
<1>1. UNCHANGED <<orders, replies, overtaken, heard, store>>
  BY DEF Answered, Resume, server
<1>2. /\ calls[c].pc # "done" /\ calls'[c].pc # "idle"
      /\ c \in Refresh => calls'[c].pc # "body"
      /\ \A d \in Call \ {c} : calls'[d] = calls[d]
  BY CallAssumption DEF Answered, Resume, IInv, Typed, CallsTyped
<1> QED
  BY <1>1, <1>2, QuietOverlap

\* A GET reads nothing older than what is shown.
LEMMA ReadOverlap ==
    ASSUME IInv, OverlapInv, NEW f \in Refresh, ServeRead(f)
    PROVE  OverlapInv' /\ store' = store
<1>1. UNCHANGED <<orders, replies, payments, store, overtaken>> /\ f \in Call
  BY DEF ServeRead, server, Call
<1>2. /\ heard'[f].order = calls[f].target
      /\ heard'[f].payment = payments[calls[f].target]
      /\ \A x \in (Attempt \union Refresh) \ {f} : heard'[x] = heard[x]
  BY DEF ServeRead, Read, IInv, Typed, HeardTyped
<1>3. /\ calls'[f].pc = "body" /\ calls[f].target # NoOrder
      /\ \A d \in Call \ {f} : calls'[d] = calls[d]
  BY <1>1 DEF ServeRead, Read, IInv, Typed, CallsTyped
<1>4. OwnOrders'
  BY <1>1, <1>2, NameAssumption DEF Call, OverlapInv, OwnOrders, NotHeard, NotOrdered
<1>5. Begun'
  <2>1. \A o \in Committed : o[1] \in Call
    BY DEF IInv, OrdersOK, RowsNamed, Committed, Attempt, Call
  <2> QED
    BY <1>1, <1>3, <2>1 DEF OverlapInv, Begun, Committed
<1>6. FreshReads'
  <2> SUFFICES ASSUME NEW g \in Refresh, calls'[g].pc = "body", store.order = heard'[g].order
               PROVE  overtaken[g] \/ store.payment.version <= heard'[g].payment.version
    BY <1>1 DEF FreshReads
  <2>1. CASE g = f
    BY <1>2, <1>3, <2>1 DEF IInv, ShownIsTrue
  <2>2. CASE g # f
    BY <1>2, <1>3, <2>2 DEF OverlapInv, FreshReads, Call
  <2> QED
    BY <2>1, <2>2
<1>7. FreshPosts'
  <2>1. \A s \in Submission : s \in Call \ {f}
    BY CallAssumption DEF Call
  <2> QED
    BY <1>1, <1>3, <2>1 DEF OverlapInv, FreshPosts, Underway
<1> QED
  BY <1>1, <1>4, <1>5, <1>6, <1>7 DEF OverlapInv, BlankScreen

\* An answer comes to the screen, and overtakes every other call under way.
LEMMA ShowOverlap ==
    ASSUME IInv, OverlapInv, NEW c \in Call, calls[c].pc = "body", End(c), Overtakes(c),
           UNCHANGED <<orders, replies>>, store'.order # NoOrder,
           heard' \in {heard, [heard EXCEPT ![c] = NotHeard]}
    PROVE  OverlapInv'
<1>1. /\ calls'[c].pc = "done" /\ \A d \in Call \ {c} : calls'[d] = calls[d]
  BY DEF End, IInv, Typed, CallsTyped
<1>2. \A x \in Attempt \union Refresh : heard'[x] \in {heard[x], NotHeard}
  BY DEF IInv, Typed, HeardTyped
<1>3. OwnOrders'
  BY <1>2 DEF OverlapInv, OwnOrders, NotHeard, NotOrdered
<1>4. Begun'
  <2>1. \A o \in Committed : o[1] \in Call
    BY DEF IInv, OrdersOK, RowsNamed, Committed, Attempt, Call
  <2> QED
    BY <1>1, <2>1 DEF OverlapInv, Begun, Committed
<1>5. ASSUME NEW d \in Call, calls'[d].pc \in {"sent", "body", "pause"}
      PROVE  overtaken'[d]
  <2>1. d # c /\ Underway(d)
    BY <1>1, <1>5 DEF Underway
  <2> QED
    BY <2>1 DEF Overtakes
<1>6. FreshReads' /\ FreshPosts'
  BY <1>5 DEF FreshReads, FreshPosts, Underway, Call
<1> QED
  BY <1>3, <1>4, <1>6 DEF OverlapInv, BlankScreen

LEMMA PostOverlap ==
    ASSUME IInv, OverlapInv, NEW s \in Submission, PostSucceeds(s)
    PROVE  OverlapInv' /\ GoesBackByOverlap
<1> DEFINE h == heard[Current(s)]
<1>1. s \in Call /\ Current(s) \in Attempt /\ Current(s)[1] = s /\ h # NotHeard
  BY SourceInDomain DEF Call, IInv, Typed, BodyHeard, PostSucceeds, Current
<1>2. h.order[1] = s /\ h.order \in Attempt
  BY <1>1 DEF OverlapInv, OwnOrders, IInv, HeardTrue, Known, OrdersOK, RowsNamed, Committed
<1>3. /\ calls[s].pc = "body" /\ End(s) /\ Overtakes(s)
      /\ store'.order = h.order /\ h.order # NoOrder
      /\ UNCHANGED <<orders, replies, heard>>
  BY <1>2, NameAssumption DEF PostSucceeds, server
<1>4. OverlapInv'
  BY <1>1, <1>3, ShowOverlap
<1>5. Underway(s) /\ calls'[s].pc = "done"
  BY <1>1, <1>3 DEF Underway, End, IInv, Typed, CallsTyped
<1>6. store'.order = store.order => overtaken[s]
  BY <1>2, <1>3, <1>5 DEF OverlapInv, FreshPosts
<1> QED
  BY <1>1, <1>4, <1>5, <1>6 DEF GoesBackByOverlap

LEMMA GetOverlap ==
    ASSUME IInv, IInv', OverlapInv, NEW f \in Refresh, GetSucceeds(f)
    PROVE  OverlapInv' /\ GoesBackByOverlap
<1>1. f \in Call /\ f \notin Submission /\ heard[f] # NotHeard /\ calls[f].pc = "body"
  BY CallAssumption, SourceInDomain DEF Call, IInv, Typed, BodyHeard, GetSucceeds
<1>2. heard[f].order \in Attempt
  BY <1>1 DEF IInv, HeardTrue, Known, OrdersOK, RowsNamed, Committed
<1>3. /\ End(f) /\ Overtakes(f) /\ UNCHANGED <<orders, replies>>
      /\ heard' = [heard EXCEPT ![f] = NotHeard]
      /\ store'.order = heard[f].order /\ store'.payment = heard[f].payment
  BY DEF GetSucceeds, server
<1>4. OverlapInv'
  BY <1>1, <1>2, <1>3, NameAssumption, ShowOverlap
<1>5. Underway(f) /\ calls'[f].pc = "done"
  BY <1>1, <1>3 DEF Underway, End, IInv, Typed, CallsTyped
<1>6. store.payment.version \in Nat /\ store'.payment.version \in Nat
  BY DEF IInv, Typed, StoreTyped
<1>7. ASSUME store'.order = store.order, store'.payment.version < store.payment.version
      PROVE  overtaken[f]
  <2>1. overtaken[f] \/ store.payment.version <= heard[f].payment.version
    BY <1>1, <1>3, <1>7 DEF OverlapInv, FreshReads
  <2>2. heard[f].payment.version < store.payment.version
        /\ heard[f].payment.version \in Nat
    BY <1>3, <1>6, <1>7
  <2>3. ~(store.payment.version <= heard[f].payment.version)
    BY <1>6, <2>2
  <2> QED
    BY <2>1, <2>3
<1>8. ASSUME store'.order = store.order, store'.payment.version < store.payment.version
      PROVE  \E c \in Call : Underway(c) /\ calls'[c].pc = "done" /\ overtaken[c]
  <2>1. overtaken[f]
    BY <1>7, <1>8
  <2> QED
    BY <1>1, <1>5, <2>1
<1> QED
  BY <1>4, <1>8 DEF GoesBackByOverlap

LEMMA OverlapStep ==
    ASSUME IInv, IInv', OverlapInv, [Next]_vars
    PROVE  OverlapInv' /\ GoesBackByOverlap
<1>0. ASSUME store'.payment = store.payment
      PROVE  GoesBackByOverlap
  BY <1>0 DEF GoesBackByOverlap, IInv, Typed, StoreTyped
<1>1. ASSUME NEW a \in Attempt, Serve(a) \/ PaymentMoves(a)
      PROVE  OverlapInv' /\ GoesBackByOverlap
  <2>1. store' = store
    BY <1>1 DEF Serve, PaymentMoves, client
  <2> QED
    BY <1>0, <1>1, <2>1, ServeOverlap, PaymentMovesOverlap
<1>2. ASSUME NEW f \in Refresh, ServeRead(f) PROVE OverlapInv' /\ GoesBackByOverlap
  BY <1>0, <1>2, ReadOverlap
<1>3. ASSUME NEW f \in Refresh, NEW o, StartRefresh(f, o)
      PROVE  OverlapInv' /\ GoesBackByOverlap
  <2>1. store'.order = store.order /\ store'.payment = store.payment
    BY <1>3 DEF StartRefresh, IInv, Typed, StoreTyped
  <2>2. f \in Call /\ Begin(f, o)
    BY <1>3 DEF StartRefresh, Call
  <2> QED
    BY <1>0, <2>1, <2>2, BeginOverlap
<1>4. ASSUME NEW s \in Submission, Submit(s) PROVE OverlapInv' /\ GoesBackByOverlap
  <2>1. store'.order = store.order /\ store'.payment = store.payment
    BY <1>4 DEF Submit, IInv, Typed, StoreTyped
  <2>2. s \in Call /\ Begin(s, NoOrder)
    BY <1>4 DEF Submit, Call
  <2> QED
    BY <1>0, <2>1, <2>2, BeginOverlap
<1>5. ASSUME NEW c \in Call, Proceed(c) \/ BodyArrives(c)
      PROVE  OverlapInv' /\ GoesBackByOverlap
  <2>1. CASE c \in Submission /\ PostSucceeds(c)
    BY <2>1, PostOverlap
  <2>2. CASE c \in Submission /\ PostRefused(c)
    BY <1>0, <2>2, ErrorOverlap DEF PostRefused, server
  <2>3. CASE c \in Refresh /\ GetSucceeds(c)
    BY <2>3, GetOverlap
  <2>4. CASE (c \in Submission /\ Answered(c)) \/ Resume(c)
    BY <1>0, <2>4, ProceedOverlap
  <2>5. CASE TimesOut(c)
    BY <1>0, <2>5, ErrorOverlap DEF TimesOut, server
  <2>6. CASE c \in Refresh /\ GetRefused(c)
    BY <1>0, <2>6, ErrorOverlap DEF GetRefused, server
  <2> QED
    BY <1>5, <2>1, <2>2, <2>3, <2>4, <2>5, <2>6 DEF Proceed, BodyArrives
<1>6. ASSUME NEW c \in Call, ExchangeBreaks(c) \/ BodyBreaks(c)
      PROVE  OverlapInv' /\ GoesBackByOverlap
  BY <1>0, <1>6, ErrorOverlap DEF ExchangeBreaks, BodyBreaks, server
<1>7. CASE Reset
  <2>1. UNCHANGED <<orders, replies, calls, overtaken, heard>>
    BY <1>7 DEF Reset, server
  <2>2. store'.order = NoOrder /\ store'.payment.version = 0
    BY <1>7 DEF Reset, EmptyStore, NotOrdered
  <2>3. FreshReads'
    <3> SUFFICES ASSUME NEW f \in Refresh, calls[f].pc = "body"
                 PROVE  heard[f].order # NoOrder
      BY <2>1, <2>2 DEF FreshReads
    <3>1. f \in Call /\ Source(f) = f
      BY CallAssumption DEF Call, Source
    <3> QED
      BY <3>1, NameAssumption
         DEF IInv, BodyHeard, HeardTrue, Known, OrdersOK, RowsNamed, Committed
  <2>4. OwnOrders' /\ Begun' /\ FreshPosts' /\ BlankScreen'
    BY <2>1, <2>2 DEF OverlapInv, OwnOrders, Begun, Committed, FreshPosts, BlankScreen,
                      Underway, NotHeard, NotOrdered
  <2>5. GoesBackByOverlap
    BY <2>2 DEF GoesBackByOverlap, OverlapInv, BlankScreen
  <2> QED
    BY <2>3, <2>4, <2>5 DEF OverlapInv
<1>8. CASE UNCHANGED vars
  <2>1. UNCHANGED <<orders, replies, calls, overtaken, heard, store>>
    BY <1>8 DEF vars, server, client
  <2> QED
    BY <1>0, <2>1 DEF OverlapInv, OwnOrders, Begun, Committed, FreshReads, FreshPosts,
                      BlankScreen, Underway, NotHeard, NotOrdered
<1> QED
  BY <1>1, <1>2, <1>3, <1>4, <1>5, <1>6, <1>7, <1>8 DEF Next

\* Refreshes that do not overlap never show an older state (receiveOrder
\* stores answers in the order they arrive): the screen goes back only by a
\* call that another answer has overtaken.
THEOREM BackByOverlapOnly == Spec => OnlyOverlapGoesBack
<1>1. IInv /\ OverlapInv /\ [Next]_vars => (IInv /\ OverlapInv)'
  BY Step, OverlapStep
<1>2. Init => IInv /\ OverlapInv
  BY Start, OverlapStart
<1>3. Spec => [](IInv /\ OverlapInv)
  BY <1>1, <1>2, PTL DEF Spec
<1>4. (IInv /\ OverlapInv) /\ (IInv /\ OverlapInv)' /\ [Next]_vars => [GoesBackByOverlap]_vars
  BY OverlapStep
<1> QED
  BY <1>3, <1>4, PTL DEF Spec, OnlyOverlapGoesBack

-----------------------------------------------------------------------------
(* The API under the browser is the one of CheckoutProofs: every attempt is *)
(* a request of it.                                                         *)

CP == INSTANCE CheckoutProofs WITH Request <- Attempt, KeyOf <- IdempotencyKey,
                                   Key <- Submission \union Attempt

LEMMA ApiAssumptions == CP!KeyAssumption /\ CP!BoundAssumption
<1>1. IsFiniteSet(Submission) /\ IsFiniteSet(0..PostRetries)
  BY CallAssumption, FS_Subset, FS_Interval DEF Call, PostRetries
<1>2. IsFiniteSet(Attempt)
  BY <1>1, FS_Product DEF Attempt
<1>3. IdempotencyKey \in [Attempt -> Submission \union Attempt]
  BY DEF IdempotencyKey, Attempt
<1>4. CP!KeyAssumption
  BY <1>3, NameAssumption DEF CP!KeyAssumption
<1>5. CP!BoundAssumption
  <2>1. MaxFaults \in Nat
    BY BoundAssumption
  <2> QED
    BY <1>2, <2>1 DEF CP!BoundAssumption, CP!IsFiniteSet, IsFiniteSet
<1> QED
  BY <1>4, <1>5

\* An attempt that is served takes a step of the API, and nothing else does.
LEMMA StepOfApi == [Next]_vars => [CP!Next]_(CP!vars)
<1> SUFFICES ASSUME [Next]_vars PROVE [CP!Next]_(CP!vars)
  OBVIOUS
<1>1. ASSUME NEW a \in Attempt, Serve(a) PROVE CP!Next
  <2> USE DEF API!Reply, CP!Reply, API!OrdersOf, CP!OrdersOf, CP!Next, CP!RequestStep,
              CP!Answer, API!Answer
  <2>1. CASE API!FindExisting(a)
    BY <2>1 DEF API!FindExisting, CP!FindExisting
  <2>2. CASE API!FindNothing(a)
    BY <2>2 DEF API!FindNothing, CP!FindNothing
  <2>3. CASE API!ChargeCard(a)
    BY <2>3 DEF API!ChargeCard, CP!ChargeCard
  <2>4. CASE API!InsertOrder(a)
    BY <2>4 DEF API!InsertOrder, CP!InsertOrder
  <2>5. CASE API!InsertConflicts(a)
    BY <2>5 DEF API!InsertConflicts, CP!InsertConflicts
  <2>6. CASE API!InsertFails(a)
    BY <2>6 DEF API!InsertFails, CP!InsertFails
  <2>7. CASE API!Crash(a)
    BY <2>7 DEF API!Crash, CP!Crash
  <2> QED
    BY <1>1, <2>1, <2>2, <2>3, <2>4, <2>5, <2>6, <2>7 DEF Serve, API!RequestStep
<1>2. CASE UNCHANGED server
  BY <1>2 DEF server, CP!vars
<1>3. ASSUME NEW a \in Attempt, PaymentMoves(a) PROVE UNCHANGED CP!vars
  BY <1>3 DEF PaymentMoves, CP!vars
<1>4. ASSUME NEW c \in Call,
             Proceed(c) \/ BodyArrives(c) \/ ExchangeBreaks(c) \/ BodyBreaks(c)
      PROVE  UNCHANGED server
  BY <1>4 DEF Proceed, BodyArrives, PostSucceeds, PostRefused, GetSucceeds, GetRefused,
              Answered, TimesOut, Resume, ExchangeBreaks, BodyBreaks
<1>5. ASSUME NEW f \in Refresh, NEW o, ServeRead(f) \/ StartRefresh(f, o)
      PROVE  UNCHANGED server
  BY <1>5 DEF ServeRead, StartRefresh, Begin
<1>6. ASSUME NEW s \in Submission, Submit(s) PROVE UNCHANGED server
  BY <1>6 DEF Submit, Begin
<1>7. ASSUME Reset \/ UNCHANGED vars PROVE UNCHANGED server
  BY <1>7 DEF Reset, vars
<1> QED
  BY <1>1, <1>2, <1>3, <1>4, <1>5, <1>6, <1>7 DEF Next

LEMMA ApiAlways == Spec => []CP!IInv
<1>1. Init => CP!IInv
  <2>1. API!Init => CP!Init
    BY DEF API!Init, CP!Init, API!NoReply, CP!NoReply
  <2> QED
    BY <2>1, CP!Start, ApiAssumptions DEF Init
<1>2. CP!IInv /\ [Next]_vars => CP!IInv'
  BY CP!Step, StepOfApi, ApiAssumptions
<1> QED
  BY <1>1, <1>2, PTL DEF Spec

\* The API that the browser talks to is the one of Checkout: whatever a page
\* sends is a request that createOrder serves.
THEOREM ApiIsCheckout == Spec => CP!Spec
<1>1. Init => CP!Init
  BY DEF Init, API!Init, CP!Init, API!NoReply, CP!NoReply
<1> QED
  BY <1>1, StepOfApi, PTL DEF Spec, CP!Spec

\* What createOrder promises of idempotency keys and charges it keeps however
\* the browser submits, retries, times out and gives up.
THEOREM ApiKeepsItsPromises ==
    Spec => [](API!RepliesAgree /\ API!ConflictIsResolved /\ API!ChargesAreAccounted)
<1>1. CP!IInv => API!RepliesAgree
  BY DEF CP!IInv, API!RepliesAgree, CP!NamedOrderExists, CP!OneRowPerKey
<1>2. CP!IInv => API!ConflictIsResolved /\ API!ChargesAreAccounted
  BY DEF CP!IInv, CP!ConflictIsResolved, CP!ChargesAreAccounted, API!ConflictIsResolved,
         API!ChargesAreAccounted, CP!OrdersOf, API!OrdersOf
<1> QED
  BY <1>1, <1>2, ApiAlways, PTL

-----------------------------------------------------------------------------
(* Types. *)

\* What IInv does not say of the types: it knows the calls and the orders.
Ranges == /\ payments \in [Attempt -> [status : PaymentStatus \union {"none"},
                                       version : 0..MaxMoves]]
          /\ store.stage \in Stage /\ store.loading \in BOOLEAN /\ store.error \in BOOLEAN
          /\ overtaken \in [Call -> BOOLEAN] /\ drops \in 0..MaxDrops

LEMMA RangesStep ==
    ASSUME IInv, CP!IInv, Ranges, [Next]_vars
    PROVE  Ranges'
<1> DEFINE PaymentRow == [status : PaymentStatus \union {"none"}, version : 0..MaxMoves]
<1>0. /\ {MaxDrops, MaxMoves} \subseteq Nat /\ StoreTyped
      /\ payments \in [Attempt -> PaymentRow]
  BY BoundAssumption DEF Ranges, IInv, Typed
<1>s. \A status : CreatedStage(status) \in Stage /\ OrderStage(status) \in Stage
  BY DEF CreatedStage, OrderStage, Stage
<1>1. ASSUME NEW a \in Attempt, Serve(a) PROVE Ranges'
  <2>1. \A o \in Attempt : requests[o].answer \in {"confirmed", "failed", "unknown"}
    BY DEF CP!IInv, CP!TypeOK, CP!Answer
  <2>2. \A o \in Attempt : Inserted(requests[o].answer) \in PaymentRow
    BY <1>0, <2>1 DEF Inserted, PaymentStatus
  <2>3. payments' \in [Attempt -> PaymentRow]
    <3> HIDE DEF PaymentRow
    <3> QED
      BY <1>0, <1>1, <2>2 DEF Serve
  <2> QED
    BY <1>1, <2>3 DEF Serve, client, Ranges
<1>2. ASSUME NEW o \in Attempt, PaymentMoves(o) PROVE Ranges'
  <2>1. PICK status \in PaymentStatus :
            payments' = [payments EXCEPT ![o] = [status |-> status, version |-> @.version + 1]]
    BY <1>2 DEF PaymentMoves
  <2>2. payments[o].version + 1 \in 0..MaxMoves
    BY <1>0, <1>2 DEF PaymentMoves
  <2>3. [status |-> status, version |-> payments[o].version + 1] \in PaymentRow
    BY <2>2
  <2>4. payments' \in [Attempt -> PaymentRow]
    <3> HIDE DEF PaymentRow
    <3> QED
      BY <1>0, <2>1, <2>3
  <2> QED
    BY <1>2, <2>4 DEF PaymentMoves, client, Ranges
<1>3. CASE UNCHANGED <<payments, store, overtaken, drops>>
  BY <1>3 DEF Ranges
<1>4. CASE UNCHANGED <<payments, overtaken>> /\ MarkError /\ drops' \in 0..MaxDrops
  BY <1>0, <1>4 DEF MarkError, Ranges, StoreTyped
<1>5. ASSUME NEW c \in Call, AttemptFails(c), UNCHANGED <<payments, overtaken>>,
             drops' \in 0..MaxDrops
      PROVE  Ranges'
  BY <1>4, <1>5 DEF AttemptFails, Ranges
<1>6. ASSUME NEW c \in Call, Proceed(c) \/ BodyArrives(c) PROVE Ranges'
  <2>0. ASSUME NEW d, Overtakes(d) PROVE overtaken' \in [Call -> BOOLEAN]
    BY <2>0 DEF Overtakes
  <2>1. CASE PostSucceeds(c)
    BY <1>s, <2>0, <2>1 DEF PostSucceeds, server, Ranges
  <2>2. CASE GetSucceeds(c)
    BY <1>s, <2>0, <2>2 DEF GetSucceeds, server, Ranges
  <2>3. CASE PostRefused(c) \/ GetRefused(c) \/ TimesOut(c)
    BY <1>4, <1>5, <2>3 DEF PostRefused, GetRefused, TimesOut, server, Ranges
  <2>4. CASE Answered(c) \/ Resume(c)
    BY <1>3, <2>4 DEF Answered, Resume, server
  <2> QED
    BY <1>6, <2>1, <2>2, <2>3, <2>4 DEF Proceed, BodyArrives
<1>7. ASSUME NEW c \in Call, ExchangeBreaks(c) \/ BodyBreaks(c) PROVE Ranges'
  <2>1. drops' \in 0..MaxDrops
    BY <1>0, <1>7 DEF ExchangeBreaks, BodyBreaks, Ranges
  <2> QED
    BY <1>4, <1>5, <1>7, <2>1 DEF ExchangeBreaks, BodyBreaks, server
<1>8. ASSUME NEW f \in Refresh, NEW o, ServeRead(f) \/ StartRefresh(f, o) PROVE Ranges'
  BY <1>0, <1>8 DEF ServeRead, StartRefresh, Begin, server, client, Ranges, StoreTyped
<1>9. ASSUME NEW s \in Submission, Submit(s) PROVE Ranges'
  BY <1>0, <1>9 DEF Submit, Begin, server, Ranges, StoreTyped, Stage
<1>10. CASE Reset
  BY <1>10 DEF Reset, EmptyStore, server, Ranges, Stage
<1>11. CASE UNCHANGED vars
  BY <1>3, <1>11 DEF vars, server, client
<1> QED
  BY <1>1, <1>2, <1>6, <1>7, <1>8, <1>9, <1>10, <1>11 DEF Next

\* Every state is well typed, on both sides of the network (the store, the
\* calls of the hook and the rows of the API).
THEOREM StorefrontTyped == Spec => []TypeOK
<1>1. Init => IInv /\ Ranges
  <2>1. Init => Ranges
    BY BoundAssumption DEF Init, Ranges, NotOrdered, EmptyStore, Stage
  <2> QED
    BY <2>1, Start
<1>2. CP!IInv /\ IInv /\ Ranges /\ [Next]_vars => (IInv /\ Ranges)'
  BY Step, RangesStep
<1>3. CP!IInv /\ IInv /\ Ranges => TypeOK
  <2> SUFFICES ASSUME CP!IInv, IInv, Ranges PROVE TypeOK
    OBVIOUS
  <2>1. API!TypeOK
    BY DEF CP!IInv, CP!TypeOK, API!TypeOK, CP!OrderRow, API!OrderRow, CP!Answer, API!Answer,
           CP!Outcome, API!Outcome
  <2>2. /\ calls \in [Call -> [pc : {"idle", "sent", "body", "pause", "done"},
                               attempt : 0..GetRetries, target : Attempt \union {NoOrder}]]
        /\ \A s \in Submission : calls[s].attempt <= PostRetries
    BY DEF IInv, Typed, CallsTyped, AttemptsBounded, Retries, GetRetries, PostRetries, Call
  <2>3. store.order \in Attempt \union {NoOrder}
    BY DEF IInv, ShownIsTrue, OrdersOK, RowsNamed, Committed
  <2> QED
    BY <2>1, <2>2, <2>3 DEF TypeOK, Ranges
<1> QED
  BY <1>1, <1>2, <1>3, ApiAlways, PTL DEF Spec
=============================================================================
