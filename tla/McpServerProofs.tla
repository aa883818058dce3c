-------------------------- MODULE McpServerProofs --------------------------
(***************************************************************************)
(* The rate limiter of the MCP server for every set of tools, length of    *)
(* the window and limit: a tool answers at most 2 * MaxCalls - 1 calls in  *)
(* any Window of time, and refuses none before MaxCalls were answered.     *)
(*                                                                         *)
(* The argument is about one tool.  Its recent calls are those of the      *)
(* window that is open and those of the one before.  Within a window a     *)
(* call is known by its number, so each part is as large as the numbers it *)
(* has; and the first call of the window before, which opened it, is       *)
(* older than Window by the time the next window opens.                    *)
(***************************************************************************)
EXTENDS McpServer, FunctionTheorems, FiniteSetTheorems, TLAPS

Count == [count : 0..MaxCalls, left : 0..Window]
Call == [age : 0..(Window - 1), n : 1..MaxCalls]

\* The calls of the open window w among the recent calls R, and the others.
Current(w, R) == {c \in R : w.left > 0 /\ c.age + w.left <= Window}
Past(w, R) == {c \in R : w.left = 0 \/ c.age + w.left > Window}

ToolInv(w, R) ==
    /\ w \in Count /\ R \subseteq Call
    /\ w.left > 0 => w.count > 0
    /\ w.left = 0 => \A c \in R : c.age > 0
    /\ \A c \in Past(w, R) : c.n > 1
    /\ \A c, d \in Past(w, R) : c.n = d.n => c = d
    /\ \A c \in Current(w, R) : c.n <= w.count /\ (c.n = 1 => c.age + w.left = Window)
    /\ \A c, d \in Current(w, R) : c.n = d.n => c = d
    /\ w.left > 0 => \A i \in 1..w.count : \E c \in Current(w, R) : c.n = i

LimitInv == /\ windows \in [Called -> Count]
            /\ recent \in [Called -> SUBSET Call]
            /\ \A t \in Called : ToolInv(windows[t], recent[t])

-----------------------------------------------------------------------------
\* A set of calls told apart by their numbers is no larger than the numbers.
LEMMA NumbersBound ==
    ASSUME NEW S \in SUBSET Call, NEW a \in Int, NEW b \in Int,
           \A c \in S : c.n \in a..b,
           \A c, d \in S : c.n = d.n => c = d
    PROVE  IsFiniteSet(S) /\ Cardinality(S) <= Cardinality(a..b)
<1> DEFINE f == [c \in S |-> c.n]
<1>1. f \in [S -> a..b] /\ \A c, d \in S : f[c] = f[d] => c = d
  OBVIOUS
<1>2. f \in Injection(S, a..b)
  <2> HIDE DEF f
  <2> QED
    BY <1>1, Fun_IsInj
<1> QED
  BY <1>2, FS_Injection, FS_Interval

\* A finite set of calls that has all the numbers is no smaller than they are.
LEMMA NumbersCover ==
    ASSUME NEW S, IsFiniteSet(S), NEW b \in Int, \A c \in S : c.n \in 1..b,
           \A i \in 1..b : \E c \in S : c.n = i
    PROVE  Cardinality(1..b) <= Cardinality(S)
<1> DEFINE f == [c \in S |-> c.n]
<1>1. f \in [S -> 1..b] /\ \A i \in 1..b : \E c \in S : f[c] = i
  OBVIOUS
<1>2. f \in Surjection(S, 1..b)
  <2> HIDE DEF f
  <2> QED
    BY <1>1, Fun_IsSurj
<1> QED
  BY <1>2, FS_Surjection

\* What the invariant says about the size of the recent calls of a tool.
LEMMA SizeOfRecent ==
    ASSUME NEW w, NEW R, ToolInv(w, R)
    PROVE  /\ IsFiniteSet(R)
           /\ Cardinality(R) \in Nat /\ Cardinality(R) <= 2 * MaxCalls - 1
           /\ w.left > 0 => w.count <= Cardinality(R)
<1> DEFINE C == Current(w, R)
           P == Past(w, R)
<1>1. /\ MaxCalls \in Nat \ {0} /\ w.count \in 0..MaxCalls /\ w.left \in 0..Window
      /\ Window \in Nat \ {0} /\ R \in SUBSET Call
  BY LimitAssumption DEF ToolInv, Count
<1>2. /\ C \in SUBSET Call /\ P \in SUBSET Call /\ R = C \union P
  BY <1>1 DEF Current, Past, Call
<1>3. IsFiniteSet(C) /\ Cardinality(C) <= Cardinality(1..MaxCalls)
  <2>1. /\ \A c \in C : c.n \in 1..MaxCalls
        /\ \A c, d \in C : c.n = d.n => c = d
    BY <1>2 DEF ToolInv, Call
  <2> HIDE DEF C, P
  <2> QED
    BY <1>1, <1>2, <2>1, NumbersBound
<1>4. IsFiniteSet(P) /\ Cardinality(P) <= Cardinality(2..MaxCalls)
  <2>1. /\ \A c \in P : c.n \in 2..MaxCalls
        /\ \A c, d \in P : c.n = d.n => c = d
    BY <1>1, <1>2 DEF ToolInv, Call
  <2> HIDE DEF C, P
  <2> QED
    BY <1>1, <1>2, <2>1, NumbersBound
<1>5. /\ Cardinality(1..MaxCalls) = MaxCalls
      /\ Cardinality(2..MaxCalls) = MaxCalls - 1
      /\ Cardinality(1..w.count) = w.count
  <2>1. \A a, b \in Int : Cardinality(a..b) = IF a > b THEN 0 ELSE b - a + 1
    BY FS_Interval
  <2>2. MaxCalls \in Int /\ w.count \in Int
    BY <1>1
  <2>3. Cardinality(1..MaxCalls) = IF 1 > MaxCalls THEN 0 ELSE MaxCalls - 1 + 1
    BY <2>1, <2>2
  <2>4. Cardinality(2..MaxCalls) = IF 2 > MaxCalls THEN 0 ELSE MaxCalls - 2 + 1
    BY <2>1, <2>2
  <2>5. Cardinality(1..w.count) = IF 1 > w.count THEN 0 ELSE w.count - 1 + 1
    BY <2>1, <2>2
  <2> QED
    BY <1>1, <2>3, <2>4, <2>5
<1>6. /\ IsFiniteSet(R) /\ Cardinality(R) \in Nat
      /\ Cardinality(R) <= Cardinality(C) + Cardinality(P)
  <2> HIDE DEF C, P
  <2>1. IsFiniteSet(C \cap P) /\ Cardinality(C \cap P) \in Nat
    BY <1>3, FS_Subset, FS_CardinalityType
  <2>2. /\ IsFiniteSet(R)
        /\ Cardinality(R) = Cardinality(C) + Cardinality(P) - Cardinality(C \cap P)
    BY <1>2, <1>3, <1>4, FS_Union
  <2>3. Cardinality(R) \in Nat /\ Cardinality(C) \in Nat /\ Cardinality(P) \in Nat
    BY <1>3, <1>4, <2>2, FS_CardinalityType
  <2> QED
    BY <2>1, <2>2, <2>3
<1>7. ASSUME w.left > 0
      PROVE  w.count <= Cardinality(R)
  <2>1. /\ \A c \in C : c.n \in 1..w.count
        /\ \A i \in 1..w.count : \E c \in C : c.n = i
    BY <1>1, <1>2, <1>7 DEF ToolInv, Call
  <2> HIDE DEF C, P
  <2>2. Cardinality(1..w.count) <= Cardinality(C)
    BY <1>1, <1>3, <2>1, NumbersCover
  <2>3. Cardinality(C) <= Cardinality(R) /\ Cardinality(C) \in Nat
    BY <1>2, <1>3, <1>6, FS_Subset, FS_CardinalityType
  <2> QED
    BY <1>1, <1>5, <1>6, <2>2, <2>3
<1> HIDE DEF C, P
<1>8. Cardinality(C) \in Nat /\ Cardinality(P) \in Nat
  BY <1>3, <1>4, FS_CardinalityType
<1> QED
  BY <1>1, <1>3, <1>4, <1>5, <1>6, <1>7, <1>8

-----------------------------------------------------------------------------
\* A call that opens a window.
LEMMA OpeningCall ==
    ASSUME NEW w, NEW R, ToolInv(w, R), w.left = 0
    PROVE  ToolInv([count |-> 1, left |-> Window], R \union {[age |-> 0, n |-> 1]})
<1> DEFINE v == [count |-> 1, left |-> Window]
           S == R \union {[age |-> 0, n |-> 1]}
<1>1. MaxCalls \in Nat \ {0} /\ Window \in Nat \ {0}
  BY LimitAssumption
<1>2. v \in Count /\ S \subseteq Call /\ v.left = Window /\ v.count = 1
  BY <1>1 DEF ToolInv, Count, Call
<1>3. Past(w, R) = R /\ \A c \in R : c.age \in Nat /\ c.age > 0
  BY <1>1 DEF ToolInv, Past, Call
<1>4. Current(v, S) = {[age |-> 0, n |-> 1]} /\ Past(v, S) = R
  BY <1>1, <1>2, <1>3 DEF Current, Past
<1> HIDE DEF v, S
<1>5. ToolInv(v, S)
  <2>1. \A c, d \in Past(v, S) : c.n = d.n => c = d
    BY <1>3, <1>4 DEF ToolInv
  <2>2. \A c \in Past(v, S) : c.n > 1
    BY <1>3, <1>4 DEF ToolInv
  <2>3. \A c \in Current(v, S) : c.n = 1 /\ c.age = 0 /\ c = [age |-> 0, n |-> 1]
    BY <1>4
  <2>4. \A i \in 1..v.count : \E c \in Current(v, S) : c.n = i
    BY <1>2, <1>4
  <2> QED
    BY <1>1, <1>2, <2>1, <2>2, <2>3, <2>4 DEF ToolInv
<1> QED
  BY <1>5 DEF v, S

\* A further call of an open window.
LEMMA FurtherCall ==
    ASSUME NEW w, NEW R, ToolInv(w, R), w.left # 0, w.count < MaxCalls
    PROVE  ToolInv([w EXCEPT !.count = @ + 1],
                   R \union {[age |-> 0, n |-> w.count + 1]})
<1> DEFINE v == [w EXCEPT !.count = @ + 1]
           new == [age |-> 0, n |-> w.count + 1]
           S == R \union {new}
<1>1. /\ MaxCalls \in Nat \ {0} /\ Window \in Nat \ {0}
      /\ w \in Count /\ w.count \in 1..MaxCalls /\ w.left \in 1..Window
  BY LimitAssumption DEF ToolInv, Count
<1>2. /\ v \in Count /\ S \subseteq Call /\ v.left = w.left /\ v.count = w.count + 1
      /\ new \in Call /\ new.age = 0 /\ new.n = w.count + 1
  BY <1>1 DEF ToolInv, Count, Call
<1> HIDE DEF v, new
<1>3. Current(v, S) = Current(w, R) \union {new} /\ Past(v, S) = Past(w, R)
  BY <1>1, <1>2 DEF Current, Past
<1>4. \A c \in Current(w, R) : c.n \in 1..w.count
  BY <1>1 DEF Current, ToolInv, Call
<1>5. \A i \in 1..v.count : i \in 1..w.count \/ i = new.n
  BY <1>1, <1>2
<1> HIDE DEF S
<1>6. /\ \A c \in Current(v, S) : c.n <= v.count /\ (c.n = 1 => c.age + v.left = Window)
      /\ \A c, d \in Current(v, S) : c.n = d.n => c = d
      /\ \A i \in 1..v.count : \E c \in Current(v, S) : c.n = i
  BY <1>1, <1>2, <1>3, <1>4, <1>5 DEF ToolInv
<1>7. S \subseteq Call
  BY <1>2
<1>8. ToolInv(v, S)
  BY <1>1, <1>2, <1>3, <1>6, <1>7 DEF ToolInv
<1> QED
  BY <1>8 DEF v, S, new

-----------------------------------------------------------------------------
\* One unit of time passes for one tool.
LEMMA TimePasses ==
    ASSUME NEW w, NEW R, ToolInv(w, R)
    PROVE  ToolInv([w EXCEPT !.left = IF @ = 0 THEN 0 ELSE @ - 1], Older(R))
<1> DEFINE v == [w EXCEPT !.left = IF @ = 0 THEN 0 ELSE @ - 1]
           Aged(c) == [c EXCEPT !.age = @ + 1]
<1>1. /\ MaxCalls \in Nat \ {0} /\ Window \in Nat \ {0}
      /\ w \in Count /\ w.count \in 0..MaxCalls /\ w.left \in 0..Window
      /\ R \subseteq Call
  BY LimitAssumption DEF ToolInv, Count
<1>2. /\ v \in Count /\ v.count = w.count
      /\ v.left = IF w.left = 0 THEN 0 ELSE w.left - 1
  BY <1>1 DEF Count
<1>3. \A c \in R : /\ c.age \in 0..(Window - 1) /\ c.n \in 1..MaxCalls
                   /\ Aged(c).age = c.age + 1 /\ Aged(c).n = c.n
                   /\ c.age + 1 < Window => Aged(c) \in Call
  BY <1>1 DEF Call
<1>4. /\ \A c \in R : c.age + 1 < Window => Aged(c) \in Older(R)
      /\ \A d \in Older(R) : \E c \in R : c.age + 1 < Window /\ d = Aged(c)
  BY DEF Older
<1> HIDE DEF v, Aged
<1>5. Older(R) \subseteq Call /\ \A d \in Older(R) : d.age > 0
  BY <1>1, <1>3, <1>4
<1>6. CASE w.left <= 1
  \* The window closes, or was closed: the calls left are not its first.
  <2>1. v.left = 0 /\ Current(v, Older(R)) = {} /\ Past(v, Older(R)) = Older(R)
    BY <1>1, <1>2, <1>6 DEF Current, Past
  <2>2. \A c \in R : c.age + 1 < Window =>
            \/ w.left = 0 /\ c \in Past(w, R)
            \/ w.left = 1 /\ c \in Current(w, R)
    BY <1>1, <1>3, <1>6 DEF Current, Past
  <2>3. \A c \in R : c.age + 1 < Window => c.n > 1
    BY <1>1, <1>3, <2>2 DEF ToolInv
  <2>4. \A c, d \in R : c.age + 1 < Window /\ d.age + 1 < Window /\ c.n = d.n => c = d
    BY <2>2 DEF ToolInv
  <2>5. \A d \in Older(R) : d.n > 1
    BY <1>3, <1>4, <2>3
  <2>6. \A c, d \in Older(R) : c.n = d.n => c = d
    BY <1>3, <1>4, <2>4
  <2>7. ToolInv(v, Older(R))
    BY <1>2, <1>5, <2>1, <2>5, <2>6 DEF ToolInv
  <2> QED
    BY <2>7 DEF v
<1>7. CASE w.left > 1
  \* The window stays open and keeps its calls.
  <2>1. v.left = w.left - 1 /\ v.left > 0
    BY <1>1, <1>2, <1>7
  <2>2. /\ \A c \in Current(w, R) : c.age + 1 < Window /\ Aged(c) \in Current(v, Older(R))
        /\ \A d \in Current(v, Older(R)) : \E c \in Current(w, R) : d = Aged(c)
        /\ \A d \in Past(v, Older(R)) : \E c \in Past(w, R) : d = Aged(c)
    <3>1. \A c \in Current(w, R) : c.age + 1 < Window /\ Aged(c) \in Current(v, Older(R))
      BY <1>1, <1>3, <1>4, <1>7, <2>1 DEF Current
    <3>2. \A d \in Current(v, Older(R)) : \E c \in Current(w, R) : d = Aged(c)
      BY <1>1, <1>3, <1>4, <1>7, <2>1 DEF Current
    <3>3. \A d \in Past(v, Older(R)) : \E c \in Past(w, R) : d = Aged(c)
      BY <1>1, <1>3, <1>4, <1>7, <2>1 DEF Past
    <3> QED
      BY <3>1, <3>2, <3>3
  <2>3. Current(w, R) \subseteq R /\ Past(w, R) \subseteq R
    BY DEF Current, Past
  <2>4. /\ \A d \in Past(v, Older(R)) : d.n > 1
        /\ \A c, d \in Past(v, Older(R)) : c.n = d.n => c = d
    BY <1>3, <2>2, <2>3 DEF ToolInv
  <2>5. \A d \in Current(v, Older(R)) :
            d.n <= v.count /\ (d.n = 1 => d.age + v.left = Window)
    BY <1>1, <1>2, <1>3, <2>1, <2>2, <2>3 DEF ToolInv
  <2>6. \A c, d \in Current(v, Older(R)) : c.n = d.n => c = d
    BY <1>3, <2>2, <2>3 DEF ToolInv
  <2>7. \A i \in 1..v.count : \E c \in Current(v, Older(R)) : c.n = i
    BY <1>1, <1>2, <1>3, <1>7, <2>2, <2>3 DEF ToolInv
  <2>8. ToolInv(v, Older(R))
    BY <1>1, <1>2, <1>5, <1>7, <2>1, <2>4, <2>5, <2>6, <2>7 DEF ToolInv
  <2> QED
    BY <2>8 DEF v
<1> QED
  BY <1>1, <1>6, <1>7

-----------------------------------------------------------------------------
LEMMA LimitStart == McpInit => LimitInv
<1> SUFFICES ASSUME McpInit PROVE LimitInv
  OBVIOUS
<1>1. \A t \in Called : windows[t] = [count |-> 0, left |-> 0] /\ recent[t] = {}
  BY DEF McpInit
<1>2. windows \in [Called -> Count] /\ recent \in [Called -> SUBSET Call]
  BY LimitAssumption DEF McpInit, Count
<1>3. ToolInv([count |-> 0, left |-> 0], {})
  BY LimitAssumption DEF ToolInv, Count, Current, Past
<1> QED
  BY <1>1, <1>2, <1>3 DEF LimitInv

LEMMA LimitStep == LimitInv /\ [McpNext]_mcpVars => LimitInv'
<1> SUFFICES ASSUME LimitInv, [McpNext]_mcpVars PROVE LimitInv'
  OBVIOUS
<1> USE DEF LimitInv
<1>1. CASE Elapse
  <2>1. \A t \in Called : windows[t] \in Count /\ ToolInv(windows'[t], recent'[t])
    BY <1>1, TimePasses DEF Elapse
  <2>2. /\ windows' = [t \in Called |-> windows'[t]]
        /\ recent' = [t \in Called |-> recent'[t]]
    BY <1>1 DEF Elapse
  <2> QED
    BY <2>1, <2>2 DEF ToolInv
<1>2. ASSUME NEW t \in Called, Admit(t) PROVE LimitInv'
  <2>1. /\ windows' = [windows EXCEPT ![t] = Counted(t)]
        /\ \A u \in Called \ {t} : windows'[u] = windows[u] /\ recent'[u] = recent[u]
        /\ windows'[t] = Counted(t)
    BY <1>2 DEF Admit
  <2>2. recent'[t] = recent[t] \union {[age |-> 0, n |-> Counted(t).count]}
    BY <1>2 DEF Admit
  <2>3. ToolInv(Counted(t), recent'[t])
    <3>1. CASE Expired(t)
      BY <2>2, <3>1, OpeningCall DEF Counted, Expired
    <3>2. CASE ~Expired(t)
      <4>1. Counted(t) = [windows[t] EXCEPT !.count = @ + 1]
        BY <3>2 DEF Counted
      <4>2. windows[t].left # 0 /\ windows[t].count < MaxCalls /\ windows[t] \in Count
        BY <1>2, <3>2 DEF Admit, Expired, HasBudget
      <4>3. Counted(t).count = windows[t].count + 1
        BY <4>1, <4>2 DEF Count
      <4> QED
        BY <2>2, <4>1, <4>2, <4>3, FurtherCall
    <3> QED
      BY <3>1, <3>2
  <2>4. Counted(t) \in Count /\ recent'[t] \in SUBSET Call
    BY <2>3 DEF ToolInv
  <2>5. windows' \in [Called -> Count] /\ recent' \in [Called -> SUBSET Call]
    BY <1>2, <2>1, <2>2, <2>4 DEF Admit
  <2> QED
    BY <2>1, <2>3, <2>5
<1>3. CASE UNCHANGED mcpVars
  BY <1>3 DEF mcpVars
<1> QED
  BY <1>1, <1>2, <1>3 DEF McpNext

LEMMA LimitAlways == McpSpec => []LimitInv
  BY LimitStart, LimitStep, PTL DEF McpSpec

-----------------------------------------------------------------------------
\* The state of the limiter keeps its types (rateLimitState).
THEOREM LimiterTyped == McpSpec => []McpTypeOK
<1>1. LimitInv => McpTypeOK
  BY DEF LimitInv, McpTypeOK, ToolInv, Count, Call
<1> QED
  BY <1>1, LimitAlways, PTL

\* checkRateLimit around the end of a window: within any Window of time a
\* tool answers fewer than twice the limit.
THEOREM RateAlwaysBounded == McpSpec => []RateIsBounded
<1>1. LimitInv => RateIsBounded
  BY SizeOfRecent DEF LimitInv, RateIsBounded
<1> QED
  BY <1>1, LimitAlways, PTL

\* checkRateLimit refuses no call before MaxCalls calls of the tool were
\* answered within the last Window.
THEOREM RefusalsAreEarned == McpSpec => []RefusalIsEarned
<1>1. ASSUME LimitInv, NEW t \in Called, ~Expired(t), ~HasBudget(t)
      PROVE  Cardinality(recent[t]) >= MaxCalls
  <2>1. /\ windows[t].left > 0 /\ windows[t].count \in Nat
        /\ windows[t].count >= MaxCalls /\ MaxCalls \in Nat
    BY <1>1, LimitAssumption DEF LimitInv, Count, Expired, HasBudget
  <2>2. ToolInv(windows[t], recent[t])
    BY <1>1 DEF LimitInv
  <2> QED
    BY <2>1, <2>2, SizeOfRecent
<1>2. LimitInv => RefusalIsEarned
  BY <1>1 DEF RefusalIsEarned
<1> QED
  BY <1>2, LimitAlways, PTL
=============================================================================
