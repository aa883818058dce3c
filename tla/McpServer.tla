------------------------------ MODULE McpServer ------------------------------
(***************************************************************************)
(* The MCP server (mcp/src): eight read-only tools behind one policy,      *)
(* toolResponse, which refuses dangerous inputs and limits the calls of    *)
(* each tool with a fixed window.  What the tools return is constant data. *)
(*                                                                         *)
(* Time is seen relative to the present: how long a window still lasts and *)
(* how many units of time ago a call was admitted.                         *)
(***************************************************************************)
EXTENDS Integers, FiniteSets

CONSTANTS Called,     \* tools that clients call, with inputs the policy passes
          Window,     \* RATE_LIMIT_WINDOW_MS (60000 in the code)
          MaxCalls    \* RATE_LIMIT_MAX_CALLS (30 in the code)

Tool == {"queryPrometheusMetrics", "getKafkaLag", "getDLQStats", "getTraceSummary",
         "getCanaryHealth", "getWorkerHealth", "getRetryMetrics", "getPublicSystemStatus"}

ASSUME LimitAssumption == /\ Called \subseteq Tool
                          /\ Window \in Nat \ {0} /\ MaxCalls \in Nat \ {0}

VARIABLES windows,  \* Called -> rateLimitState: calls counted, time left until resetAt
          recent    \* Called -> the calls admitted less than Window ago, each as
                    \* its age and its number in its window

mcpVars == <<windows, recent>>

McpInit == /\ windows = [t \in Called |-> [count |-> 0, left |-> 0]]
           /\ recent = [t \in Called |-> {}]

\* checkRateLimit: !current || current.resetAt <= now, and count < max.
Expired(t) == windows[t].left = 0

\* Mutant: the limit is one call too high.
MutantHasBudget(t) == windows[t].count <= MaxCalls

HasBudget(t) == windows[t].count < MaxCalls

\* Mutant: every call pushes resetAt back.
MutantCounted(t) == IF Expired(t) THEN [count |-> 1, left |-> Window]
                                  ELSE [count |-> windows[t].count + 1, left |-> Window]

Counted(t) == IF Expired(t) THEN [count |-> 1, left |-> Window]
                            ELSE [windows[t] EXCEPT !.count = @ + 1]

\* toolResponse answers with data.  A call it denies, for its input or by the
\* limit, is not counted and changes nothing.
Admit(t) == /\ Expired(t) \/ HasBudget(t)
            /\ windows' = [windows EXCEPT ![t] = Counted(t)]
            /\ recent' = [recent EXCEPT ![t] = @ \union {[age |-> 0, n |-> Counted(t).count]}]

\* One unit of time passes.
Older(calls) == {[c EXCEPT !.age = @ + 1] : c \in {d \in calls : d.age + 1 < Window}}
Elapse == /\ windows' = [t \in Called |-> [windows[t] EXCEPT !.left = IF @ = 0 THEN 0 ELSE @ - 1]]
          /\ recent' = [t \in Called |-> Older(recent[t])]

McpNext == Elapse \/ \E t \in Called : Admit(t)

McpSpec == McpInit /\ [][McpNext]_mcpVars

-----------------------------------------------------------------------------
\* Type invariant of the limiter.
McpTypeOK ==
    /\ windows \in [Called -> [count : 0..MaxCalls, left : 0..Window]]
    /\ recent \in [Called -> SUBSET [age : 0..(Window - 1), n : 1..MaxCalls]]

\* The fixed window around its boundary: within any Window of time a tool
\* answers less than twice the advertised limit (all calls but the first of
\* an old window, followed by a full new one), and no more.
RateIsBounded == \A t \in Called : Cardinality(recent[t]) <= 2 * MaxCalls - 1

\* The limit refuses nobody too early: when a call is refused, MaxCalls calls
\* were admitted within the last Window.
RefusalIsEarned ==
    \A t \in Called : ~Expired(t) /\ ~HasBudget(t) => Cardinality(recent[t]) >= MaxCalls
=============================================================================
