------------------------------ MODULE Consoles ------------------------------
(***************************************************************************)
(* The two operations consoles of the front end: the hooks                 *)
(* useAiOperationsConsole and useTrustOperationsConsole with the services  *)
(* under them.  A question becomes a batch of tools, run by the gateway in *)
(* the browser that stands in for the MCP server (module McpServer, whose  *)
(* tools and limiter are beside it here).                                  *)
(***************************************************************************)
EXTENDS McpServer, SequencesExt

CONSTANTS Question,      \* questions that operators ask, none of them blank
          MaxQuestions,  \* bound: questions, over both consoles
          MaxTicks       \* bound: snapshots the trust console asks for

Console == {"aiops", "trust"}

\* classifyIntent takes the first topic that the question mentions, and
\* invokeToolsForIntent has a batch of tools for each.
AiIntents ==
    <<[topic |-> "worker",  tools |-> {"getWorkerHealth", "getKafkaLag", "getRetryMetrics"}],
      [topic |-> "canary",  tools |-> {"getCanaryHealth", "queryPrometheusMetrics", "getDLQStats"}],
      [topic |-> "dlq",     tools |-> {"getDLQStats", "getTraceSummary", "getRetryMetrics"}],
      [topic |-> "retry",   tools |-> {"getRetryMetrics", "getKafkaLag", "getDLQStats"}],
      [topic |-> "trace",   tools |-> {"getTraceSummary", "getCanaryHealth", "queryPrometheusMetrics"}],
      [topic |-> "latency", tools |-> {"queryPrometheusMetrics", "getTraceSummary",
                                       "getPublicSystemStatus"}]>>
SystemStatus == {"getPublicSystemStatus", "queryPrometheusMetrics"}

\* The same in the trust console (trustRequestsForIntent), whose batches all
\* begin with the public status.
TrustIntents ==
    <<[topic |-> "customer",  tools |-> {"getPublicSystemStatus", "queryPrometheusMetrics",
                                         "getTraceSummary", "getKafkaLag"}],
      [topic |-> "communicate", tools |-> {"getPublicSystemStatus", "getDLQStats",
                                           "getTraceSummary", "getRetryMetrics"}],
      [topic |-> "ticket",    tools |-> {"getPublicSystemStatus", "getRetryMetrics", "getDLQStats"}],
      [topic |-> "canary",    tools |-> {"getPublicSystemStatus", "getCanaryHealth",
                                         "queryPrometheusMetrics"}]>>
General == {"getPublicSystemStatus", "queryPrometheusMetrics", "getWorkerHealth"}

Topic == {i.topic : i \in Range(AiIntents) \union Range(TrustIntents)}

\* A question is what the code tells apart: the topics it mentions, and the
\* denylist that matches it, if any.
ASSUME QuestionAssumption ==
    Question \subseteq [topics : SUBSET Topic, denylist : {"none", "gateway", "client"}]
ASSUME ConsoleBoundAssumption == {MaxQuestions, MaxTicks} \subseteq Nat

VARIABLES chats,   \* Console -> [messages, thinking]: the conversation on the screen
          asking,  \* Console -> questions whose ask() has not returned
          ran,     \* Console -> tools the gateway ran for questions
          screen,  \* trust console: [tick, effect, snapshot, loading, error]
          loads    \* ticks whose getSnapshot has not returned

consoleVars == <<chats, asking, ran, screen, loads>>
vars == <<mcpVars, consoleVars>>

NoSnapshot == -1

Init == /\ McpInit
        /\ chats = [c \in Console |-> [messages |-> <<>>, thinking |-> FALSE]]
        /\ asking = [c \in Console |-> {}]
        /\ ran = [c \in Console |-> {}]
        /\ screen = [tick |-> 0, effect |-> -1, snapshot |-> NoSnapshot,
                     loading |-> TRUE, error |-> FALSE]
        /\ loads = {}

-----------------------------------------------------------------------------
(* Questions and answers *)

\* inspectPrompt of the gateway, which both consoles go through.
RefusedByGateway(q) == q.denylist = "gateway"

\* Mutant: the trust console relies on the gateway's denylist.
MutantRefusedByClient(q) == RefusedByGateway(q)

\* executeBatch of the trust console looks at a denylist of its own as well.
RefusedByClient(q) == RefusedByGateway(q) \/ q.denylist = "client"

\* The batch of the first intent whose topic is mentioned.
Batch(intents, otherwise, q) ==
    LET hits == {i \in DOMAIN intents : intents[i].topic \in q.topics}
    IN  IF hits = {} THEN otherwise ELSE intents[Min(hits)].tools

Asked(q) == [role |-> "user", question |-> q]
Message(refused, tools) == [role |-> "assistant", blocked |-> refused,
                            tools |-> IF refused THEN {} ELSE tools]
AiAnswer(q)    == Message(RefusedByGateway(q), Batch(AiIntents, SystemStatus, q))
TrustAnswer(q) == Message(RefusedByClient(q), Batch(TrustIntents, General, q))
Answer(c, q)   == IF c = "aiops" THEN AiAnswer(q) ELSE TrustAnswer(q)
Degraded == Message(FALSE, {})

\* What the trust console shows.  It takes questions only beside a snapshot,
\* and has a button to load one unless it shows the skeleton.
View == IF screen.snapshot # NoSnapshot THEN "console"
        ELSE IF screen.loading THEN "skeleton" ELSE "degraded"

\* Mutant: the guard of ask() does not look at isThinking.
MutantMayAsk(c) == TRUE

\* ask() reads the isThinking of the last render.  React renders what a click
\* or a submit has set before it delivers the next one, and an answer that is
\* not rendered yet only makes the guard refuse.
MayAsk(c) == ~chats[c].thinking

Questions(c) == Cardinality({i \in DOMAIN chats[c].messages :
                                chats[c].messages[i].role = "user"})

\* ask(), from the form or from a suggestion.
Ask(c, q) ==
    /\ c = "trust" => View = "console"
    /\ MayAsk(c) /\ Questions("aiops") + Questions("trust") < MaxQuestions
    /\ chats' = [chats EXCEPT ![c] = [messages |-> Append(@.messages, Asked(q)),
                                      thinking |-> TRUE]]
    /\ asking' = [asking EXCEPT ![c] = @ \union {q}]
    /\ UNCHANGED <<mcpVars, ran, screen, loads>>

Reply(c, q, message) ==
    /\ q \in asking[c]
    /\ asking' = [asking EXCEPT ![c] = @ \ {q}]
    /\ chats' = [chats EXCEPT ![c] = [messages |-> Append(@.messages, message),
                                      thinking |-> FALSE]]
    /\ UNCHANGED <<mcpVars, screen, loads>>

\* The tools of the gateway; none of them changes anything.
Run(c, tools) == ran' = [ran EXCEPT ![c] = @ \union tools]

\* After its delay the service inspects the question, runs the tools of its
\* intent unless it is blocked, and composes the answer.
Answered(c, q) == Reply(c, q, Answer(c, q)) /\ Run(c, Answer(c, q).tools)

\* The trust console survives a service that throws; the other one calls a
\* service that cannot.
AskFails(q) == /\ Reply("trust", q, Degraded)
               /\ UNCHANGED ran

-----------------------------------------------------------------------------
(* The snapshot of the trust console *)

\* setInterval, every 6.5 seconds, for as long as the page is open: MaxTicks
\* bounds the model, and no property may rest on the last tick.
NextTick == /\ screen.tick < MaxTicks
            /\ screen' = [screen EXCEPT !.tick = @ + 1]
            /\ UNCHANGED <<mcpVars, chats, asking, ran, loads>>

\* The Refresh button.
Refresh == /\ View # "skeleton" /\ screen.tick < MaxTicks
           /\ screen' = [screen EXCEPT !.tick = @ + 1, !.loading = TRUE]
           /\ UNCHANGED <<mcpVars, chats, asking, ran, loads>>

\* React runs the effect of the tick it rendered last: the cleanup cancels
\* the load of the effect before, and a new one starts.
Effect == /\ screen.effect < screen.tick
          /\ screen' = [screen EXCEPT !.effect = screen.tick, !.error = FALSE]
          /\ loads' = loads \union {screen.tick}
          /\ UNCHANGED <<mcpVars, chats, asking, ran>>

\* Mutant: the flag of the cleanup is not looked at.
MutantIsCancelled(k) == FALSE

IsCancelled(k) == k # screen.effect

\* Mutant: the error path leaves isLoading on.
MutantLoadFails(k) ==
    /\ k \in loads
    /\ loads' = loads \ {k}
    /\ screen' = IF IsCancelled(k) THEN screen ELSE [screen EXCEPT !.error = TRUE]
    /\ UNCHANGED <<mcpVars, chats, asking, ran>>

Loaded(k) ==
    /\ k \in loads
    /\ loads' = loads \ {k}
    /\ screen' = IF IsCancelled(k) THEN screen
                 ELSE [screen EXCEPT !.snapshot = k, !.loading = FALSE]
    /\ UNCHANGED <<mcpVars, chats, asking, ran>>

LoadFails(k) ==
    /\ k \in loads
    /\ loads' = loads \ {k}
    /\ screen' = IF IsCancelled(k) THEN screen
                 ELSE [screen EXCEPT !.error = TRUE, !.loading = FALSE]
    /\ UNCHANGED <<mcpVars, chats, asking, ran>>

ServiceReturns == \/ \E c \in Console : \E q \in asking[c] : Answered(c, q)
                  \/ \E q \in asking["trust"] : AskFails(q)
LoadReturns == \E k \in loads : Loaded(k) \/ LoadFails(k)

Next == \/ \E c \in Console : \E q \in Question : Ask(c, q)
        \/ ServiceReturns \/ NextTick \/ Refresh \/ Effect \/ LoadReturns
        \/ McpNext /\ UNCHANGED consoleVars

Spec == Init /\ [][Next]_vars

\* Timers fire and React runs the effects it owes.
FairSpec == /\ Spec
            /\ WF_vars(ServiceReturns) /\ WF_vars(Effect) /\ WF_vars(LoadReturns)

-----------------------------------------------------------------------------
\* Type invariant.
TypeOK ==
    /\ McpTypeOK
    /\ \A c \in Console : /\ chats[c].thinking \in BOOLEAN
                          /\ asking[c] \subseteq Question
                          /\ ran[c] \subseteq Tool
    /\ screen \in [tick : 0..MaxTicks, effect : -1..MaxTicks, snapshot : -1..MaxTicks,
                   loading : BOOLEAN, error : BOOLEAN]
    /\ loads \subseteq 0..MaxTicks

\* The conversation reads as one: questions and answers alternate, and the
\* answer under a question is the one to that question, although each is
\* appended by a setState of its own.
AnswersFollowQuestions ==
    \A c \in Console : \A i \in DOMAIN chats[c].messages :
        LET m == chats[c].messages[i]
        IN  IF i % 2 = 1 THEN m.role = "user"
            ELSE m = Answer(c, chats[c].messages[i - 1].question) \/ m = Degraded

\* No tool runs for a question that a denylist of its console matches: what
\* ran was asked for by the other questions on the screen.
BlockedRunsNothing ==
    \A c \in Console :
        LET asked == {m.question : m \in {n \in Range(chats[c].messages) : n.role = "user"}}
            open == {q \in asked : q.denylist \in IF c = "aiops" THEN {"none", "client"}
                                                                ELSE {"none"}}
        IN  ran[c] \subseteq UNION {IF c = "aiops" THEN Batch(AiIntents, SystemStatus, q)
                                    ELSE Batch(TrustIntents, General, q) : q \in open}

\* A slow snapshot never replaces a newer one (the flag set by the cleanup).
SnapshotNeverGoesBack == [][screen'.snapshot >= screen.snapshot]_vars

\* No dead spinner: every question is answered; and while the trust console
\* says it is loading, the load of the current tick ends that, by an answer or
\* an error, unless the next tick comes first and cancels it.  (A browser slow
\* enough to do so at every tick would leave it loading: nothing stops the
\* interval.)
WaitingEndsOrTicks ==
    /\ \A c \in Console : chats[c].thinking ~> ~chats[c].thinking
    /\ \A k \in 0..MaxTicks :
          (screen.loading /\ screen.tick = k) ~> (~screen.loading \/ screen.tick > k)
=============================================================================
