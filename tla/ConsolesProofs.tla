--------------------------- MODULE ConsolesProofs ---------------------------
(***************************************************************************)
(* Theorems about the two consoles, for every set of questions and every   *)
(* number of questions and snapshots.                                      *)
(*                                                                         *)
(* A reply is appended by a setState long after its question was.  That it *)
(* still lands under its own question follows from Conversation: the guard *)
(* of ask() keeps one question open, and that is the last message.  A      *)
(* snapshot never goes back since none is newer than the effect that runs, *)
(* and only the load of that effect is listened to.                        *)
(***************************************************************************)
EXTENDS Consoles, McpServerProofs, SequenceTheorems

Utterance == [role : {"user"}, question : Question]
             \union [role : {"assistant"}, blocked : BOOLEAN, tools : SUBSET Tool]

\* The message under a question answers it.
Alternate(c, ms) ==
    \A i \in DOMAIN ms :
        IF i % 2 = 1 THEN ms[i].role = "user"
        ELSE ms[i] = Answer(c, ms[i - 1].question) \/ ms[i] = Degraded

\* A console thinks while its last message is a question, the only one that
\* is open.
Conversation(c, chat, open) ==
    /\ Alternate(c, chat.messages)
    /\ chat.thinking <=> Len(chat.messages) % 2 = 1
    /\ open = IF chat.thinking THEN {chat.messages[Len(chat.messages)].question} ELSE {}

\* What may have run under the messages ms: the batches of the questions that
\* the console lets through.
LetThrough(c) == IF c = "aiops" THEN {"none", "client"} ELSE {"none"}
BatchOf(c, q) == IF c = "aiops" THEN Batch(AiIntents, SystemStatus, q)
                                ELSE Batch(TrustIntents, General, q)
MayRun(c, ms, tool) == \E i \in DOMAIN ms : /\ ms[i].role = "user"
                                            /\ ms[i].question.denylist \in LetThrough(c)
                                            /\ tool \in BatchOf(c, ms[i].question)

ConsoleTyped == /\ chats \in [Console -> [messages : Seq(Utterance), thinking : BOOLEAN]]
                /\ asking \in [Console -> SUBSET Question]
                /\ ran \in [Console -> SUBSET Tool]

Screen == [tick : 0..MaxTicks, effect : -1..MaxTicks, snapshot : -1..MaxTicks,
           loading : BOOLEAN, error : BOOLEAN]

ScreenInv == /\ screen \in Screen
             /\ loads \subseteq 0..MaxTicks
             /\ screen.snapshot <= screen.effect /\ screen.effect <= screen.tick

ChatInv == /\ ConsoleTyped
           /\ \A c \in Console : Conversation(c, chats[c], asking[c])
           /\ \A c \in Console : \A tool \in ran[c] : MayRun(c, chats[c].messages, tool)

ConsoleInv == LimitInv /\ ScreenInv /\ ChatInv

-----------------------------------------------------------------------------
(* Batches and answers *)

LEMMA Parity == /\ \A n \in Nat : n % 2 \in {0, 1} /\ (n + 1) % 2 = 1 - (n % 2)
                /\ 0 % 2 = 0
OBVIOUS

\* A list of at most six intents has a first hit.
LEMMA FirstHit ==
    ASSUME NEW S \in SUBSET (1..6), S # {}
    PROVE  Min(S) \in S
<1>1. \E x \in S : \A y \in S : x =< y
  <2>1. CASE 1 \in S
    BY <2>1
  <2>2. CASE 1 \notin S /\ 2 \in S
    BY <2>2
  <2>3. CASE S \cap (1..2) = {} /\ 3 \in S
    BY <2>3
  <2>4. CASE S \cap (1..3) = {} /\ 4 \in S
    BY <2>4
  <2>5. CASE S \cap (1..4) = {} /\ 5 \in S
    BY <2>5
  <2>6. CASE \A i \in 1..5 : i \notin S
    <3>1. \A x \in S : x = 6
        BY <2>6
    <3>2. 6 \in S
        BY <3>1
    <3> QED
        BY <3>1, <3>2
  <2> QED
    BY <2>1, <2>2, <2>3, <2>4, <2>5, <2>6
<1> QED
    BY <1>1 DEF Min

\* Every batch is one of tools the gateway has.
LEMMA BatchTyped == ASSUME NEW c \in Console, NEW q PROVE BatchOf(c, q) \subseteq Tool
<1>2. ASSUME NEW i \in 1..6 PROVE AiIntents[i].tools \subseteq Tool
    BY DEF AiIntents, Tool
<1>3. ASSUME NEW i \in 1..4 PROVE TrustIntents[i].tools \subseteq Tool
    BY DEF TrustIntents, Tool
<1>4. DOMAIN AiIntents = 1..6 /\ DOMAIN TrustIntents = 1..4
    BY DEF AiIntents, TrustIntents
<1>5. SystemStatus \subseteq Tool /\ General \subseteq Tool
    BY DEF SystemStatus, General, Tool
<1>6. Batch(AiIntents, SystemStatus, q) \subseteq Tool
  <2> DEFINE hits == {i \in DOMAIN AiIntents : AiIntents[i].topic \in q.topics}
  <2>1. hits # {} => Min(hits) \in hits
      BY FirstHit, <1>4
  <2> QED
      BY <1>2, <1>4, <1>5, <2>1 DEF Batch
<1>7. Batch(TrustIntents, General, q) \subseteq Tool
  <2> DEFINE hits == {i \in DOMAIN TrustIntents : TrustIntents[i].topic \in q.topics}
  <2>1. hits \subseteq 1..6
      BY <1>4
  <2>2. hits # {} => Min(hits) \in hits
      BY FirstHit, <2>1
  <2> QED
      BY <1>3, <1>4, <1>5, <2>2 DEF Batch
<1> QED
    BY <1>6, <1>7 DEF BatchOf

\* What the service composes is an answer, and its tools are those of the
\* batch, unless a denylist of the console matches.
LEMMA AnswerTyped ==
    ASSUME NEW c \in Console, NEW q \in Question
    PROVE  /\ Answer(c, q) \in Utterance /\ Degraded \in Utterance
           /\ Asked(q) \in Utterance /\ Asked(q).role = "user" /\ Asked(q).question = q
           /\ Answer(c, q).tools \subseteq Tool
           /\ \A tool \in Answer(c, q).tools : /\ q.denylist \in LetThrough(c)
                                               /\ tool \in BatchOf(c, q)
<1>1. q.denylist \in {"none", "gateway", "client"}
    BY QuestionAssumption
<1>2. BatchOf(c, q) \subseteq Tool
    BY BatchTyped
<1>3. Asked(q) \in Utterance /\ Asked(q).role = "user" /\ Asked(q).question = q
    BY DEF Asked, Utterance
<1>4. ASSUME NEW tools \in SUBSET Tool
      PROVE  /\ Message(TRUE, tools) \in Utterance /\ Message(FALSE, tools) \in Utterance
             /\ Message(TRUE, tools).tools = {} /\ Message(FALSE, tools).tools = tools
    BY DEF Message, Utterance
<1>5. Degraded \in Utterance
    BY <1>4 DEF Degraded
<1>6. \/ q.denylist \notin LetThrough(c) /\ Answer(c, q) = Message(TRUE, BatchOf(c, q))
      \/ q.denylist \in LetThrough(c) /\ Answer(c, q) = Message(FALSE, BatchOf(c, q))
  <2> USE DEF Answer, AiAnswer, TrustAnswer, RefusedByGateway, RefusedByClient, BatchOf,
              LetThrough
  <2>1. CASE c = "aiops" /\ q.denylist = "gateway"
      BY <2>1
  <2>2. CASE c = "aiops" /\ q.denylist # "gateway"
      BY <1>1, <2>2
  <2>3. CASE c = "trust" /\ q.denylist \in {"gateway", "client"}
      BY <2>3
  <2>4. CASE c = "trust" /\ q.denylist = "none"
      BY <2>4
  <2> QED
      BY <1>1, <2>1, <2>2, <2>3, <2>4 DEF Console
<1>7. \/ q.denylist \notin LetThrough(c) /\ Answer(c, q).tools = {}
      \/ q.denylist \in LetThrough(c) /\ Answer(c, q).tools = BatchOf(c, q)
    BY <1>2, <1>4, <1>6, Zenon
<1>8. Answer(c, q) \in Utterance
    BY <1>2, <1>4, <1>6, Zenon
<1> QED
    BY <1>2, <1>3, <1>5, <1>7, <1>8

-----------------------------------------------------------------------------
(* Conversations *)

LEMMA OddHasLast ==
    ASSUME NEW ms \in Seq(Utterance), Len(ms) % 2 = 1
    PROVE  Len(ms) \in DOMAIN ms
<1>1. Len(ms) \in Nat /\ DOMAIN ms = 1..Len(ms)
    BY LenProperties
<1>2. Len(ms) # 0
    BY <1>1, Parity
<1> QED
    BY <1>1, <1>2

\* A question appended to a conversation in which every question is answered.
LEMMA QuestionAppended ==
    ASSUME NEW c \in Console, NEW ms \in Seq(Utterance), NEW q \in Question,
           Alternate(c, ms), Len(ms) % 2 # 1
    PROVE  LET new == Append(ms, Asked(q))
           IN  /\ Alternate(c, new) /\ new \in Seq(Utterance)
               /\ Len(new) % 2 = 1 /\ new[Len(new)].question = q
<1> DEFINE new == Append(ms, Asked(q))
<1>1. Asked(q) \in Utterance /\ Asked(q).role = "user" /\ Asked(q).question = q
    BY AnswerTyped
<1>2. /\ new \in Seq(Utterance) /\ Len(new) = Len(ms) + 1 /\ Len(ms) \in Nat
      /\ \A i \in 1..Len(ms) : new[i] = ms[i]
      /\ new[Len(ms) + 1] = Asked(q)
      /\ DOMAIN new = 1..(Len(ms) + 1) /\ DOMAIN ms = 1..Len(ms)
    BY <1>1, AppendProperties, LenProperties
<1>3. (Len(ms) + 1) % 2 = 1
    BY Parity, <1>2
<1>4. ASSUME NEW i \in 1..Len(ms), i % 2 # 1 PROVE i - 1 \in 1..Len(ms)
    BY <1>4, <1>2
<1> HIDE DEF new
<1>5. Alternate(c, new)
    BY <1>1, <1>2, <1>3, <1>4 DEF Alternate
<1>6. Len(new) % 2 = 1 /\ new[Len(new)].question = q
    BY <1>1, <1>2, <1>3
<1> QED
    BY <1>2, <1>5, <1>6 DEF new

\* A message appended to a conversation that ends with the question of it.
LEMMA AnswerAppended ==
    ASSUME NEW c \in Console, NEW ms \in Seq(Utterance), NEW m \in Utterance,
           Alternate(c, ms), Len(ms) % 2 = 1,
           m = Answer(c, ms[Len(ms)].question) \/ m = Degraded
    PROVE  LET new == Append(ms, m)
           IN  Alternate(c, new) /\ new \in Seq(Utterance) /\ Len(new) % 2 # 1
<1> DEFINE new == Append(ms, m)
<1>2. /\ new \in Seq(Utterance) /\ Len(new) = Len(ms) + 1 /\ Len(ms) \in Nat
      /\ \A i \in 1..Len(ms) : new[i] = ms[i]
      /\ new[Len(ms) + 1] = m
      /\ DOMAIN new = 1..(Len(ms) + 1) /\ DOMAIN ms = 1..Len(ms)
    BY AppendProperties, LenProperties
<1>3. (Len(ms) + 1) % 2 = 0 /\ Len(ms) \in 1..Len(ms) /\ Len(ms) + 1 - 1 = Len(ms)
    BY Parity, <1>2
<1>4. ASSUME NEW i \in 1..Len(ms), i % 2 # 1 PROVE i - 1 \in 1..Len(ms)
    BY <1>4, <1>2
<1> HIDE DEF new
<1>5. ASSUME NEW i \in DOMAIN new
      PROVE  IF i % 2 = 1 THEN new[i].role = "user"
             ELSE new[i] = Answer(c, new[i - 1].question) \/ new[i] = Degraded
  <2>1. CASE i = Len(ms) + 1
      BY <2>1, <1>2, <1>3
  <2>2. CASE i \in 1..Len(ms)
      BY <2>2, <1>2, <1>4 DEF Alternate
  <2> QED
      BY <2>1, <2>2, <1>2, <1>5
<1>6. Alternate(c, new)
    BY <1>5 DEF Alternate
<1>7. Len(new) % 2 # 1
    BY <1>2, <1>3
<1> QED
    BY <1>2, <1>6, <1>7 DEF new

\* Messages that are appended keep what may have run.
LEMMA MayRunStays ==
    ASSUME NEW c \in Console, NEW ms \in Seq(Utterance), NEW m \in Utterance, NEW tool,
           MayRun(c, ms, tool)
    PROVE  MayRun(c, Append(ms, m), tool)
<1>1. /\ \A i \in 1..Len(ms) : Append(ms, m)[i] = ms[i]
      /\ DOMAIN Append(ms, m) = 1..(Len(ms) + 1) /\ DOMAIN ms = 1..Len(ms) /\ Len(ms) \in Nat
    BY AppendProperties, LenProperties
<1> QED
    BY <1>1 DEF MayRun

-----------------------------------------------------------------------------
(* Steps of the conversations *)


\* The conversation of the console c and its open questions change.
LEMMA ChatsChange ==
    ASSUME ConsoleTyped, NEW c \in Console, NEW open \in SUBSET Question,
           NEW chat \in [messages : Seq(Utterance), thinking : BOOLEAN],
           chats' = [chats EXCEPT ![c] = chat], asking' = [asking EXCEPT ![c] = open]
    PROVE  /\ chats' \in [Console -> [messages : Seq(Utterance), thinking : BOOLEAN]]
           /\ asking' \in [Console -> SUBSET Question]
           /\ chats'[c] = chat /\ asking'[c] = open
           /\ \A d \in Console \ {c} : chats'[d] = chats[d] /\ asking'[d] = asking[d]
BY DEF ConsoleTyped

LEMMA AskKeepsChats ==
    ASSUME ChatInv, NEW c \in Console, NEW q \in Question, Ask(c, q)
    PROVE  ChatInv'
<1> DEFINE ms == chats[c].messages
           new == Append(ms, Asked(q))
           chat == [messages |-> new, thinking |-> TRUE]
<1>1. ~chats[c].thinking /\ asking[c] = {} /\ Alternate(c, ms) /\ Len(ms) % 2 # 1
    BY DEF Ask, MayAsk, ChatInv, Conversation
<1>2. ms \in Seq(Utterance) /\ ConsoleTyped
    BY DEF ChatInv, ConsoleTyped
<1>3. Asked(q) \in Utterance
    BY AnswerTyped
<1>4. /\ Alternate(c, new) /\ new \in Seq(Utterance)
      /\ Len(new) % 2 = 1 /\ new[Len(new)].question = q
    BY <1>1, <1>2, QuestionAppended
<1>5. /\ asking' = [asking EXCEPT ![c] = {q}] /\ ran' = ran
      /\ chats' = [chats EXCEPT ![c] = chat]
    BY <1>1 DEF Ask
<1>6. /\ chat \in [messages : Seq(Utterance), thinking : BOOLEAN]
      /\ chat.messages = new /\ chat.thinking
    BY <1>4
<1>7. ASSUME NEW tool, MayRun(c, ms, tool) PROVE MayRun(c, new, tool)
    BY <1>2, <1>3, <1>7, MayRunStays
<1> HIDE DEF new, chat
<1>8. /\ chats' \in [Console -> [messages : Seq(Utterance), thinking : BOOLEAN]]
      /\ asking' \in [Console -> SUBSET Question]
      /\ chats'[c] = chat /\ asking'[c] = {q}
      /\ \A d \in Console \ {c} : chats'[d] = chats[d] /\ asking'[d] = asking[d]
    BY <1>2, <1>5, <1>6, ChatsChange
<1>9. Conversation(c, chat, {q})
    BY <1>4, <1>6 DEF Conversation
<1>10. ASSUME NEW d \in Console PROVE Conversation(d, chats'[d], asking'[d])
    BY <1>8, <1>9 DEF ChatInv
<1>11. ASSUME NEW d \in Console, NEW tool \in ran'[d] PROVE MayRun(d, chats'[d].messages, tool)
  <2>1. MayRun(d, chats[d].messages, tool)
      BY <1>5 DEF ChatInv
  <2> QED
      BY <1>6, <1>7, <1>8, <2>1
<1> QED
    BY <1>2, <1>5, <1>8, <1>10, <1>11 DEF ChatInv, ConsoleTyped, MayRun

LEMMA ReplyKeepsChats ==
    ASSUME ChatInv, NEW c \in Console, NEW q \in asking[c], NEW m \in Utterance,
           m = Answer(c, q) \/ m = Degraded,
           Reply(c, q, m),
           \/ ran' = [ran EXCEPT ![c] = @ \union Answer(c, q).tools]
           \/ ran' = ran
    PROVE  ChatInv'
<1> DEFINE ms == chats[c].messages
           new == Append(ms, m)
           chat == [messages |-> new, thinking |-> FALSE]
<1>1. /\ chats[c].thinking /\ Alternate(c, ms) /\ Len(ms) % 2 = 1
      /\ asking[c] = {q} /\ q = ms[Len(ms)].question
    BY DEF ChatInv, Conversation
<1>2. ms \in Seq(Utterance) /\ ConsoleTyped /\ q \in Question
    BY DEF ChatInv, ConsoleTyped
<1>3. Alternate(c, new) /\ new \in Seq(Utterance) /\ Len(new) % 2 # 1
    BY <1>1, <1>2, AnswerAppended
<1>4. /\ asking' = [asking EXCEPT ![c] = {}]
      /\ chats' = [chats EXCEPT ![c] = chat]
    BY <1>1 DEF Reply
<1>5. /\ chat \in [messages : Seq(Utterance), thinking : BOOLEAN]
      /\ chat.messages = new /\ ~chat.thinking
    BY <1>3
<1>6. ASSUME NEW tool, MayRun(c, ms, tool) PROVE MayRun(c, new, tool)
    BY <1>2, <1>6, MayRunStays
\* What runs now was asked for by the question that is answered.
<1>7. ASSUME NEW tool \in Answer(c, q).tools PROVE MayRun(c, ms, tool)
  <2>1. q.denylist \in LetThrough(c) /\ tool \in BatchOf(c, q)
      BY <1>2, AnswerTyped
  <2>2. Len(ms) \in DOMAIN ms
      BY <1>1, <1>2, OddHasLast
  <2>3. ms[Len(ms)].role = "user"
      BY <1>1, <2>2 DEF Alternate
  <2> QED
      BY <1>1, <2>1, <2>2, <2>3 DEF MayRun
<1> HIDE DEF new, chat
<1>8. /\ chats' \in [Console -> [messages : Seq(Utterance), thinking : BOOLEAN]]
      /\ asking' \in [Console -> SUBSET Question]
      /\ chats'[c] = chat /\ asking'[c] = {}
      /\ \A d \in Console \ {c} : chats'[d] = chats[d] /\ asking'[d] = asking[d]
    BY <1>2, <1>4, <1>5, ChatsChange
<1>9. Conversation(c, chat, {})
    BY <1>3, <1>5 DEF Conversation
<1>10. ASSUME NEW d \in Console PROVE Conversation(d, chats'[d], asking'[d])
    BY <1>8, <1>9 DEF ChatInv
<1>11. ran' \in [Console -> SUBSET Tool]
  <2>1. ran \in [Console -> SUBSET Tool] /\ ran[c] \union Answer(c, q).tools \in SUBSET Tool
      BY <1>2, AnswerTyped DEF ConsoleTyped
  <2> QED
      BY <2>1
<1>12. ASSUME NEW d \in Console, NEW tool \in ran'[d] PROVE MayRun(d, chats'[d].messages, tool)
  <2>1. tool \in ran[d] \/ (d = c /\ tool \in Answer(c, q).tools)
      BY <1>2 DEF ConsoleTyped
  <2>2. MayRun(d, chats[d].messages, tool)
      BY <2>1, <1>7 DEF ChatInv
  <2> QED
      BY <1>5, <1>6, <1>8, <2>2
<1> QED
    BY <1>8, <1>10, <1>11, <1>12 DEF ChatInv, ConsoleTyped, MayRun

-----------------------------------------------------------------------------
(* The invariant *)

LEMMA ConsoleStart == Init => ConsoleInv
<1> SUFFICES ASSUME Init PROVE ConsoleInv
    OBVIOUS
<1>1. LimitInv
    BY LimitStart DEF Init
<1>2. ScreenInv
    BY ConsoleBoundAssumption DEF Init, ScreenInv, Screen, NoSnapshot
<1>3. <<>> \in Seq(Utterance) /\ Len(<<>>) = 0 /\ DOMAIN <<>> = {}
    BY EmptySeq
<1>4. ConsoleTyped
    BY <1>3 DEF Init, ConsoleTyped
<1>5. ASSUME NEW c \in Console PROVE Conversation(c, chats[c], asking[c])
  <2>1. chats[c].messages = <<>> /\ ~chats[c].thinking /\ asking[c] = {}
      BY DEF Init
  <2>2. Len(<<>>) % 2 # 1
      BY <1>3, Parity
  <2> QED
      BY <1>3, <2>1, <2>2 DEF Conversation, Alternate
<1>6. ASSUME NEW c \in Console PROVE ran[c] = {}
    BY DEF Init
<1> QED
    BY <1>1, <1>2, <1>4, <1>5, <1>6 DEF ConsoleInv, ChatInv

\* Every step of the consoles is one of the limiter or leaves it alone.
LEMMA StepOfLimiter == [Next]_vars => [McpNext]_mcpVars
BY DEF Next, vars, mcpVars, Ask, ServiceReturns, Answered, AskFails, Reply, NextTick, Refresh,
       Effect, LoadReturns, Loaded, LoadFails

\* What a step can do to the screen: the tick and the effect advance, and the
\* snapshot becomes that of the effect.
LEMMA ScreenMoves ==
    ASSUME ScreenInv, Next
    PROVE  /\ screen' \in Screen
           /\ screen'.tick \in {screen.tick, screen.tick + 1}
           /\ loads' \subseteq loads \union {screen.tick}
           /\ \/ screen'.effect = screen.effect /\ screen'.snapshot = screen.snapshot
              \/ screen'.effect = screen.tick /\ screen'.snapshot = screen.snapshot
              \/ screen'.effect = screen.effect /\ screen'.snapshot = screen.effect
<1>0. /\ MaxTicks \in Nat /\ screen \in Screen /\ loads \subseteq 0..MaxTicks
      /\ screen.tick \in 0..MaxTicks /\ screen.effect \in -1..MaxTicks
    BY ConsoleBoundAssumption DEF ScreenInv, Screen
<1>1. CASE UNCHANGED <<screen, loads>>
    BY <1>0, <1>1
<1>2. CASE NextTick
    BY <1>0, <1>2 DEF NextTick, Screen
<1>3. CASE Refresh
  <2>1. screen.tick + 1 \in 0..MaxTicks
      BY <1>0, <1>3 DEF Refresh
  <2> QED
      BY <1>0, <1>3, <2>1 DEF Refresh, Screen
<1>4. CASE Effect
  <2>1. screen' = [screen EXCEPT !.effect = screen.tick, !.error = FALSE]
      BY <1>4 DEF Effect
  <2>2. screen.tick \in -1..MaxTicks
      BY <1>0
  <2>3. screen' \in Screen
      BY <1>0, <2>1, <2>2 DEF Screen
  <2>4. /\ screen'.tick = screen.tick
        /\ screen'.effect = screen.tick /\ screen'.snapshot = screen.snapshot
      BY <1>0, <2>1 DEF Screen
  <2> QED
      BY <1>4, <2>3, <2>4 DEF Effect
<1>5. ASSUME NEW k \in loads, Loaded(k)
      PROVE  /\ screen' \in Screen /\ screen'.tick = screen.tick /\ loads' \subseteq loads
             /\ screen'.effect = screen.effect
             /\ screen'.snapshot \in {screen.snapshot, screen.effect}
  <2>1. CASE IsCancelled(k)
      BY <1>0, <1>5, <2>1 DEF Loaded
  <2>2. CASE k = screen.effect
    <3>1. screen' = [screen EXCEPT !.snapshot = screen.effect, !.loading = FALSE]
        BY <1>5, <2>2 DEF Loaded, IsCancelled
    <3> QED
        BY <1>0, <1>5, <3>1 DEF Loaded, Screen
  <2> QED
      BY <2>1, <2>2 DEF IsCancelled
<1>6. ASSUME NEW k \in loads, LoadFails(k)
      PROVE  /\ screen' \in Screen /\ screen'.tick = screen.tick /\ loads' \subseteq loads
             /\ screen'.effect = screen.effect /\ screen'.snapshot = screen.snapshot
    BY <1>0, <1>6 DEF LoadFails, Screen
<1> QED
    BY <1>1, <1>2, <1>3, <1>4, <1>5, <1>6 DEF Next, consoleVars, Ask, ServiceReturns, Answered,
       AskFails, Reply, LoadReturns

LEMMA ScreenStep == ScreenInv /\ [Next]_vars => ScreenInv'
<1> SUFFICES ASSUME ScreenInv, [Next]_vars PROVE ScreenInv'
    OBVIOUS
<1>1. CASE UNCHANGED vars
    BY <1>1 DEF ScreenInv, vars, consoleVars
<1>2. CASE Next
  <2>1. /\ screen.tick \in 0..MaxTicks /\ screen.effect \in Int /\ screen.snapshot \in Int
        /\ MaxTicks \in Nat
      BY ConsoleBoundAssumption DEF ScreenInv, Screen
  <2>2. /\ screen' \in Screen
        /\ screen'.snapshot <= screen'.effect /\ screen'.effect <= screen'.tick
      BY <1>2, <2>1, ScreenMoves DEF ScreenInv
  <2>3. loads' \subseteq 0..MaxTicks
      BY <1>2, <2>1, ScreenMoves DEF ScreenInv
  <2> QED
      BY <2>2, <2>3 DEF ScreenInv, Screen
<1> QED
    BY <1>1, <1>2

LEMMA ChatStep == ChatInv /\ [Next]_vars => ChatInv'
<1> SUFFICES ASSUME ChatInv, [Next]_vars PROVE ChatInv'
    OBVIOUS
<1>1. CASE UNCHANGED <<chats, asking, ran>>
    BY <1>1 DEF ChatInv, ConsoleTyped
<1>2. ASSUME NEW c \in Console, NEW q \in Question, Ask(c, q) PROVE ChatInv'
    BY <1>2, AskKeepsChats
<1>3. ASSUME NEW c \in Console, NEW q \in asking[c] PROVE Answer(c, q) \in Utterance
    BY AnswerTyped DEF ChatInv, ConsoleTyped
<1>4. ASSUME NEW c \in Console, NEW q \in asking[c], Answered(c, q) PROVE ChatInv'
    BY <1>3, <1>4, ReplyKeepsChats DEF Answered, Run
<1>5. ASSUME NEW q \in asking["trust"], AskFails(q) PROVE ChatInv'
  <2>1. Degraded \in Utterance /\ "trust" \in Console
      BY DEF Degraded, Message, Utterance, Console
  <2> QED
      BY <1>5, <2>1, ReplyKeepsChats DEF AskFails
<1> QED
    BY <1>1, <1>2, <1>4, <1>5 DEF Next, vars, consoleVars, ServiceReturns, NextTick, Refresh,
       Effect, LoadReturns, Loaded, LoadFails

LEMMA ConsoleAlways == Spec => []ConsoleInv
<1>1. ConsoleInv /\ [Next]_vars => ConsoleInv'
    BY LimitStep, StepOfLimiter, ScreenStep, ChatStep DEF ConsoleInv
<1> QED
    BY ConsoleStart, <1>1, PTL DEF Spec

-----------------------------------------------------------------------------
\* The rate limiter of the gateway (checkRateLimit) works under the consoles
\* as it does alone, so that its bounds hold here too.
THEOREM ConsolesKeepTheLimiter == Spec => McpSpec
<1>1. Init => McpInit
    BY DEF Init
<1> QED
    BY <1>1, StepOfLimiter, PTL DEF Spec, McpSpec

\* In particular the gateway answers no tool too often, and refuses no call
\* too early (toolResponse).
THEOREM ConsolesAreLimited == Spec => [](RateIsBounded /\ RefusalIsEarned)
BY ConsolesKeepTheLimiter, RateAlwaysBounded, RefusalsAreEarned, PTL

\* Type correctness of the conversations, the screen and the limiter.
THEOREM ConsolesTyped == Spec => []TypeOK
<1>1. ConsoleInv => TypeOK
    BY DEF ConsoleInv, TypeOK, LimitInv, Count, Call, McpTypeOK, ScreenInv, Screen,
       ChatInv, ConsoleTyped
<1> QED
    BY <1>1, ConsoleAlways, PTL

\* The answer under a question is the one to it: ask() of both hooks appends
\* the two in setStates of their own.
THEOREM AnswersAlwaysFollow == Spec => []AnswersFollowQuestions
<1>1. ConsoleInv => AnswersFollowQuestions
    BY DEF ConsoleInv, ChatInv, Conversation, Alternate, AnswersFollowQuestions
<1> QED
    BY <1>1, ConsoleAlways, PTL

\* A question that a denylist of its console matches (inspectPrompt,
\* executeBatch) has no tool run for it.
THEOREM BlockedNeverRuns == Spec => []BlockedRunsNothing
<1>1. ASSUME ConsoleInv PROVE BlockedRunsNothing
  <2> SUFFICES ASSUME NEW c \in Console,
                      NEW tool \in ran[c]
               PROVE  LET asked == {m.question : m \in {n \in Range(chats[c].messages) :
                                                            n.role = "user"}}
                          open == {q \in asked : q.denylist \in LetThrough(c)}
                      IN  \E q \in open : tool \in BatchOf(c, q)
      BY DEF BlockedRunsNothing, LetThrough, BatchOf
  <2>1. MayRun(c, chats[c].messages, tool)
      BY <1>1 DEF ConsoleInv, ChatInv
  <2> QED
      BY <2>1 DEF MayRun, Range
<1> QED
    BY <1>1, ConsoleAlways, PTL

\* The snapshot that the trust console shows is never replaced by an older
\* one: the cleanup of useEffect cancels the loads of earlier ticks.
THEOREM SnapshotsOnlyAdvance == Spec => SnapshotNeverGoesBack
<1>1. ConsoleInv /\ [Next]_vars => [screen'.snapshot >= screen.snapshot]_vars
  <2>1. ScreenInv => screen.effect \in Int /\ screen.snapshot \in Int
      BY ConsoleBoundAssumption DEF ScreenInv, Screen
  <2>2. ScreenInv /\ Next => screen'.snapshot >= screen.snapshot
      BY <2>1, ScreenMoves DEF ScreenInv
  <2> QED
      BY <2>2 DEF ConsoleInv
<1> QED
    BY <1>1, ConsoleAlways, PTL DEF Spec, SnapshotNeverGoesBack
=============================================================================
