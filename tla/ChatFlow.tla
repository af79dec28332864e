------------------------------- MODULE ChatFlow -------------------------------
(***************************************************************************)
(* One run of run_chat_flow (src/mwps/chat_flow.py) under the timer of     *)
(* MwpsChatCommand.execute: the provider is asked, the tool calls of its   *)
(* reply are run one after the other through the ProxyClient, each is      *)
(* answered by a tool message, and the provider is asked again, for at     *)
(* most max_tool_rounds rounds.                                            *)
(*                                                                         *)
(* A message is known by its position in the history, so the content that  *)
(* the flow returns is a position too.  Nothing of the wording is kept: a  *)
(* tool message only says where its content came from.                     *)
(***************************************************************************)
EXTENDS Integers, Sequences, FiniteSets

CONSTANTS
  Tools,        \* the tool names a model may write in a tool call
  Help,         \* the tool "help"
  CallServer,   \* the tool "call_server", only known without a registry
  ListServers,  \* the tool "list_servers", only known without a registry
  Targets,      \* the (command, server) pairs that the proxy can reach
  Registry,     \* ToolCallRegistry of a session: tool name -> target
  Calls,        \* the tool calls a reply may hold: [tool |-> t, arg |-> a]
  NoArg,        \* arguments without the name the tool looks for
  Malformed,    \* arguments that decode to JSON which is no object
  MaxCalls,     \* bound on the tool calls of one reply
  MaxHistory,   \* bound on the history that a reply with tool calls leads to
  MaxRounds,    \* the values of max_tool_rounds
  InputLens,    \* the lengths of the messages handed to the flow
  WsFirst       \* TRUE iff mcp_proxy_url is wss://

ASSUME ToolsAssumption ==
  /\ {Help, CallServer, ListServers} \subseteq Tools
  /\ Help # CallServer /\ Help # ListServers /\ CallServer # ListServers
  /\ NoArg \notin Tools \cup Targets
  /\ Malformed \notin Tools \cup Targets \cup {NoArg}

ASSUME RegistryAssumption ==
  /\ DOMAIN Registry \subseteq Tools
  /\ \A t \in DOMAIN Registry : Registry[t] \in Targets

ASSUME BoundsAssumption ==
  /\ Calls \subseteq [tool : Tools, arg : Tools \cup Targets \cup {NoArg, Malformed}]
  /\ MaxCalls \in Nat /\ MaxHistory \in Nat
  /\ MaxRounds \subseteq Int
  /\ InputLens \subseteq Nat \ {0}
  /\ WsFirst \in BOOLEAN

VARIABLES
  registered,   \* TRUE iff a tool registry is given (session mode)
  maxRounds,    \* max_tool_rounds of this run
  pc,           \* where the coroutine is; the waits are its awaits
  round,        \* rounds started
  history,      \* the messages sent to the provider
  calls,        \* tool_calls of the last reply that had any
  answered,     \* how many of them have their tool message
  client,       \* the lazily created JsonRpcClient of the proxy client
  sent,         \* requests that reached the proxy
  effects,      \* requests that a server has run
  outcome,      \* how the flow ended
  message       \* the position in the history of the returned content

vars == <<registered, maxRounds, pc, round, history, calls, answered, client,
          sent, effects, outcome, message>>

-----------------------------------------------------------------------------
(* Messages and requests *)

ToolCallLists == UNION {[1 .. n -> Calls] : n \in 1 .. MaxCalls}

InputEntry == [role |-> "input", calls |-> <<>>, tool |-> NoArg, content |-> "text"]

AssistantEntry(cs) ==
  [role |-> "assistant", calls |-> cs, tool |-> NoArg, content |-> "text"]

\* _tool_message: content is where the answer came from.
ToolEntry(t, content) ==
  [role |-> "tool", calls |-> <<>>, tool |-> t, content |-> content]

Contents == {"text", "local", "error", "ws", "http"}

Entries ==
  [role : {"input", "assistant", "tool"}, calls : {<<>>} \cup ToolCallLists,
   tool : Tools \cup {NoArg}, content : Contents]

\* A request of the proxy client for the call answered at position `at`.
Requests == [at : Nat, via : {"ws", "http"}, kind : {"run", "help", "list"},
             target : Targets \cup {NoArg}]

ToolWaits == {"rest", "ws", "wsWait", "http", "httpWait"}

\* What a tool call asks of the proxy: kind "local" when it is answered
\* without it (an unknown tool, a missing argument, the help reference).
Local == [kind |-> "local", target |-> NoArg]

\* _run_tool
DirectRoute(c) ==
  CASE c.tool = ListServers -> [kind |-> "list", target |-> NoArg]
    [] c.tool \in {CallServer, Help} /\ c.arg \in Targets ->
         [kind |-> IF c.tool = Help THEN "help" ELSE "run", target |-> c.arg]
    [] OTHER -> Local

\* Mutant: a name that is not in the registry is tried as a gateway name.
SessionRouteMutant(c) ==
  IF c.tool \in DOMAIN Registry
  THEN [kind |-> "run", target |-> Registry[c.tool]]
  ELSE DirectRoute(c)

\* _run_help_for_model and _run_session_tool
SessionRoute(c) ==
  LET name == IF c.tool = Help THEN c.arg ELSE c.tool IN
  IF name \in DOMAIN Registry
  THEN [kind |-> IF c.tool = Help THEN "help" ELSE "run", target |-> Registry[name]]
  ELSE Local

Route(c) == IF registered THEN SessionRoute(c) ELSE DirectRoute(c)

\* The call being run.
Current == calls[answered + 1]

Request(via) == [at |-> Len(history) + 1, via |-> via,
                 kind |-> Route(Current).kind, target |-> Route(Current).target]

-----------------------------------------------------------------------------
Init ==
  /\ registered \in BOOLEAN
  /\ maxRounds \in MaxRounds
  /\ \E n \in InputLens : history = [i \in 1 .. n |-> InputEntry]
  /\ pc = "loop"
  /\ round = 0
  /\ calls = <<>>
  /\ answered = 0
  /\ client = "none"
  /\ sent = {}
  /\ effects = {}
  /\ outcome = "running"
  /\ message = 0

(* The loop and the provider *)

\* Mutant: one round too many.
StartRoundOffByOne ==
  /\ pc = "loop"
  /\ round <= maxRounds
  /\ round' = round + 1
  /\ pc' = "provider"
  /\ UNCHANGED <<registered, maxRounds, history, calls, answered, client, sent,
                 effects, outcome, message>>

\* A round begins: the history is sent to the provider from another thread.
StartRound ==
  /\ pc = "loop"
  /\ round < maxRounds
  /\ round' = round + 1
  /\ pc' = "provider"
  /\ UNCHANGED <<registered, maxRounds, history, calls, answered, client, sent,
                 effects, outcome, message>>

\* range(max_tool_rounds) is used up: the last entry's content is returned.
RoundsExhausted ==
  /\ pc = "loop"
  /\ round >= maxRounds
  /\ message' = Len(history)
  /\ pc' = "closing"
  /\ UNCHANGED <<registered, maxRounds, round, history, calls, answered, client,
                 sent, effects, outcome>>

\* Mutant: the position behind the reply is returned.
ModelRepliesOffByOne ==
  /\ pc = "provider"
  /\ history' = Append(history, AssistantEntry(<<>>))
  /\ message' = Len(history) + 2
  /\ pc' = "closing"
  /\ UNCHANGED <<registered, maxRounds, round, calls, answered, client, sent,
                 effects, outcome>>

\* A reply without tool calls ends the flow.
ModelReplies ==
  /\ pc = "provider"
  /\ history' = Append(history, AssistantEntry(<<>>))
  /\ message' = Len(history) + 1
  /\ pc' = "closing"
  /\ UNCHANGED <<registered, maxRounds, round, calls, answered, client, sent,
                 effects, outcome>>

\* A reply with tool calls.  Their arguments are first read for the log, where
\* arguments that are no object raise out of the flow.
ModelCallsTools(cs) ==
  /\ pc = "provider"
  /\ Len(history) + 1 + Len(cs) <= MaxHistory
  /\ history' = Append(history, AssistantEntry(cs))
  /\ calls' = cs
  /\ answered' = 0
  /\ IF \E j \in 1 .. Len(cs) : cs[j].arg = Malformed
     THEN pc' = "end" /\ outcome' = "raised"
     ELSE pc' = "tools" /\ UNCHANGED outcome
  /\ UNCHANGED <<registered, maxRounds, round, client, sent, effects, message>>

\* The provider call fails: the flow returns at once, the proxy client stays.
ProviderFails ==
  /\ pc = "provider"
  /\ outcome' = "error"
  /\ pc' = "end"
  /\ UNCHANGED <<registered, maxRounds, round, history, calls, answered, client,
                 sent, effects, message>>

\* await proxy.close() and return.
Close ==
  /\ pc = "closing"
  /\ client' = "none"
  /\ outcome' = "reply"
  /\ pc' = "end"
  /\ UNCHANGED <<registered, maxRounds, round, history, calls, answered, sent,
                 effects, message>>

\* The close of the client raises out of the flow.
CloseRaises ==
  /\ pc = "closing" /\ client = "open"
  /\ outcome' = "raised"
  /\ pc' = "end"
  /\ UNCHANGED <<registered, maxRounds, round, history, calls, answered, client,
                 sent, effects, message>>

-----------------------------------------------------------------------------
(* The tool calls of one reply *)

\* The tool message of the current call is appended; the next call or the
\* next round follows.
Answer(content) ==
  /\ history' = Append(history, ToolEntry(Current.tool, content))
  /\ answered' = answered + 1
  /\ pc' = IF answered + 1 = Len(calls) THEN "loop" ELSE "tools"
  /\ UNCHANGED <<registered, maxRounds, round, calls, outcome, message>>

AnswerLocally ==
  /\ pc = "tools"
  /\ Route(Current).kind = "local"
  /\ Answer("local")
  /\ UNCHANGED <<client, sent, effects>>

\* _call tries the WebSocket first on wss://.
FirstTransport == IF WsFirst THEN "ws" ELSE "http"

\* The client is created on its first use; list_servers begins with GET /list.
StartCall ==
  /\ pc = "tools"
  /\ Route(Current).kind # "local"
  /\ client' = "open"
  /\ pc' = IF Route(Current).kind = "list" THEN "rest" ELSE FirstTransport
  /\ UNCHANGED <<registered, maxRounds, round, history, calls, answered, sent,
                 effects, outcome, message>>

\* GET /list only reads the proxy, so it is no request of `sent`.
RestListAnswers ==
  /\ pc = "rest"
  /\ Answer("http")
  /\ UNCHANGED <<client, sent, effects>>

RestListFails ==
  /\ pc = "rest"
  /\ pc' = FirstTransport
  /\ UNCHANGED <<registered, maxRounds, round, history, calls, answered, client,
                 sent, effects, outcome, message>>

\* Mutant: both transports are raced.
SendHedged(via) ==
  /\ pc = via
  /\ pc' = IF via = "ws" THEN "wsWait" ELSE "httpWait"
  /\ sent' = sent \cup {Request("ws"), Request("http")}
  /\ UNCHANGED <<registered, maxRounds, round, history, calls, answered, client,
                 effects, outcome, message>>

Send(via) ==
  /\ pc = via
  /\ pc' = IF via = "ws" THEN "wsWait" ELSE "httpWait"
  /\ sent' = sent \cup {Request(via)}
  /\ UNCHANGED <<registered, maxRounds, round, history, calls, answered, client,
                 effects, outcome, message>>

\* Any exception of the WebSocket path (no connection, a timeout, an error in
\* the response) falls back to HTTP, whether or not the request was sent.
WsFallback ==
  /\ pc \in {"ws", "wsWait"}
  /\ pc' = "http"
  /\ UNCHANGED <<registered, maxRounds, round, history, calls, answered, client,
                 sent, effects, outcome, message>>

\* Mutant: any response on the channel is taken for the result.
ResultUncorrelated(via) ==
  /\ pc = IF via = "ws" THEN "wsWait" ELSE "httpWait"
  /\ \E r \in effects : r.via = via
  /\ Answer(via)
  /\ UNCHANGED <<client, sent, effects>>

\* The result of the request sent over `via` arrives.
Result(via) ==
  /\ pc = IF via = "ws" THEN "wsWait" ELSE "httpWait"
  /\ Request(via) \in effects
  /\ Answer(via)
  /\ UNCHANGED <<client, sent, effects>>

\* Mutant: a failed call leaves the tool loop without a tool message.
HttpFailsSilently ==
  /\ pc \in {"http", "httpWait"}
  /\ pc' = "loop"
  /\ UNCHANGED <<registered, maxRounds, round, history, calls, answered, client,
                 sent, effects, outcome, message>>

\* Mutant: without a timeout of the client, only a refused request fails.
HttpFailsUntimed ==
  /\ pc = "http"
  /\ Answer("error")
  /\ UNCHANGED <<client, sent, effects>>

\* An HTTP failure becomes a ProxyClientError, and that the tool's content.
HttpFails ==
  /\ pc \in {"http", "httpWait"}
  /\ Answer("error")
  /\ UNCHANGED <<client, sent, effects>>

-----------------------------------------------------------------------------
(* The environment: the servers behind the proxy, and the command's timer *)

\* A request that reached the proxy is run, maybe long after its caller left.
ServerRuns(r) ==
  /\ r \in sent \ effects
  /\ effects' = effects \cup {r}
  /\ UNCHANGED <<registered, maxRounds, pc, round, history, calls, answered,
                 client, sent, outcome, message>>

\* asyncio.wait_for cancels the flow at the await it is in.
Timeout ==
  /\ \/ pc \in {"provider"} \cup ToolWaits
     \/ pc = "closing" /\ client = "open"
  /\ outcome' = "timeout"
  /\ pc' = "end"
  /\ UNCHANGED <<registered, maxRounds, round, history, calls, answered, client,
                 sent, effects, message>>

Flow ==
  \/ StartRound \/ RoundsExhausted
  \/ ModelReplies \/ ProviderFails \/ (\E cs \in ToolCallLists : ModelCallsTools(cs))
  \/ Close \/ CloseRaises
  \/ AnswerLocally \/ StartCall \/ RestListAnswers \/ RestListFails
  \/ WsFallback \/ HttpFails
  \/ \E via \in {"ws", "http"} : Send(via) \/ Result(via)

Next == Flow \/ Timeout \/ (\E r \in sent : ServerRuns(r))

Spec == Init /\ [][Next]_vars

\* The provider and the proxy clients have timeouts of their own, so an await
\* of the flow always ends; nothing is asked of the command's timer, of the
\* servers or of the model, which may call tools in every round.
FairSpec == Spec /\ WF_vars(Flow)

-----------------------------------------------------------------------------
(* Properties *)

TypeOK ==
  /\ registered \in BOOLEAN
  /\ maxRounds \in Int
  /\ pc \in {"loop", "provider", "tools", "closing", "end"} \cup ToolWaits
  /\ round \in Nat
  /\ history \in Seq(Entries)
  /\ calls \in {<<>>} \cup ToolCallLists
  /\ answered \in Nat
  /\ client \in {"none", "open"}
  /\ sent \subseteq Requests
  /\ effects \subseteq sent
  /\ outcome \in {"running", "reply", "error", "raised", "timeout"}
  /\ message \in 0 .. Len(history)

IsAssistant(i) == history[i].role = "assistant"

\* Entry i + j is the answer to the j-th tool call of entry i.
Answers(i, j) ==
  /\ history[i + j].role = "tool"
  /\ history[i + j].tool = history[i].calls[j].tool

AnsweredAll(i) ==
  /\ i + Len(history[i].calls) <= Len(history)
  /\ \A j \in 1 .. Len(history[i].calls) : Answers(i, j)

\* The provider requires that every tool call of a reply is followed by its
\* tool message, in the order of the calls, before the next reply: the loop
\* over tool_calls never skips, repeats or reorders one (chat_flow.py:507-561).
\* Only the reply that is being worked on, or at which the flow was cut off,
\* may still miss answers.
AnsweredInOrder ==
  \A i \in DOMAIN history : IsAssistant(i) =>
    \/ AnsweredAll(i)
    \/ /\ i = Len(history) - answered
       /\ outcome \in {"running", "raised", "timeout"}
       /\ \A j \in 1 .. answered : Answers(i, j)

\* What a server has run on behalf of the model is in the history of the flow,
\* with which the model is asked next and the reply is returned, unless the call
\* is still running or the timer cut it off: an error of a transport never loses
\* the tool message of a request that had left (chat_flow.py:518-561,
\* proxy_client.py:167-198).  A caller that is told of an error or of the timeout
\* gets no history (mwps_chat_command.py:392-401).
EffectsRecorded ==
  \A r \in effects :
    \/ r.at <= Len(history) /\ history[r.at].role = "tool"
    \/ /\ r.at = Len(history) + 1
       /\ pc \in ToolWaits \/ outcome = "timeout"

\* In session mode a command runs only where the registry sends the name that
\* the model used, whatever arguments and gateway names it writes
\* (chat_flow.py:520-540, _run_session_tool).
OnlyRegisteredCommandsRun ==
  \A r \in effects : registered /\ r.kind = "run" /\ r.at <= Len(history) =>
    LET t == history[r.at].tool
    IN  t \in DOMAIN Registry /\ t # Help /\ r.target = Registry[t]

\* Once the model has the WebSocket's result, the command is not sent again
\* over HTTP (proxy_client.py:167-179).
DeliveredCallNotRepeated ==
  \A r \in sent : r.via = "http" /\ r.at <= Len(history)
                    => history[r.at].content # "ws"

\* No more replies than max_tool_rounds are asked of the provider, and none when
\* it is not positive (chat_flow.py:319).
RoundBudget ==
  LET replies == Cardinality({i \in DOMAIN history : IsAssistant(i)})
  IN  replies > 0 => replies <= maxRounds

\* Every tool call gets a tool message, of success or of error, unless the
\* timer ended the flow: standards.md 3.
ErrorsAnsweredInBand ==
  outcome \in {"reply", "error", "raised"} =>
    \A i \in DOMAIN history : IsAssistant(i) => AnsweredAll(i)

\* While the calls of a reply are being answered, and which are not yet.
InTools == pc \in {"tools"} \cup ToolWaits

Pending == IF InTools THEN SubSeq(calls, answered + 1, Len(calls)) ELSE <<>>

\* The rounds that are left; the one that the provider is asked in, too.
Budget ==
  CASE pc = "end" -> 0
    [] pc = "provider" -> maxRounds - round + 1
    [] OTHER -> maxRounds - round

\* Behind transports, fallback and waits there is an orderly conversation: the
\* model is asked within its budget, each of its calls is answered in turn, with
\* a server's result only if a server has run that very call, and the message
\* returned is the last of the history (chat_flow.py:300-563).
Abstract ==
  INSTANCE Conversation WITH
    CallLists <- ToolCallLists,
    Asked <- [kind : {"local", "run", "help", "list"}, target : Targets \cup {NoArg}],
    asks <- [c \in Calls |-> Route(c)],
    budget <- Budget,
    pending <- Pending,
    message <- IF outcome = "reply" THEN message ELSE 0

ConversationRefined == Abstract!Spec

\* The flow ends, however often the model calls tools.
FlowEnds == <>(outcome # "running")
=============================================================================
