--------------------------- MODULE ChatFlow_proofs ---------------------------
(***************************************************************************)
(* Proofs about ChatFlow, for any tools, registry, calls and bounds: the   *)
(* safety properties of one run of the flow.                               *)
(*                                                                         *)
(* The argument: while calls are being answered, the entry that made them  *)
(* is `answered` entries from the end of the history, followed by the      *)
(* answers so far (WorkInv); every other reply has all its answers         *)
(* (HistoryInv); and a request that was sent belongs to the call being run *)
(* or to the tool message at its position (SentInv).                       *)
(***************************************************************************)
EXTENDS ChatFlow, SequenceTheorems, FiniteSetTheorems, TLAPS

\* Where the entry is whose calls are being answered.
Base == Len(history) - answered

AnsweredSoFar == \A j \in 1 .. answered : Answers(Base, j)

WorkInv == InTools =>
  /\ calls \in ToolCallLists /\ answered < Len(calls)
  /\ Base >= 1 /\ history[Base] = AssistantEntry(calls)
  /\ AnsweredSoFar
  /\ pc \in ToolWaits => Route(Current).kind # "local"
  /\ pc = "rest" => Route(Current).kind = "list"

HistoryInv == \A i \in 1 .. Len(history) : IsAssistant(i) =>
  \/ AnsweredAll(i)
  \/ i = Base /\ AnsweredSoFar /\ (InTools \/ outcome \in {"raised", "timeout"})

EndInv == outcome = "running" <=> pc # "end"

\* What holds of a request when its tool message is in the history.
SettledRequest(r) ==
  /\ history[r.at].role = "tool"
  /\ r.via = "http" => history[r.at].content # "ws"
  /\ registered /\ r.kind = "run" =>
       LET t == history[r.at].tool
       IN  t \in DOMAIN Registry /\ t # Help /\ r.target = Registry[t]

\* What holds of a request whose tool message is still to come.
OpenRequest(r) ==
  /\ r.at = Len(history) + 1
  /\ \/ pc \in ToolWaits /\ r.kind = Route(Current).kind
                         /\ r.target = Route(Current).target
     \/ outcome = "timeout"
  /\ pc \in {"rest", "ws", "wsWait"} => r.via = "ws"

SentInv == \A r \in sent :
  IF r.at \in 1 .. Len(history) THEN SettledRequest(r) ELSE OpenRequest(r)

Replies == {i \in DOMAIN history : IsAssistant(i)}

RoundInv ==
  /\ round > 0 => round <= maxRounds
  /\ Cardinality(Replies) <= IF pc = "provider" THEN round - 1 ELSE round

FlowInv == TypeOK /\ WorkInv /\ HistoryInv /\ EndInv /\ SentInv

-----------------------------------------------------------------------------
(* The data *)

LEMMA CallListFacts ==
  ASSUME NEW cs \in ToolCallLists
  PROVE  /\ cs \in Seq(Calls)
         /\ Len(cs) \in Nat \ {0}
         /\ \A j \in 1 .. Len(cs) : cs[j] \in Calls /\ cs[j].tool \in Tools
<1>1. PICK n \in 1 .. MaxCalls : cs \in [1 .. n -> Calls]
  BY DEF ToolCallLists
<1>2. n \in Nat \ {0}
  BY BoundsAssumption
<1>3. cs \in Seq(Calls)
  BY <1>1, <1>2, SeqDef
<1>4. Len(cs) = n
  BY <1>1, <1>2, <1>3, LenProperties
<1>. QED
  BY <1>1, <1>2, <1>3, <1>4, BoundsAssumption

LEMMA AssistantEntryFacts ==
  ASSUME NEW cs \in {<<>>} \cup ToolCallLists
  PROVE  /\ AssistantEntry(cs) \in Entries
         /\ AssistantEntry(cs).role = "assistant"
         /\ AssistantEntry(cs).calls = cs
BY DEF AssistantEntry, Entries, Contents

LEMMA ToolEntryFacts ==
  ASSUME NEW t \in Tools, NEW content \in Contents
  PROVE  /\ ToolEntry(t, content) \in Entries
         /\ ToolEntry(t, content).role = "tool"
         /\ ToolEntry(t, content).tool = t
         /\ ToolEntry(t, content).content = content
BY DEF ToolEntry, Entries

\* Where a call may go.
LEMMA RouteFacts ==
  ASSUME NEW c \in Calls
  PROVE  /\ Route(c).kind # "local" =>
              Route(c).kind \in {"run", "help", "list"}
              /\ Route(c).target \in Targets \cup {NoArg}
         /\ registered /\ Route(c).kind = "run" =>
              /\ c.tool \in DOMAIN Registry /\ c.tool # Help
              /\ Route(c).target = Registry[c.tool]
<1>1. c \in [tool : Tools, arg : Tools \cup Targets \cup {NoArg, Malformed}]
  BY BoundsAssumption
<1>2. CASE registered
  BY <1>1, <1>2, RegistryAssumption DEF Route, SessionRoute, Local
<1>3. CASE ~ registered
  <2>1. Route(c) = DirectRoute(c)
    BY <1>3 DEF Route
  <2>2. CASE c.tool = ListServers
    BY <1>3, <2>1, <2>2 DEF DirectRoute
  <2>3. CASE c.tool # ListServers /\ c.tool \in {CallServer, Help} /\ c.arg \in Targets
    BY <1>3, <2>1, <2>3 DEF DirectRoute
  <2>4. CASE c.tool # ListServers /\ ~ (c.tool \in {CallServer, Help} /\ c.arg \in Targets)
    BY <1>3, <2>1, <2>4 DEF DirectRoute, Local
  <2>. QED  BY <2>2, <2>3, <2>4
<1>. QED  BY <1>2, <1>3

-----------------------------------------------------------------------------
(* Steps that leave the history alone *)

\* Nothing that is said of the history and of the calls changes.
LEMMA SameHistory ==
  ASSUME UNCHANGED <<registered, history, calls, answered>>
  PROVE  /\ Base' = Base
         /\ AnsweredSoFar' <=> AnsweredSoFar
         /\ Route(Current)' = Route(Current)
         /\ \A i : IsAssistant(i)' <=> IsAssistant(i)
         /\ \A i : AnsweredAll(i)' <=> AnsweredAll(i)
         /\ \A r : SettledRequest(r)' <=> SettledRequest(r)
<1>1. Base' = Base
  BY DEF Base
<1>2. AnsweredSoFar' <=> AnsweredSoFar
  BY <1>1 DEF AnsweredSoFar, Answers
<1>3. Current' = Current
  BY DEF Current
<1>4. SessionRoute(Current)' = SessionRoute(Current)
  BY <1>3 DEF SessionRoute
<1>5. DirectRoute(Current)' = DirectRoute(Current)
  BY <1>3 DEF DirectRoute
<1>6. Route(Current)' = Route(Current)
  BY <1>4, <1>5 DEF Route
<1>7. \A i : IsAssistant(i)' <=> IsAssistant(i)
  BY DEF IsAssistant
<1>8. \A i : AnsweredAll(i)' <=> AnsweredAll(i)
  BY DEF AnsweredAll, Answers
<1>9. \A r : SettledRequest(r)' <=> SettledRequest(r)
  BY DEF SettledRequest
<1>. QED  BY <1>1, <1>2, <1>6, <1>7, <1>8, <1>9

\* A step of the flow that appends nothing and sends nothing.
LEMMA QuietStep ==
  ASSUME FlowInv, TypeOK',
         UNCHANGED <<registered, history, calls, answered, sent>>,
         pc # "end",
         InTools' => InTools,
         InTools => InTools' \/ outcome' = "timeout",
         pc' \in ToolWaits => Route(Current).kind # "local",
         pc' = "rest" => Route(Current).kind = "list",
         pc \in ToolWaits => pc' \in ToolWaits \/ outcome' = "timeout",
         pc' \in {"rest", "ws", "wsWait"} => pc \in {"tools", "rest"},
         outcome' = "running" <=> pc' # "end"
  PROVE  FlowInv'
<1>1. outcome = "running"
  BY DEF FlowInv, EndInv
<1>2. WorkInv'
  BY SameHistory DEF FlowInv, WorkInv
<1>3. HistoryInv'
  BY SameHistory, <1>1 DEF FlowInv, HistoryInv
<1>4. EndInv'
  BY DEF EndInv
<1>5. ASSUME NEW r \in sent, OpenRequest(r)
      PROVE  OpenRequest(r)'
  <2>1. pc \in ToolWaits
    BY <1>1, <1>5 DEF OpenRequest
  <2>2. pc' \in {"rest", "ws", "wsWait"} => pc = "rest"
    BY <2>1 DEF ToolWaits
  <2>. QED  BY SameHistory, <1>1, <1>5, <2>1, <2>2 DEF OpenRequest
<1>6. SentInv'
  BY SameHistory, <1>5 DEF FlowInv, SentInv
<1>. QED  BY <1>2, <1>3, <1>4, <1>6 DEF FlowInv

LEMMA StartRoundKeeps == ASSUME FlowInv, StartRound PROVE FlowInv'
<1>1. TypeOK'
  BY DEF FlowInv, TypeOK, StartRound
<1>. QED
  BY <1>1, QuietStep DEF StartRound, FlowInv, EndInv, InTools, ToolWaits

LEMMA RoundsExhaustedKeeps == ASSUME FlowInv, RoundsExhausted PROVE FlowInv'
<1>1. TypeOK'
  <2>1. Len(history) \in Nat
    BY LenProperties DEF FlowInv, TypeOK
  <2>. QED  BY <2>1 DEF FlowInv, TypeOK, RoundsExhausted
<1>. QED
  BY <1>1, QuietStep DEF RoundsExhausted, FlowInv, EndInv, InTools, ToolWaits

LEMMA ProviderFailsKeeps == ASSUME FlowInv, ProviderFails PROVE FlowInv'
<1>1. TypeOK'
  BY DEF FlowInv, TypeOK, ProviderFails
<1>. QED
  BY <1>1, QuietStep DEF ProviderFails, InTools, ToolWaits

LEMMA CloseKeeps == ASSUME FlowInv, Close \/ CloseRaises PROVE FlowInv'
<1>1. TypeOK'
  BY DEF FlowInv, TypeOK, Close, CloseRaises
<1>. QED
  BY <1>1, QuietStep DEF Close, CloseRaises, InTools, ToolWaits

LEMMA StartCallKeeps == ASSUME FlowInv, StartCall PROVE FlowInv'
<1>1. TypeOK'
  BY DEF FlowInv, TypeOK, StartCall, FirstTransport, ToolWaits
<1>2. /\ pc = "tools" /\ pc' \in {"rest", "ws", "http"}
      /\ Route(Current).kind # "local"
      /\ pc' = "rest" => Route(Current).kind = "list"
  BY DEF StartCall, FirstTransport
<1>3. outcome = "running" /\ outcome' = "running"
  BY <1>2 DEF StartCall, FlowInv, EndInv
<1>. QED
  BY <1>1, <1>2, <1>3, QuietStep DEF StartCall, InTools, ToolWaits

LEMMA RestListFailsKeeps == ASSUME FlowInv, RestListFails PROVE FlowInv'
<1>1. TypeOK'
  BY DEF FlowInv, TypeOK, RestListFails, FirstTransport, ToolWaits
<1>2. pc = "rest" /\ pc' \in {"ws", "http"}
  BY DEF RestListFails, FirstTransport
<1>3. Route(Current).kind # "local"
  BY <1>2 DEF FlowInv, WorkInv, InTools, ToolWaits
<1>4. outcome = "running" /\ outcome' = "running"
  BY <1>2 DEF RestListFails, FlowInv, EndInv
<1>. QED
  BY <1>1, <1>2, <1>3, <1>4, QuietStep DEF RestListFails, InTools, ToolWaits

LEMMA WsFallbackKeeps == ASSUME FlowInv, WsFallback PROVE FlowInv'
<1>1. TypeOK'
  BY DEF FlowInv, TypeOK, WsFallback, ToolWaits
<1>2. pc \in {"ws", "wsWait"} /\ pc' = "http"
  BY DEF WsFallback
<1>3. Route(Current).kind # "local"
  BY <1>2 DEF FlowInv, WorkInv, InTools, ToolWaits
<1>4. outcome = "running" /\ outcome' = "running"
  BY <1>2 DEF WsFallback, FlowInv, EndInv
<1>. QED
  BY <1>1, <1>2, <1>3, <1>4, QuietStep DEF WsFallback, InTools, ToolWaits

LEMMA TimeoutKeeps == ASSUME FlowInv, Timeout PROVE FlowInv'
<1>1. TypeOK'
  BY DEF FlowInv, TypeOK, Timeout
<1>2. pc # "end" /\ pc' = "end" /\ outcome' = "timeout"
  BY DEF Timeout, ToolWaits
<1>. QED
  BY <1>1, <1>2, QuietStep DEF Timeout, InTools, ToolWaits

\* A server runs a request: only the effects change.
LEMMA ServerRunsKeeps ==
  ASSUME FlowInv, NEW r \in sent, ServerRuns(r)
  PROVE  FlowInv'
<1>1. TypeOK'
  BY DEF FlowInv, TypeOK, ServerRuns
<1>2. WorkInv'
  BY SameHistory DEF FlowInv, WorkInv, ServerRuns, InTools
<1>3. HistoryInv'
  BY SameHistory DEF FlowInv, HistoryInv, ServerRuns, InTools
<1>4. EndInv'
  BY DEF FlowInv, EndInv, ServerRuns
<1>5. SentInv'
  BY SameHistory DEF FlowInv, SentInv, OpenRequest, ServerRuns
<1>. QED  BY <1>1, <1>2, <1>3, <1>4, <1>5 DEF FlowInv

\* The call being run is one of the calls of the reply.
LEMMA CurrentFacts ==
  ASSUME FlowInv, InTools
  PROVE  Current \in Calls /\ Current.tool \in Tools
<1>1. calls \in ToolCallLists /\ answered \in Nat /\ answered < Len(calls)
  BY DEF FlowInv, WorkInv, TypeOK
<1>2. answered + 1 \in 1 .. Len(calls)
  BY <1>1, CallListFacts
<1>. QED  BY <1>1, <1>2, CallListFacts DEF Current

LEMMA SendKeeps ==
  ASSUME FlowInv, NEW via \in {"ws", "http"}, Send(via)
  PROVE  FlowInv'
<1>1. /\ pc = via /\ pc' = IF via = "ws" THEN "wsWait" ELSE "httpWait"
      /\ sent' = sent \cup {Request(via)}
      /\ UNCHANGED <<registered, history, calls, answered, client, outcome>>
  BY DEF Send
<1>2. InTools /\ pc \in ToolWaits /\ pc' \in ToolWaits
  BY <1>1 DEF InTools, ToolWaits
<1>3. Route(Current).kind # "local"
  BY <1>2 DEF FlowInv, WorkInv
<1>4. Len(history) \in Nat
  BY LenProperties DEF FlowInv, TypeOK
<1>5. Request(via) \in Requests
  BY <1>2, <1>3, <1>4, CurrentFacts, RouteFacts DEF Request, Requests
<1>6. TypeOK'
  BY <1>2, <1>5 DEF FlowInv, TypeOK, Send
<1>7. WorkInv'
  BY <1>1, <1>2, <1>3, SameHistory DEF FlowInv, WorkInv
<1>8. HistoryInv'
  BY <1>1, <1>2, SameHistory DEF FlowInv, HistoryInv, InTools
<1>9. EndInv'
  BY <1>1, <1>2 DEF FlowInv, EndInv, ToolWaits
<1>10. ASSUME NEW r \in sent, OpenRequest(r) PROVE OpenRequest(r)'
  BY <1>1, <1>2, <1>10, SameHistory DEF OpenRequest
<1>11. SentInv'
  <2>. SUFFICES ASSUME NEW r \in sent'
                PROVE  IF r.at \in 1 .. Len(history)
                       THEN SettledRequest(r)' ELSE OpenRequest(r)'
    BY <1>1 DEF SentInv
  <2>1. CASE r \in sent
    BY <1>1, <1>10, <2>1, SameHistory DEF FlowInv, SentInv
  <2>2. CASE r = Request(via)
    <3>1. r.at = Len(history) + 1
      BY <2>2 DEF Request
    <3>2. OpenRequest(r)'
      BY <1>1, <1>2, <2>2, SameHistory DEF OpenRequest, Request
    <3>. QED  BY <1>4, <3>1, <3>2
  <2>. QED  BY <1>1, <2>1, <2>2
<1>. QED  BY <1>6, <1>7, <1>8, <1>9, <1>11 DEF FlowInv

-----------------------------------------------------------------------------
(* Steps that append to the history *)

LEMMA EntryCalls ==
  ASSUME NEW e \in Entries
  PROVE  Len(e.calls) \in Nat
<1>1. e.calls \in {<<>>} \cup ToolCallLists
  BY DEF Entries
<1>. QED  BY <1>1, CallListFacts, EmptySeq

\* What was said of the entries before still holds of them.
LEMMA Appended ==
  ASSUME history \in Seq(Entries), NEW e \in Entries,
         history' = Append(history, e), registered' = registered
  PROVE  /\ Len(history) \in Nat
         /\ history' \in Seq(Entries)
         /\ Len(history') = Len(history) + 1
         /\ \A i \in 1 .. Len(history) : history'[i] = history[i]
         /\ history'[Len(history) + 1] = e
         /\ \A i \in 1 .. Len(history) : IsAssistant(i)' <=> IsAssistant(i)
         /\ \A i \in 1 .. Len(history) : AnsweredAll(i) => AnsweredAll(i)'
         /\ \A r : r.at \in 1 .. Len(history) /\ SettledRequest(r) => SettledRequest(r)'
<1>1. /\ Len(history) \in Nat
      /\ history' \in Seq(Entries)
      /\ Len(history') = Len(history) + 1
      /\ \A i \in 1 .. Len(history) : history'[i] = history[i]
      /\ history'[Len(history) + 1] = e
  BY LenProperties, AppendProperties
<1>2. \A i \in 1 .. Len(history) : IsAssistant(i)' <=> IsAssistant(i)
  BY <1>1 DEF IsAssistant
<1>3. ASSUME NEW i \in 1 .. Len(history), AnsweredAll(i)
      PROVE  AnsweredAll(i)'
  <2>1. Len(history[i].calls) \in Nat
    BY ElementOfSeq, EntryCalls
  <2>2. history'[i] = history[i]
    BY <1>1
  <2>3. ASSUME NEW j \in 1 .. Len(history[i].calls)
        PROVE  i + j \in 1 .. Len(history)
    BY <1>1, <1>3, <2>1 DEF AnsweredAll
  <2>. QED  BY <1>1, <1>3, <2>1, <2>2, <2>3 DEF AnsweredAll, Answers
<1>4. ASSUME NEW r, r.at \in 1 .. Len(history), SettledRequest(r)
      PROVE  SettledRequest(r)'
  <2>1. history'[r.at] = history[r.at]
    BY <1>1, <1>4
  <2>. QED  BY <1>4, <2>1 DEF SettledRequest
<1>. QED  BY <1>1, <1>2, <1>3, <1>4

LEMMA ModelRepliesKeeps == ASSUME FlowInv, ModelReplies PROVE FlowInv'
<1> DEFINE e == AssistantEntry(<<>>)
<1>1. /\ pc = "provider" /\ pc' = "closing"
      /\ history' = Append(history, e) /\ message' = Len(history) + 1
      /\ UNCHANGED <<registered, maxRounds, round, calls, answered, client, sent,
                     effects, outcome>>
  BY DEF ModelReplies
<1>2. e \in Entries /\ e.calls = <<>> /\ Len(e.calls) = 0
  BY AssistantEntryFacts, EmptySeq
<1>3. history \in Seq(Entries) /\ outcome = "running" /\ ~ InTools
  BY <1>1 DEF FlowInv, TypeOK, EndInv, InTools, ToolWaits
<1>. HIDE DEF e
<1>4. TypeOK'
  BY <1>1, <1>2, <1>3, Appended DEF FlowInv, TypeOK
<1>5. WorkInv' /\ EndInv'
  BY <1>1, <1>3 DEF WorkInv, EndInv, InTools, ToolWaits
<1>6. HistoryInv'
  <2>1. \A i \in 1 .. Len(history) : IsAssistant(i) => AnsweredAll(i)
    BY <1>3 DEF FlowInv, HistoryInv
  <2>2. ASSUME NEW i, i = Len(history) + 1
        PROVE  AnsweredAll(i)'
    <3>1. history'[i] = e /\ Len(history') = i /\ i \in Nat
      BY <1>1, <1>2, <1>3, <2>2, Appended
    <3>. QED  BY <1>2, <3>1 DEF AnsweredAll
  <2>. QED  BY <1>1, <1>2, <1>3, <2>1, <2>2, Appended DEF HistoryInv
<1>7. SentInv'
  <2>1. \A r \in sent : r.at \in 1 .. Len(history) /\ SettledRequest(r)
    BY <1>1, <1>3 DEF FlowInv, SentInv, OpenRequest, InTools
  <2>. QED  BY <1>1, <1>2, <1>3, <2>1, Appended DEF SentInv
<1>. QED  BY <1>4, <1>5, <1>6, <1>7 DEF FlowInv

LEMMA ModelCallsToolsKeeps ==
  ASSUME FlowInv, NEW cs \in ToolCallLists, ModelCallsTools(cs)
  PROVE  FlowInv'
<1> DEFINE e == AssistantEntry(cs)
<1>1. /\ pc = "provider" /\ calls' = cs /\ answered' = 0
      /\ history' = Append(history, e)
      /\ UNCHANGED <<registered, maxRounds, round, client, sent, effects, message>>
      /\ \/ pc' = "end" /\ outcome' = "raised"
         \/ pc' = "tools" /\ outcome' = outcome
  BY DEF ModelCallsTools
<1>2. e \in Entries /\ e.calls = cs /\ Len(cs) \in Nat \ {0}
  BY AssistantEntryFacts, CallListFacts
<1>3. history \in Seq(Entries) /\ outcome = "running" /\ ~ InTools
  BY <1>1 DEF FlowInv, TypeOK, EndInv, InTools, ToolWaits
<1>. HIDE DEF e
<1>4. TypeOK'
  BY <1>1, <1>2, <1>3, Appended DEF FlowInv, TypeOK
<1>5. Base' = Len(history) + 1 /\ AnsweredSoFar'
  BY <1>1, <1>2, <1>3, Appended DEF Base, AnsweredSoFar
<1>6. WorkInv'
  <2>1. history'[Base'] = AssistantEntry(calls')
    BY <1>1, <1>2, <1>3, <1>5, Appended DEF e
  <2>2. pc' \notin ToolWaits /\ pc' # "rest"
    BY <1>1 DEF ToolWaits
  <2>3. calls' \in ToolCallLists /\ answered' < Len(calls') /\ Base' >= 1
    BY <1>1, <1>2, <1>3, <1>5, Appended
  <2>. QED  BY <1>5, <2>1, <2>2, <2>3 DEF WorkInv
<1>7. EndInv'
  BY <1>1, <1>3 DEF EndInv
<1>8. HistoryInv'
  <2>1. \A i \in 1 .. Len(history) : IsAssistant(i) => AnsweredAll(i)
    BY <1>3 DEF FlowInv, HistoryInv
  <2>2. InTools' \/ outcome' \in {"raised", "timeout"}
    BY <1>1 DEF InTools
  <2>. QED  BY <1>1, <1>2, <1>3, <1>5, <2>1, <2>2, Appended DEF HistoryInv
<1>9. SentInv'
  <2>1. \A r \in sent : r.at \in 1 .. Len(history) /\ SettledRequest(r)
    BY <1>1, <1>3 DEF FlowInv, SentInv, OpenRequest, InTools
  <2>. QED  BY <1>1, <1>2, <1>3, <2>1, Appended DEF SentInv
<1>. QED  BY <1>4, <1>6, <1>7, <1>8, <1>9 DEF FlowInv

\* The tool message of the current call: it is the next answer of the reply, and
\* settles the requests of the call.  Only a WebSocket that is waited for has a
\* result, so no request of the call has left over HTTP then.
LEMMA AnswerKeeps ==
  ASSUME FlowInv, InTools, NEW content \in Contents, Answer(content),
         UNCHANGED <<client, sent, effects>>,
         content = "ws" => pc = "wsWait"
  PROVE  FlowInv'
<1> DEFINE e == ToolEntry(Current.tool, content)
<1>1. /\ history' = Append(history, e) /\ answered' = answered + 1
      /\ pc' = IF answered + 1 = Len(calls) THEN "loop" ELSE "tools"
      /\ UNCHANGED <<registered, maxRounds, round, calls, outcome, message>>
  BY DEF Answer
<1>2. /\ e \in Entries /\ e.role = "tool" /\ e.content = content
      /\ e.tool = calls[answered + 1].tool
  BY CurrentFacts, ToolEntryFacts DEF Current
<1>3. /\ history \in Seq(Entries) /\ outcome = "running"
      /\ answered \in Nat /\ answered < Len(calls) /\ Len(calls) \in Nat
      /\ calls \in ToolCallLists
      /\ Base >= 1 /\ history[Base] = AssistantEntry(calls) /\ AnsweredSoFar
  BY CallListFacts DEF FlowInv, TypeOK, WorkInv, EndInv, InTools, ToolWaits
<1>. HIDE DEF e
<1>4. TypeOK'
  BY <1>1, <1>2, <1>3, Appended DEF FlowInv, TypeOK
<1>5. /\ Base' = Base /\ Base \in 1 .. Len(history)
      /\ history'[Base] = AssistantEntry(calls)
  BY <1>1, <1>2, <1>3, Appended DEF Base
<1>6. AnsweredSoFar'
  <2>. SUFFICES ASSUME NEW j \in 1 .. answered + 1
                PROVE  Answers(Base, j)'
    BY <1>1, <1>5 DEF AnsweredSoFar
  <2>1. history'[Base] = history[Base] /\ history[Base].calls = calls
    BY <1>3, <1>5, AssistantEntryFacts
  <2>2. CASE j \in 1 .. answered
    <3>1. Base + j \in 1 .. Len(history)
      BY <1>1, <1>2, <1>3, <2>2, Appended DEF Base
    <3>2. history'[Base + j] = history[Base + j]
      BY <1>1, <1>2, <1>3, <3>1, Appended
    <3>. QED  BY <1>3, <1>5, <2>1, <2>2, <3>2 DEF AnsweredSoFar, Answers
  <2>3. CASE j = answered + 1
    <3>1. Base + j = Len(history) + 1
      BY <1>1, <1>2, <1>3, <2>3, Appended DEF Base
    <3>2. history'[Base + j] = e
      BY <1>1, <1>2, <1>3, <3>1, Appended
    <3>. QED  BY <1>2, <1>5, <2>1, <2>3, <3>2 DEF Answers
  <2>. QED  BY <1>3, <2>2, <2>3
<1>7. WorkInv'
  <2>1. InTools' => answered' < Len(calls')
    BY <1>1, <1>3 DEF InTools, ToolWaits
  <2>2. pc' \notin ToolWaits
    BY <1>1 DEF ToolWaits
  <2>. QED  BY <1>1, <1>3, <1>5, <1>6, <2>1, <2>2 DEF WorkInv
<1>8. EndInv'
  BY <1>1, <1>3 DEF FlowInv, EndInv
<1>9. HistoryInv'
  <2>. SUFFICES ASSUME NEW i \in 1 .. Len(history) + 1, IsAssistant(i)'
                PROVE  AnsweredAll(i)' \/ (i = Base' /\ AnsweredSoFar' /\ InTools')
    BY <1>1, <1>2, <1>3, Appended DEF HistoryInv
  <2>1. i \in 1 .. Len(history) /\ IsAssistant(i)
    BY <1>1, <1>2, <1>3, Appended DEF IsAssistant
  <2>2. CASE AnsweredAll(i)
    BY <1>1, <1>2, <1>3, <2>1, <2>2, Appended
  <2>3. CASE i = Base /\ answered + 1 # Len(calls)
    BY <1>1, <1>5, <1>6, <2>3 DEF InTools
  <2>4. CASE i = Base /\ answered + 1 = Len(calls)
    <3>1. history'[Base].calls = calls
      BY <1>3, <1>5, AssistantEntryFacts
    <3>2. Base + Len(calls) <= Len(history')
      BY <1>1, <1>2, <1>3, <2>4, Appended DEF Base
    <3>3. \A j \in 1 .. Len(calls) : Answers(Base, j)'
      BY <1>1, <1>5, <1>6, <2>4 DEF AnsweredSoFar
    <3>. QED  BY <1>5, <2>4, <3>1, <3>2, <3>3 DEF AnsweredAll, Answers
  <2>. QED  BY <2>1, <2>2, <2>3, <2>4 DEF FlowInv, HistoryInv
<1>10. ASSUME NEW r \in sent
       PROVE  r.at \in 1 .. Len(history) + 1 /\ SettledRequest(r)'
  <2>0. Len(history) \in Nat
    BY <1>1, <1>2, <1>3, Appended
  <2>1. CASE r.at \in 1 .. Len(history)
    BY <1>1, <1>2, <1>3, <2>0, <2>1, Appended DEF FlowInv, SentInv
  <2>2. CASE r.at \notin 1 .. Len(history)
    <3>1. OpenRequest(r)
      BY <2>2 DEF FlowInv, SentInv
    <3>2. /\ r.at = Len(history) + 1
          /\ r.kind = Route(Current).kind /\ r.target = Route(Current).target
          /\ content = "ws" => r.via = "ws"
      BY <1>3, <3>1 DEF OpenRequest
    <3>3. history'[r.at] = e
      BY <1>1, <1>2, <1>3, <3>2, Appended
    <3>4. registered /\ r.kind = "run" =>
            /\ e.tool \in DOMAIN Registry /\ e.tool # Help
            /\ r.target = Registry[e.tool]
      BY <1>2, <3>2, CurrentFacts, RouteFacts DEF Current
    <3>. QED  BY <1>1, <1>2, <2>0, <3>2, <3>3, <3>4 DEF SettledRequest
  <2>. QED  BY <2>1, <2>2
<1>11. SentInv'
  BY <1>1, <1>2, <1>3, <1>10, Appended DEF SentInv
<1>. QED  BY <1>4, <1>7, <1>8, <1>9, <1>11 DEF FlowInv

-----------------------------------------------------------------------------
(* The invariant *)

LEMMA InitFlowInv == Init => FlowInv
<1>. SUFFICES ASSUME Init PROVE FlowInv
  OBVIOUS
<1>1. PICK n \in InputLens : history = [i \in 1 .. n |-> InputEntry]
  BY DEF Init
<1>2. n \in Nat
  BY BoundsAssumption
<1>3. InputEntry \in Entries /\ InputEntry.role = "input"
  BY DEF InputEntry, Entries, Contents
<1>4. history \in Seq(Entries) /\ Len(history) = n
  <2>1. history \in [1 .. n -> Entries]
    BY <1>1, <1>3
  <2>. QED  BY <1>2, <2>1, SeqDef, LenProperties
<1>5. \A i \in 1 .. Len(history) : ~ IsAssistant(i)
  BY <1>1, <1>3, <1>4 DEF IsAssistant
<1>6. TypeOK
  BY <1>2, <1>4, BoundsAssumption DEF Init, TypeOK
<1>7. WorkInv /\ HistoryInv /\ EndInv /\ SentInv
  BY <1>5 DEF Init, WorkInv, InTools, ToolWaits, HistoryInv, EndInv,
              SentInv
<1>. QED  BY <1>6, <1>7 DEF FlowInv

LEMMA FlowStep == ASSUME FlowInv, Flow PROVE FlowInv'
<1>1. CASE StartRound \/ RoundsExhausted \/ ProviderFails \/ Close \/ CloseRaises
  BY <1>1, StartRoundKeeps, RoundsExhaustedKeeps, ProviderFailsKeeps, CloseKeeps
<1>2. CASE StartCall \/ RestListFails \/ WsFallback
  BY <1>2, StartCallKeeps, RestListFailsKeeps, WsFallbackKeeps
<1>3. CASE ModelReplies
  BY <1>3, ModelRepliesKeeps
<1>4. ASSUME NEW cs \in ToolCallLists, ModelCallsTools(cs)
      PROVE  FlowInv'
  BY <1>4, ModelCallsToolsKeeps
<1>5. CASE AnswerLocally
  BY <1>5, AnswerKeeps DEF AnswerLocally, InTools, Contents
<1>6. CASE RestListAnswers
  BY <1>6, AnswerKeeps DEF RestListAnswers, InTools, ToolWaits, Contents
<1>7. CASE HttpFails
  BY <1>7, AnswerKeeps DEF HttpFails, InTools, ToolWaits, Contents
<1>8. ASSUME NEW via \in {"ws", "http"}, Send(via)
      PROVE  FlowInv'
  BY <1>8, SendKeeps
<1>9. ASSUME NEW via \in {"ws", "http"}, Result(via)
      PROVE  FlowInv'
  BY <1>9, AnswerKeeps DEF Result, InTools, ToolWaits, Contents
<1>. QED
  BY <1>1, <1>2, <1>3, <1>4, <1>5, <1>6, <1>7, <1>8, <1>9 DEF Flow

LEMMA NextFlowInv == FlowInv /\ [Next]_vars => FlowInv'
<1>1. ASSUME FlowInv, UNCHANGED vars PROVE FlowInv'
  <2>1. TypeOK' /\ EndInv'
    BY <1>1 DEF vars, FlowInv, TypeOK, EndInv
  <2>2. WorkInv' /\ HistoryInv'
    BY <1>1, SameHistory DEF vars, FlowInv, WorkInv, HistoryInv, InTools
  <2>3. SentInv'
    BY <1>1, SameHistory DEF vars, FlowInv, SentInv, OpenRequest
  <2>. QED  BY <2>1, <2>2, <2>3 DEF FlowInv
<1>2. ASSUME FlowInv, Next PROVE FlowInv'
  BY <1>2, FlowStep, TimeoutKeeps, ServerRunsKeeps DEF Next
<1>. QED  BY <1>1, <1>2

LEMMA FlowInvariant == Spec => []FlowInv
BY InitFlowInv, NextFlowInv, PTL DEF Spec

-----------------------------------------------------------------------------
(* The rounds *)

LEMMA RepliesFacts ==
  ASSUME history \in Seq(Entries)
  PROVE  /\ Replies = {i \in 1 .. Len(history) : IsAssistant(i)}
         /\ IsFiniteSet(Replies) /\ Cardinality(Replies) \in Nat
<1>1. Replies = {i \in 1 .. Len(history) : IsAssistant(i)}
  BY LenProperties DEF Replies
<1>2. IsFiniteSet(1 .. Len(history))
  BY LenProperties, FS_Interval
<1>3. IsFiniteSet(Replies)
  BY <1>1, <1>2, FS_Subset
<1>. QED  BY <1>1, <1>3, FS_CardinalityType

\* An assistant entry is one reply more, another entry is none.
LEMMA AppendedReplies ==
  ASSUME history \in Seq(Entries), NEW e \in Entries,
         history' = Append(history, e), registered' = registered
  PROVE  Cardinality(Replies)' = IF e.role = "assistant" THEN Cardinality(Replies) + 1
                                                         ELSE Cardinality(Replies)
<1>1. Len(history) + 1 \notin Replies
  BY RepliesFacts, Appended
<1>2. Replies' = {i \in 1 .. Len(history) + 1 : IsAssistant(i)'}
  <2>1. DOMAIN history' = 1 .. Len(history) + 1
    BY Appended, LenProperties
  <2>. QED  BY <2>1 DEF Replies
<1>3. \A i \in 1 .. Len(history) + 1 :
        IsAssistant(i)' <=> \/ i \in 1 .. Len(history) /\ IsAssistant(i)
                            \/ i = Len(history) + 1 /\ e.role = "assistant"
  BY Appended DEF IsAssistant
<1>4. CASE e.role = "assistant"
  <2>1. Replies' = Replies \cup {Len(history) + 1}
    BY <1>2, <1>3, <1>4, RepliesFacts, Appended
  <2>. QED  BY <1>1, <1>4, <2>1, RepliesFacts, FS_AddElement
<1>5. CASE e.role # "assistant"
  <2>1. Replies' = Replies
    BY <1>2, <1>3, <1>5, RepliesFacts, Appended
  <2>. QED  BY <1>5, <2>1
<1>. QED  BY <1>4, <1>5

LEMMA InitRoundInv == Init => RoundInv
<1>. SUFFICES ASSUME Init PROVE RoundInv
  OBVIOUS
<1>1. PICK n \in InputLens : history = [i \in 1 .. n |-> InputEntry]
  BY DEF Init
<1>2. Replies = {}
  BY <1>1 DEF Replies, IsAssistant, InputEntry
<1>. QED  BY <1>2, FS_EmptySet DEF Init, RoundInv

LEMMA NextRoundInv == FlowInv /\ RoundInv /\ [Next]_vars => RoundInv'
<1>. SUFFICES ASSUME FlowInv, RoundInv, [Next]_vars PROVE RoundInv'
  OBVIOUS
<1>1. /\ history \in Seq(Entries) /\ round \in Nat /\ maxRounds \in Int
      /\ Cardinality(Replies) \in Nat
  BY RepliesFacts DEF FlowInv, TypeOK
<1>2. CASE UNCHANGED <<history, round, maxRounds>> /\ (pc' = pc \/ pc' # "provider")
  <2>1. Replies' = Replies
    BY <1>2 DEF Replies, IsAssistant
  <2>. QED  BY <1>1, <1>2, <2>1 DEF RoundInv
<1>3. CASE StartRound
  <2>1. Replies' = Replies
    BY <1>3 DEF Replies, IsAssistant, StartRound
  <2>. QED  BY <1>1, <1>3, <2>1 DEF RoundInv, StartRound
<1>4. ASSUME NEW cs \in {<<>>} \cup ToolCallLists,
             history' = Append(history, AssistantEntry(cs)),
             pc = "provider", pc' # "provider",
             UNCHANGED <<registered, round, maxRounds>>
      PROVE  RoundInv'
  BY <1>1, <1>4, AssistantEntryFacts, AppendedReplies DEF RoundInv
<1>5. ASSUME NEW content \in Contents, InTools, Answer(content)
      PROVE  RoundInv'
  <2>1. Cardinality(Replies)' = Cardinality(Replies)
    BY <1>1, <1>5, CurrentFacts, ToolEntryFacts, AppendedReplies DEF Answer
  <2>2. pc # "provider" /\ pc' # "provider" /\ UNCHANGED <<round, maxRounds>>
    BY <1>5 DEF Answer, InTools, ToolWaits
  <2>. QED  BY <1>1, <2>1, <2>2 DEF RoundInv
<1>6. CASE \/ RoundsExhausted \/ ProviderFails \/ Close \/ CloseRaises
           \/ StartCall \/ RestListFails \/ WsFallback
           \/ (\E via \in {"ws", "http"} : Send(via))
           \/ Timeout \/ (\E r \in sent : ServerRuns(r)) \/ UNCHANGED vars
  BY <1>2, <1>6 DEF RoundsExhausted, ProviderFails, Close, CloseRaises, StartCall,
     RestListFails, WsFallback, FirstTransport, Send, Timeout, ServerRuns, vars
<1>7. CASE ModelReplies \/ (\E cs \in ToolCallLists : ModelCallsTools(cs))
  BY <1>4, <1>7 DEF ModelReplies, ModelCallsTools
<1>8. CASE \/ AnswerLocally \/ RestListAnswers \/ HttpFails
           \/ \E via \in {"ws", "http"} : Result(via)
  BY <1>5, <1>8 DEF AnswerLocally, RestListAnswers, HttpFails, Result, InTools,
     ToolWaits, Contents
<1>. QED  BY <1>3, <1>6, <1>7, <1>8 DEF Next, Flow

-----------------------------------------------------------------------------
(* Whose turn it is *)

LastSpoken ==
  history[Len(history)].role = "assistant" /\ history[Len(history)].calls = <<>>

\* The model is not asked again after a text, and a flow that is closing returns
\* the last message.
TurnInv ==
  /\ Len(history) >= 1
  /\ pc \in {"loop", "provider"} => ~ LastSpoken
  /\ pc = "provider" => round <= maxRounds
  /\ pc = "closing" => message = Len(history) /\ (round >= maxRounds \/ LastSpoken)

LEMMA InitTurnInv == Init => TurnInv
<1>. SUFFICES ASSUME Init PROVE TurnInv
  OBVIOUS
<1>1. PICK n \in InputLens : history = [i \in 1 .. n |-> InputEntry]
  BY DEF Init
<1>2. n \in Nat \ {0} /\ Len(history) = n
  <2>1. n \in Nat \ {0} /\ history \in [1 .. n -> {InputEntry}]
    BY <1>1, BoundsAssumption
  <2>. QED  BY <2>1, SeqDef, LenProperties
<1>3. history[Len(history)] = InputEntry
  BY <1>1, <1>2
<1>4. ~ LastSpoken /\ Len(history) >= 1
  BY <1>2, <1>3 DEF LastSpoken, InputEntry
<1>. QED  BY <1>4 DEF Init, TurnInv

LEMMA NextTurnInv == FlowInv /\ TurnInv /\ [Next]_vars => TurnInv'
<1>. SUFFICES ASSUME FlowInv, TurnInv, [Next]_vars PROVE TurnInv'
  OBVIOUS
<1>1. history \in Seq(Entries) /\ Len(history) \in Nat /\ round \in Nat /\ maxRounds \in Int
  BY LenProperties DEF FlowInv, TypeOK
<1>2. ASSUME UNCHANGED <<history, round, maxRounds, message>>,
             pc' = pc \/ pc' \notin {"loop", "provider", "closing"}
      PROVE  TurnInv'
  BY <1>2 DEF TurnInv, LastSpoken
<1>3. CASE StartRound \/ RoundsExhausted
  BY <1>1, <1>3 DEF StartRound, RoundsExhausted, TurnInv, LastSpoken
<1>4. CASE ModelReplies
  <2>1. /\ history'[Len(history')] = AssistantEntry(<<>>)
        /\ Len(history') = Len(history) + 1
    BY <1>1, <1>4, AssistantEntryFacts, Appended DEF ModelReplies
  <2>2. LastSpoken'
    BY <2>1, AssistantEntryFacts DEF LastSpoken
  <2>3. message' = Len(history') /\ pc' = "closing" /\ Len(history') >= 1
    BY <1>1, <1>4, <2>1 DEF ModelReplies
  <2>. QED  BY <2>2, <2>3 DEF TurnInv
<1>5. ASSUME NEW cs \in ToolCallLists, ModelCallsTools(cs) PROVE TurnInv'
  <2>1. Len(history') = Len(history) + 1
    BY <1>1, <1>5, AssistantEntryFacts, Appended DEF ModelCallsTools
  <2>2. pc' \in {"end", "tools"}
    BY <1>5 DEF ModelCallsTools
  <2>. QED  BY <1>1, <2>1, <2>2 DEF TurnInv
<1>6. ASSUME NEW content \in Contents, InTools, Answer(content) PROVE TurnInv'
  <2>1. Current.tool \in Tools
    BY <1>6, CurrentFacts
  <2>2. /\ history'[Len(history')] = ToolEntry(Current.tool, content)
        /\ Len(history') = Len(history) + 1
    BY <1>1, <1>6, <2>1, ToolEntryFacts, Appended DEF Answer
  <2>3. ~ LastSpoken'
    BY <2>1, <2>2, ToolEntryFacts DEF LastSpoken
  <2>4. pc' \in {"loop", "tools"}
    BY <1>6 DEF Answer
  <2>. QED  BY <1>1, <2>2, <2>3, <2>4 DEF TurnInv
<1>7. CASE \/ ProviderFails \/ Close \/ CloseRaises \/ StartCall \/ RestListFails
           \/ WsFallback \/ (\E via \in {"ws", "http"} : Send(via))
           \/ Timeout \/ (\E r \in sent : ServerRuns(r)) \/ UNCHANGED vars
  BY <1>2, <1>7 DEF ProviderFails, Close, CloseRaises, StartCall, RestListFails,
     WsFallback, FirstTransport, Send, Timeout, ServerRuns, vars
<1>8. CASE \/ AnswerLocally \/ RestListAnswers \/ HttpFails
           \/ \E via \in {"ws", "http"} : Result(via)
  BY <1>6, <1>8 DEF AnswerLocally, RestListAnswers, HttpFails, Result, InTools,
     ToolWaits, Contents
<1>. QED  BY <1>3, <1>4, <1>5, <1>7, <1>8 DEF Next, Flow

LEMMA TurnInvariant == Spec => []TurnInv
BY InitTurnInv, NextTurnInv, FlowInvariant, PTL DEF Spec

-----------------------------------------------------------------------------
(* The abstract conversation *)

Asks == [c \in Calls |-> Route(c)]

AbstractMessage == IF outcome = "reply" THEN message ELSE 0

LEMMA AsksFacts ==
  /\ \A c \in Calls : Asks[c] = Route(c)
  /\ Asks \in [Calls -> [kind : {"local", "run", "help", "list"},
                         target : Targets \cup {NoArg}]]
  /\ registered' = registered => Asks' = Asks
<1>1. ASSUME NEW c \in Calls
      PROVE  Route(c) \in [kind : {"local", "run", "help", "list"},
                           target : Targets \cup {NoArg}]
  <2>1. Route(c) = [kind |-> Route(c).kind, target |-> Route(c).target]
    BY DEF Route, SessionRoute, DirectRoute, Local
  <2>2. Route(c).kind = "local" => Route(c).target = NoArg
    BY RegistryAssumption DEF Route, SessionRoute, DirectRoute, Local
  <2>3. Route(c).kind # "local" =>
          /\ Route(c).kind \in {"run", "help", "list"}
          /\ Route(c).target \in Targets \cup {NoArg}
    BY RouteFacts
  <2>. QED  BY <2>1, <2>2, <2>3
<1>2. ASSUME registered' = registered PROVE Asks' = Asks
  <2>1. \A c : Route(c)' = Route(c)
    BY <1>2 DEF Route, SessionRoute, DirectRoute
  <2>. QED  BY <2>1 DEF Asks
<1>. QED  BY <1>1, <1>2 DEF Asks

\* The calls that are pending while they are answered.
LEMMA PendingFacts ==
  ASSUME FlowInv, InTools
  PROVE  /\ Pending # <<>> /\ Head(Pending) = Current
         /\ Tail(Pending) = SubSeq(calls, answered + 2, Len(calls))
<1>1. /\ calls \in Seq(Calls) /\ Len(calls) \in Nat
      /\ answered \in Nat /\ answered + 1 \in 1 .. Len(calls)
  BY CallListFacts DEF FlowInv, TypeOK, WorkInv
<1>2. Len(calls) \in (answered + 1) .. Len(calls)
  BY <1>1
<1>3. Pending = SubSeq(calls, answered + 1, Len(calls))
  BY DEF Pending
<1>4. Len(Pending) > 0
  <2>1. \A i \in answered + 1 .. Len(calls) : calls[i] \in Calls
    BY <1>1, ElementOfSeq
  <2>. QED  BY <1>1, <1>3, <2>1, SubSeqProperties
<1>5. /\ Head(Pending) = calls[answered + 1]
      /\ Tail(Pending) = SubSeq(calls, answered + 1 + 1, Len(calls))
  BY <1>1, <1>2, <1>3, HeadTailOfSubSeq
<1>6. Pending # <<>>
  BY <1>4, EmptySeq
<1>7. answered + 1 + 1 = answered + 2
  BY <1>1
<1>. QED  BY <1>5, <1>6, <1>7 DEF Current


\* Steps of the transports are not to be seen.
LEMMA Hidden ==
  ASSUME UNCHANGED <<registered, history, sent, effects, outcome>>,
         Budget' = Budget, Pending' = Pending,
         outcome # "reply" \/ message' = message
  PROVE  UNCHANGED Abstract!vars
<1>1. Asks' = Asks
  BY AsksFacts
<1>2. AbstractMessage' = AbstractMessage
  BY DEF AbstractMessage
<1>. QED  BY <1>1, <1>2 DEF Abstract!vars, Asks, AbstractMessage

LEMMA InitRefines == Init => Abstract!Init
<1>. SUFFICES ASSUME Init PROVE Abstract!Init
  OBVIOUS
<1>1. PICK n \in InputLens : history = [i \in 1 .. n |-> InputEntry]
  BY DEF Init
<1>2. n \in Nat \ {0}
  BY BoundsAssumption
<1>3. InputEntry = Abstract!Entry("input", <<>>, NoArg, "text")
  BY DEF InputEntry, Abstract!Entry
<1>4. history \in Seq({InputEntry}) /\ history # <<>>
  <2>1. history \in [1 .. n -> {InputEntry}]
    BY <1>1
  <2>2. history \in Seq({InputEntry}) /\ Len(history) = n
    BY <1>2, <2>1, SeqDef, LenProperties
  <2>. QED  BY <1>2, <2>2, EmptySeq
<1>5. Budget \in Int
  BY BoundsAssumption DEF Init, Budget
<1>6. Pending = <<>>
  BY DEF Init, Pending, InTools, ToolWaits
<1>7. AbstractMessage = 0
  BY DEF Init, AbstractMessage
<1>8. sent = {} /\ effects = {} /\ outcome = "running"
  BY DEF Init
<1>. QED
  BY <1>3, <1>4, <1>5, <1>6, <1>7, <1>8, AsksFacts
  DEF Abstract!Init, Asks, AbstractMessage

\* The turn is the model's while the provider is asked.
LEMMA ProviderTurn ==
  ASSUME FlowInv, TurnInv, pc = "provider"
  PROVE  /\ Abstract!NothingPending /\ ~ Abstract!Over
         /\ Budget = maxRounds - round + 1 /\ round \in Nat /\ maxRounds \in Int
<1>1. outcome = "running" /\ Pending = <<>>
  BY DEF FlowInv, EndInv, Pending, InTools, ToolWaits
<1>2. /\ round \in Nat /\ maxRounds \in Int /\ round <= maxRounds
      /\ Budget = maxRounds - round + 1 /\ ~ LastSpoken
  BY DEF FlowInv, TypeOK, TurnInv, Budget
<1>3. ~ (Budget <= 0)
  BY <1>2
<1>. QED
  BY <1>1, <1>2, <1>3
  DEF Abstract!NothingPending, Abstract!Over, Abstract!Last, LastSpoken

\* And nobody's when the flow is closing.
LEMMA ClosingTurn ==
  ASSUME FlowInv, TurnInv, pc = "closing"
  PROVE  Abstract!NothingPending /\ Abstract!Over /\ message = Len(history)
<1>1. outcome = "running" /\ Pending = <<>>
  BY DEF FlowInv, EndInv, Pending, InTools, ToolWaits
<1>2. Budget <= 0 \/ LastSpoken
  BY DEF FlowInv, TypeOK, TurnInv, Budget
<1>. QED
  BY <1>1, <1>2
  DEF TurnInv, Abstract!NothingPending, Abstract!Over, Abstract!Last, LastSpoken

LEMMA ModelRepliesRefines ==
  ASSUME FlowInv, TurnInv, ModelReplies
  PROVE  Abstract!ModelReplies(<<>>)
<1>1. /\ pc = "provider" /\ pc' = "closing"
      /\ history' = Append(history, AssistantEntry(<<>>))
      /\ UNCHANGED <<registered, maxRounds, round, calls, answered, sent, effects, outcome>>
  BY DEF ModelReplies
<1>2. outcome = "running"
  BY <1>1 DEF FlowInv, EndInv
<1>3. Abstract!Replies(<<>>)
  <2>1. AssistantEntry(<<>>) = Abstract!Entry("assistant", <<>>, NoArg, "text")
    BY DEF AssistantEntry, Abstract!Entry
  <2>2. AbstractMessage' = AbstractMessage /\ Asks' = Asks
    BY <1>1, <1>2, AsksFacts DEF AbstractMessage
  <2>. QED
    BY <1>1, <2>1, <2>2, ProviderTurn DEF Abstract!Replies, Asks, AbstractMessage
<1>4. Budget' = Budget - 1
  BY <1>1, ProviderTurn DEF Budget
<1>5. Pending' = <<>>
  BY <1>1 DEF Pending, InTools, ToolWaits
<1>. QED  BY <1>1, <1>3, <1>4, <1>5 DEF Abstract!ModelReplies

LEMMA ModelCallsToolsRefines ==
  ASSUME FlowInv, TurnInv, NEW cs \in ToolCallLists, ModelCallsTools(cs)
  PROVE  Abstract!ModelReplies(cs) \/ Abstract!ModelRepliesMalformed(cs)
<1>1. /\ pc = "provider"
      /\ history' = Append(history, AssistantEntry(cs))
      /\ calls' = cs /\ answered' = 0
      /\ UNCHANGED <<registered, maxRounds, round, sent, effects, message>>
  BY DEF ModelCallsTools
<1>2. outcome = "running" /\ outcome' # "reply"
  BY <1>1 DEF FlowInv, EndInv, ModelCallsTools
<1>3. Abstract!Replies(cs)
  <2>1. AssistantEntry(cs) = Abstract!Entry("assistant", cs, NoArg, "text")
    BY DEF AssistantEntry, Abstract!Entry
  <2>2. AbstractMessage' = AbstractMessage /\ Asks' = Asks
    BY <1>1, <1>2, AsksFacts DEF AbstractMessage
  <2>. QED
    BY <1>1, <2>1, <2>2, ProviderTurn DEF Abstract!Replies, Asks, AbstractMessage
<1>4. cs \in Seq(Calls) /\ DOMAIN cs = 1 .. Len(cs)
  BY CallListFacts, LenProperties
<1>5. CASE pc' = "tools" /\ outcome' = outcome
  <2>1. Pending' = cs
    <3>1. Pending' = SubSeq(cs, 0 + 1, Len(cs))
      BY <1>1, <1>5 DEF Pending, InTools
    <3>2. 0 + 1 = 1
      OBVIOUS
    <3>. QED  BY <1>4, <3>1, <3>2, SubSeqFull
  <2>2. Budget' = Budget - 1
    BY <1>1, <1>5, ProviderTurn DEF Budget
  <2>. QED  BY <1>3, <1>5, <2>1, <2>2 DEF Abstract!ModelReplies
<1>6. CASE /\ \E j \in 1 .. Len(cs) : cs[j].arg = Malformed
           /\ pc' = "end" /\ outcome' = "raised"
  <2>1. Pending' = <<>> /\ Budget' = 0
    BY <1>6 DEF Pending, InTools, ToolWaits, Budget
  <2>. QED
    BY <1>3, <1>4, <1>6, <2>1 DEF Abstract!ModelRepliesMalformed, Abstract!Ends
<1>. QED  BY <1>5, <1>6 DEF ModelCallsTools

\* What the current call asks.
LEMMA CurrentAsks ==
  ASSUME FlowInv, InTools
  PROVE  /\ Pending # <<>> /\ Abstract!Current = Current
         /\ Asks[Abstract!Current] = Route(Current)
         /\ \A via : Abstract!Request(via) = Request(via)
<1>1. Abstract!Current = Current /\ Current \in Calls /\ Pending # <<>>
  BY PendingFacts, CurrentFacts DEF Abstract!Current
<1>2. Asks[Abstract!Current] = Route(Current)
  BY <1>1, AsksFacts
<1>. QED  BY <1>1, <1>2 DEF Abstract!Request, Request, Asks

LEMMA SendRefines ==
  ASSUME FlowInv, NEW via \in {"ws", "http"}, Send(via)
  PROVE  Abstract!Sends(via)
<1>1. /\ pc = via /\ pc' \in {"wsWait", "httpWait"}
      /\ sent' = sent \cup {Request(via)}
      /\ UNCHANGED <<registered, maxRounds, round, history, calls, answered, effects,
                     outcome, message>>
  BY DEF Send
<1>2. pc \in ToolWaits /\ InTools /\ pc' \in ToolWaits
  BY <1>1 DEF InTools, ToolWaits
<1>3. Asks[Abstract!Current].kind # "local"
  BY <1>2, CurrentAsks DEF FlowInv, WorkInv
<1>4. Pending' = Pending /\ Budget' = Budget
  BY <1>1, <1>2 DEF Pending, InTools, Budget, ToolWaits
<1>5. AbstractMessage' = AbstractMessage /\ Asks' = Asks
  BY <1>1, AsksFacts DEF AbstractMessage
<1>. QED
  BY <1>1, <1>2, <1>3, <1>4, <1>5, CurrentAsks DEF Abstract!Sends, Asks, AbstractMessage

LEMMA ServerRunsRefines ==
  ASSUME NEW r \in sent, ServerRuns(r)
  PROVE  Abstract!ServerRuns(r)
<1>1. /\ effects' = effects \cup {r}
      /\ UNCHANGED <<registered, maxRounds, pc, round, history, calls, answered, sent,
                     outcome, message>>
  BY DEF ServerRuns
<1>2. Pending' = Pending /\ Budget' = Budget
  BY <1>1 DEF Pending, InTools, Budget
<1>3. AbstractMessage' = AbstractMessage /\ Asks' = Asks
  BY <1>1, AsksFacts DEF AbstractMessage
<1>. QED  BY <1>1, <1>2, <1>3 DEF Abstract!ServerRuns, Asks, AbstractMessage

LEMMA AnswerRefines ==
  ASSUME FlowInv, InTools, NEW content, Answer(content), UNCHANGED <<sent, effects>>,
         Abstract!MayAnswer(content)
  PROVE  Abstract!Answers(content)
<1>1. /\ history' = Append(history, ToolEntry(Current.tool, content))
      /\ answered' = answered + 1
      /\ pc' = IF answered + 1 = Len(calls) THEN "loop" ELSE "tools"
      /\ UNCHANGED <<registered, maxRounds, round, calls, outcome, message>>
  BY DEF Answer
<1>2. ToolEntry(Current.tool, content)
        = Abstract!Entry("tool", <<>>, Abstract!Current.tool, content)
  BY CurrentAsks DEF ToolEntry, Abstract!Entry
<1>3. answered \in Nat /\ Len(calls) \in Nat
  BY CallListFacts DEF FlowInv, TypeOK, WorkInv
<1>4. Pending' = Tail(Pending)
  <2>1. Tail(Pending) = SubSeq(calls, answered + 2, Len(calls))
    BY PendingFacts
  <2>2. CASE answered + 1 = Len(calls)
    <3>1. Pending' = <<>>
      BY <1>1, <2>2 DEF Pending, InTools, ToolWaits
    <3>2. answered + 2 \in Int /\ Len(calls) \in Int /\ Len(calls) < answered + 2
      BY <1>3, <2>2
    <3>. QED  BY <2>1, <3>1, <3>2, SubSeqEmpty
  <2>3. CASE answered + 1 # Len(calls)
    <3>1. Pending' = SubSeq(calls, answered + 1 + 1, Len(calls))
      BY <1>1, <2>3 DEF Pending, InTools
    <3>2. answered + 1 + 1 = answered + 2
      BY <1>3
    <3>. QED  BY <2>1, <3>1, <3>2
  <2>. QED  BY <2>2, <2>3
<1>5. Budget' = Budget
  BY <1>1 DEF Budget, InTools, ToolWaits
<1>6. AbstractMessage' = AbstractMessage /\ Asks' = Asks
  BY <1>1, AsksFacts DEF AbstractMessage
<1>. QED
  BY <1>1, <1>2, <1>4, <1>5, <1>6, CurrentAsks DEF Abstract!Answers, Asks, AbstractMessage

\* Each answer of the flow is one that its call may have.
LEMMA AnsweringRefines ==
  ASSUME FlowInv,
         AnswerLocally \/ RestListAnswers \/ HttpFails
           \/ \E via \in {"ws", "http"} : Result(via)
  PROVE  \E content \in {"local", "ws", "http", "error"} : Abstract!Answers(content)
<1>1. CASE AnswerLocally
  <2>1. InTools /\ Answer("local") /\ UNCHANGED <<sent, effects>>
    BY <1>1 DEF AnswerLocally, InTools
  <2>2. Abstract!MayAnswer("local")
    BY <1>1, <2>1, CurrentAsks DEF AnswerLocally, Abstract!MayAnswer, Asks
  <2>. QED  BY <2>1, <2>2, AnswerRefines
<1>2. CASE RestListAnswers
  <2>1. InTools /\ Answer("http") /\ UNCHANGED <<sent, effects>>
    BY <1>2 DEF RestListAnswers, InTools, ToolWaits
  <2>2. Route(Current).kind = "list"
    BY <1>2 DEF RestListAnswers, FlowInv, WorkInv, InTools, ToolWaits
  <2>3. Abstract!MayAnswer("http")
    BY <2>1, <2>2, CurrentAsks DEF Abstract!MayAnswer, Asks
  <2>. QED  BY <2>1, <2>3, AnswerRefines
<1>3. CASE HttpFails
  <2>1. pc \in ToolWaits /\ InTools /\ Answer("error") /\ UNCHANGED <<sent, effects>>
    BY <1>3 DEF HttpFails, InTools, ToolWaits
  <2>2. Route(Current).kind # "local"
    BY <2>1 DEF FlowInv, WorkInv
  <2>3. Abstract!MayAnswer("error")
    BY <2>1, <2>2, CurrentAsks DEF Abstract!MayAnswer, Asks
  <2>. QED  BY <2>1, <2>3, AnswerRefines
<1>4. ASSUME NEW via \in {"ws", "http"}, Result(via)
      PROVE  \E content \in {"local", "ws", "http", "error"} : Abstract!Answers(content)
  <2>1. /\ InTools /\ Answer(via) /\ UNCHANGED <<sent, effects>>
        /\ Request(via) \in effects
    BY <1>4 DEF Result, InTools, ToolWaits
  <2>2. Abstract!MayAnswer(via)
    BY <2>1, CurrentAsks DEF Abstract!MayAnswer
  <2>. QED  BY <2>1, <2>2, AnswerRefines
<1>. QED  BY <1>1, <1>2, <1>3, <1>4

LEMMA EndingRefines ==
  ASSUME FlowInv, TurnInv, Close \/ CloseRaises \/ ProviderFails \/ Timeout
  PROVE  Abstract!Returns \/ \E how \in {"raised", "error", "timeout"} : Abstract!Breaks(how)
<1>1. /\ pc' = "end" /\ pc # "end"
      /\ UNCHANGED <<registered, maxRounds, round, history, calls, answered, sent,
                     effects, message>>
  BY DEF Close, CloseRaises, ProviderFails, Timeout, ToolWaits
<1>2. Pending' = <<>> /\ Budget' = 0 /\ outcome = "running" /\ Asks' = Asks
  BY <1>1, AsksFacts DEF Pending, InTools, ToolWaits, Budget, FlowInv, EndInv
<1>3. CASE Close
  <2>1. AbstractMessage' = Len(history) /\ outcome' = "reply"
    BY <1>1, <1>3, ClosingTurn DEF Close, AbstractMessage
  <2>. QED
    BY <1>1, <1>2, <1>3, <2>1, ClosingTurn
    DEF Close, Abstract!Returns, Abstract!Ends, Asks, AbstractMessage
<1>4. ASSUME NEW how \in {"raised", "error", "timeout"}, outcome' = how,
             how = "raised" => pc = "closing", how = "error" => pc = "provider"
      PROVE  Abstract!Breaks(how)
  <2>1. AbstractMessage' = AbstractMessage
    BY <1>2, <1>4 DEF AbstractMessage
  <2>2. how = "raised" => Pending = <<>> /\ Abstract!Over
    BY <1>4, ClosingTurn DEF Abstract!NothingPending
  <2>3. how = "error" => Pending = <<>> /\ ~ Abstract!Over
    BY <1>4, ProviderTurn DEF Abstract!NothingPending
  <2>. QED
    BY <1>1, <1>2, <1>4, <2>1, <2>2, <2>3
    DEF Abstract!Breaks, Abstract!Ends, Asks, AbstractMessage
<1>5. CASE CloseRaises
  BY <1>4, <1>5 DEF CloseRaises
<1>6. CASE ProviderFails
  BY <1>4, <1>6 DEF ProviderFails
<1>7. CASE Timeout
  BY <1>4, <1>7 DEF Timeout
<1>. QED  BY <1>3, <1>5, <1>6, <1>7

LEMMA StepRefines ==
  FlowInv /\ TurnInv /\ [Next]_vars => [Abstract!Next]_(Abstract!vars)
<1>. SUFFICES ASSUME FlowInv, TurnInv, [Next]_vars
              PROVE  Abstract!Next \/ UNCHANGED Abstract!vars
  OBVIOUS
<1>1. CASE UNCHANGED vars
  BY <1>1, Hidden DEF vars, Budget, Pending, InTools
<1>2. CASE StartRound \/ RoundsExhausted
  <2>1. /\ UNCHANGED <<registered, history, sent, effects, outcome>>
        /\ outcome = "running"
    BY <1>2 DEF StartRound, RoundsExhausted, FlowInv, EndInv
  <2>2. Pending' = Pending
    BY <1>2 DEF StartRound, RoundsExhausted, Pending, InTools, ToolWaits
  <2>3. Budget' = Budget
    BY <1>2 DEF StartRound, RoundsExhausted, Budget, FlowInv, TypeOK
  <2>. QED  BY <2>1, <2>2, <2>3, Hidden
<1>3. CASE StartCall \/ RestListFails \/ WsFallback
  <2>1. /\ UNCHANGED <<registered, maxRounds, round, history, calls, answered, sent,
                       effects, outcome, message>>
        /\ pc \in {"tools"} \cup ToolWaits /\ pc' \in {"tools"} \cup ToolWaits
    BY <1>3 DEF StartCall, RestListFails, WsFallback, FirstTransport, ToolWaits
  <2>2. Pending' = Pending /\ Budget' = Budget
    BY <2>1 DEF Pending, InTools, Budget, ToolWaits
  <2>. QED  BY <2>1, <2>2, Hidden
<1>4. CASE ModelReplies
  BY <1>4, ModelRepliesRefines DEF Abstract!Next
<1>5. ASSUME NEW cs \in ToolCallLists, ModelCallsTools(cs) PROVE Abstract!Next
  BY <1>5, ModelCallsToolsRefines DEF Abstract!Next
<1>6. CASE \/ AnswerLocally \/ RestListAnswers \/ HttpFails
           \/ \E via \in {"ws", "http"} : Result(via)
  BY <1>6, AnsweringRefines DEF Abstract!Next
<1>7. ASSUME NEW via \in {"ws", "http"}, Send(via) PROVE Abstract!Next
  BY <1>7, SendRefines DEF Abstract!Next
<1>8. ASSUME NEW r \in sent, ServerRuns(r) PROVE Abstract!Next
  BY <1>8, ServerRunsRefines DEF Abstract!Next
<1>9. CASE Close \/ CloseRaises \/ ProviderFails \/ Timeout
  BY <1>9, EndingRefines DEF Abstract!Next
<1>. QED
  BY <1>1, <1>2, <1>3, <1>4, <1>5, <1>6, <1>7, <1>8, <1>9 DEF Next, Flow

\* Behind transports, fallback and waits there is the conversation that the
\* caller is promised.
THEOREM ConversationImplemented == Spec => ConversationRefined
BY InitRefines, StepRefines, FlowInvariant, TurnInvariant, PTL
DEF Spec, ConversationRefined, Abstract!Spec

-----------------------------------------------------------------------------
(* Where answers may be missing *)

EndsMalformed(i) ==
  /\ i = Len(history)
  /\ \E j \in DOMAIN history[i].calls : history[i].calls[j].arg = Malformed

RaisedInv == outcome = "raised" =>
  \A i \in 1 .. Len(history) : IsAssistant(i) => AnsweredAll(i) \/ EndsMalformed(i)

LEMMA NextRaisedInv == FlowInv /\ RaisedInv /\ [Next]_vars => RaisedInv'
<1>. SUFFICES ASSUME FlowInv, RaisedInv, [Next]_vars, outcome' = "raised" PROVE RaisedInv'
  BY DEF RaisedInv
<1>1. ASSUME outcome' = outcome, history' = history PROVE RaisedInv'
  <2>1. \A i : IsAssistant(i)' <=> IsAssistant(i)
    BY <1>1 DEF IsAssistant
  <2>2. \A i : AnsweredAll(i)' <=> AnsweredAll(i)
    BY <1>1 DEF AnsweredAll, Answers
  <2>3. \A i : EndsMalformed(i)' <=> EndsMalformed(i)
    BY <1>1 DEF EndsMalformed
  <2>. QED  BY <1>1, <2>1, <2>2, <2>3 DEF RaisedInv
<1>2. CASE CloseRaises
  <2>1. history' = history /\ outcome = "running" /\ ~ InTools
    BY <1>2 DEF CloseRaises, FlowInv, EndInv, InTools, ToolWaits
  <2>2. \A i \in 1 .. Len(history) : IsAssistant(i) => AnsweredAll(i)
    BY <2>1 DEF FlowInv, HistoryInv
  <2>3. \A i : (IsAssistant(i)' <=> IsAssistant(i)) /\ (AnsweredAll(i)' <=> AnsweredAll(i))
    BY <2>1 DEF IsAssistant, AnsweredAll, Answers
  <2>. QED  BY <2>1, <2>2, <2>3 DEF RaisedInv
<1>3. ASSUME NEW cs \in ToolCallLists, ModelCallsTools(cs) PROVE RaisedInv'
  <2>1. /\ history' = Append(history, AssistantEntry(cs)) /\ registered' = registered
        /\ pc = "provider" /\ outcome = "running" /\ ~ InTools
        /\ history \in Seq(Entries)
    BY <1>3 DEF ModelCallsTools, FlowInv, TypeOK, EndInv, InTools, ToolWaits
  <2>2. \E j \in 1 .. Len(cs) : cs[j].arg = Malformed
    BY <1>3, <2>1 DEF ModelCallsTools
  <2>3. \A i \in 1 .. Len(history) : IsAssistant(i) => AnsweredAll(i)
    BY <2>1 DEF FlowInv, HistoryInv
  <2>4. DOMAIN cs = 1 .. Len(cs)
    BY CallListFacts, LenProperties
  <2>5. /\ Len(history) + 1 = Len(history')
        /\ \E j \in DOMAIN history'[Len(history) + 1].calls :
             history'[Len(history) + 1].calls[j].arg = Malformed
    <3>1. /\ Len(history') = Len(history) + 1
          /\ history'[Len(history) + 1] = AssistantEntry(cs)
      BY <2>1, AssistantEntryFacts, Appended
    <3>2. history'[Len(history) + 1].calls = cs
      BY <3>1, AssistantEntryFacts
    <3>3. PICK j \in DOMAIN cs : cs[j].arg = Malformed
      BY <2>2, <2>4
    <3>4. j \in DOMAIN history'[Len(history) + 1].calls
      BY <3>2, <3>3
    <3>5. history'[Len(history) + 1].calls[j].arg = Malformed
      BY <3>2, <3>3
    <3>. QED  BY <3>1, <3>4, <3>5
  <2>6. ASSUME NEW i \in 1 .. Len(history), IsAssistant(i)' PROVE AnsweredAll(i)'
    <3>1. IsAssistant(i) /\ AnsweredAll(i)
      BY <2>1, <2>3, <2>6, AssistantEntryFacts, Appended
    <3>. QED
      BY <2>1, <2>6, <3>1, AssistantEntryFacts, Appended
  <2>7. Len(history) \in Nat
    BY <2>1, LenProperties
  <2>8. SUFFICES ASSUME NEW i \in 1 .. Len(history'), IsAssistant(i)'
                 PROVE  \/ AnsweredAll(i)'
                        \/ /\ i = Len(history')
                           /\ \E j \in DOMAIN history'[i].calls :
                                history'[i].calls[j].arg = Malformed
    BY DEF RaisedInv, EndsMalformed
  <2>9. CASE i \in 1 .. Len(history)
    BY <2>6, <2>8, <2>9
  <2>10. CASE i = Len(history) + 1
    BY <2>5, <2>10
  <2>. QED  BY <2>5, <2>7, <2>9, <2>10
<1>4. CASE \/ StartRound \/ RoundsExhausted \/ ProviderFails \/ Close \/ StartCall
           \/ RestListFails \/ WsFallback \/ (\E via \in {"ws", "http"} : Send(via))
           \/ Timeout \/ (\E r \in sent : ServerRuns(r)) \/ UNCHANGED vars
  BY <1>1, <1>4 DEF StartRound, RoundsExhausted, ProviderFails, Close, StartCall,
     RestListFails, WsFallback, Send, Timeout, ServerRuns, vars
<1>5. CASE ModelReplies
  BY <1>5 DEF ModelReplies, FlowInv, EndInv
<1>6. ASSUME NEW content, InTools, Answer(content) PROVE FALSE
  BY <1>6 DEF Answer, FlowInv, EndInv, InTools, ToolWaits
<1>7. CASE \/ AnswerLocally \/ RestListAnswers \/ HttpFails
           \/ \E via \in {"ws", "http"} : Result(via)
  BY <1>6, <1>7 DEF AnswerLocally, RestListAnswers, HttpFails, Result, InTools, ToolWaits
<1>. QED  BY <1>2, <1>3, <1>4, <1>5, <1>7 DEF Next, Flow

-----------------------------------------------------------------------------
(* How long a flow may be *)

\* Rounds that may still begin; what a round takes at most; and where in its
\* round the flow is, in steps to the next one.
Left == IF round < maxRounds THEN maxRounds - round ELSE 0

PerRound == 6 * MaxCalls + 2

Phase ==
  CASE pc = "end" -> 0
    [] pc = "closing" -> 1
    [] pc = "loop" -> 2
    [] pc = "provider" -> 6 * MaxCalls + 3
    [] pc = "tools" -> 6 * (Len(calls) - answered) + 2
    [] pc = "rest" -> 6 * (Len(calls) - answered) + 1
    [] pc = "ws" -> 6 * (Len(calls) - answered)
    [] pc = "wsWait" -> 6 * (Len(calls) - answered) - 1
    [] pc = "http" -> 6 * (Len(calls) - answered) - 2
    [] pc = "httpWait" -> 6 * (Len(calls) - answered) - 3

Rank == Left * PerRound + Phase

LEMMA CallListBound ==
  ASSUME NEW cs \in ToolCallLists PROVE Len(cs) \in 1 .. MaxCalls
<1>1. PICK n \in 1 .. MaxCalls : cs \in [1 .. n -> Calls]
  BY DEF ToolCallLists
<1>2. n \in Nat
  BY BoundsAssumption
<1>3. Len(cs) = n
  BY <1>1, <1>2, SeqDef, LenProperties
<1>. QED  BY <1>1, <1>3

PhaseOK == Phase \in Nat /\ Left \in Nat

LEMMA PhaseType == FlowInv => PhaseOK
<1>. SUFFICES ASSUME FlowInv PROVE Phase \in Nat /\ Left \in Nat
  BY DEF PhaseOK
<1>1. MaxCalls \in Nat /\ round \in Nat /\ maxRounds \in Int /\ answered \in Nat
  BY BoundsAssumption DEF FlowInv, TypeOK
<1>2. Left \in Nat
  BY <1>1 DEF Left
<1>3. CASE InTools
  <2>1. Len(calls) \in Nat /\ answered < Len(calls)
    BY <1>3, CallListFacts DEF FlowInv, WorkInv
  <2>2. \A k \in -3 .. 2 : 6 * (Len(calls) - answered) + k \in Nat
    BY <1>1, <2>1
  <2>3. \E k \in -3 .. 2 : Phase = 6 * (Len(calls) - answered) + k
    <3>1. \/ pc = "tools" /\ Phase = 6 * (Len(calls) - answered) + 2
          \/ pc = "rest" /\ Phase = 6 * (Len(calls) - answered) + 1
          \/ pc = "ws" /\ Phase = 6 * (Len(calls) - answered)
          \/ pc = "wsWait" /\ Phase = 6 * (Len(calls) - answered) - 1
          \/ pc = "http" /\ Phase = 6 * (Len(calls) - answered) - 2
          \/ pc = "httpWait" /\ Phase = 6 * (Len(calls) - answered) - 3
      BY <1>3 DEF Phase, InTools, ToolWaits
    <3>2. 6 * (Len(calls) - answered) \in Int
      BY <1>1, <2>1
    <3> DEFINE a == 6 * (Len(calls) - answered)
    <3>3. \/ Phase = a + 2 \/ Phase = a + 1 \/ Phase = a
          \/ Phase = a - 1 \/ Phase = a - 2 \/ Phase = a - 3
      BY <3>1
    <3>4. a \in Int
      BY <3>2
    <3>. HIDE DEF a
    <3>5. \E k \in -3 .. 2 : Phase = a + k
      BY <3>3, <3>4
    <3>. QED  BY <3>5 DEF a
  <2>4. Phase \in Nat
    BY <2>2, <2>3
  <2>. QED  BY <1>2, <2>4
<1>4. CASE ~ InTools
  <2>1. pc \in {"loop", "provider", "closing", "end"}
    BY <1>4 DEF InTools, ToolWaits, FlowInv, TypeOK
  <2>2. Phase \in Nat
    BY <1>1, <2>1 DEF Phase
  <2>. QED  BY <1>2, <2>2
<1>. QED  BY <1>3, <1>4

LEMMA RankType == ASSUME FlowInv PROVE Rank \in Nat
<1>1. PerRound \in Nat
  BY BoundsAssumption DEF PerRound
<1>2. \A m, n \in Nat : m * n \in Nat
  OBVIOUS
<1>3. Left * PerRound \in Nat
  BY <1>1, <1>2, PhaseType DEF PhaseOK
<1>. QED  BY <1>3, PhaseType DEF Rank, PhaseOK

\* A step within a round.
LEMMA SameRound ==
  ASSUME FlowInv, FlowInv', UNCHANGED <<round, maxRounds>>, Phase' < Phase
  PROVE  Rank' < Rank
<1>1. Left' = Left /\ PerRound' = PerRound
  BY DEF Left, PerRound
<1>2. Phase \in Nat /\ Left \in Nat
  BY PhaseType DEF PhaseOK
<1>3. Phase' \in Nat
  <2>1. FlowInv' => PhaseOK'
    BY PhaseType, PTL
  <2>. QED  BY <2>1 DEF PhaseOK
<1>4. PerRound \in Nat
  BY BoundsAssumption DEF PerRound
<1>5. \A m, n \in Nat : m * n \in Nat
  OBVIOUS
<1>6. Left * PerRound \in Nat
  BY <1>2, <1>4, <1>5
<1> DEFINE a == Left * PerRound
<1>7. Rank = a + Phase /\ Rank' = a + Phase' /\ a \in Nat
  BY <1>1, <1>6 DEF Rank
<1> DEFINE b == Phase  c == Phase'
<1>8. b \in Nat /\ c \in Nat /\ c < b /\ Rank = a + b /\ Rank' = a + c
  BY <1>2, <1>3, <1>7
<1>. HIDE DEF a, b, c
<1>. QED  BY <1>7, <1>8

LEMMA NewRound ==
  ASSUME FlowInv, StartRound PROVE Rank' < Rank
<1>1. /\ MaxCalls \in Nat /\ round \in Nat /\ maxRounds \in Int
      /\ round < maxRounds /\ round' = round + 1 /\ maxRounds' = maxRounds
  BY BoundsAssumption DEF StartRound, FlowInv, TypeOK
<1>2. Left \in Nat /\ Left' \in Nat /\ Left = Left' + 1
  BY <1>1 DEF Left
<1>3. Phase = 2 /\ Phase' = 6 * MaxCalls + 3
  BY DEF StartRound, Phase
<1>4. PerRound = 6 * MaxCalls + 2 /\ PerRound' = PerRound /\ PerRound \in Nat
  BY <1>1 DEF PerRound
<1>5. \A m, n \in Nat : (m + 1) * n = m * n + n /\ m * n \in Nat
  OBVIOUS
<1>6. Left * PerRound = Left' * PerRound + PerRound /\ Left' * PerRound \in Nat
  BY <1>2, <1>4, <1>5
<1> DEFINE a == Left' * PerRound
<1>7. Rank = a + PerRound + 2 /\ Rank' = a + Phase' /\ a \in Nat
  BY <1>3, <1>4, <1>6 DEF Rank
<1>. HIDE DEF a
<1>. QED  BY <1>1, <1>3, <1>4, <1>7

LEMMA RankFalls == ASSUME FlowInv, FlowInv', Flow \/ Timeout PROVE Rank' < Rank
<1>1. /\ MaxCalls \in Nat /\ answered \in Nat
      /\ InTools => Len(calls) \in Nat /\ answered < Len(calls)
  BY BoundsAssumption, CallListFacts DEF FlowInv, TypeOK, WorkInv
<1>2. CASE RoundsExhausted \/ ProviderFails \/ Close \/ CloseRaises \/ ModelReplies
  <2>1. Phase' < Phase
    BY <1>1, <1>2 DEF RoundsExhausted, ProviderFails, Close, CloseRaises, ModelReplies,
       Phase
  <2>. QED
    BY <1>2, <2>1, SameRound DEF RoundsExhausted, ProviderFails, Close, CloseRaises,
       ModelReplies
<1>3. ASSUME NEW cs \in ToolCallLists, ModelCallsTools(cs) PROVE Rank' < Rank
  <2>1. Len(cs) \in Nat /\ Len(cs) <= MaxCalls
    BY <1>1, CallListBound
  <2>2. Phase = 6 * MaxCalls + 3
    BY <1>3 DEF ModelCallsTools, Phase
  <2>3. Phase' = 0 \/ Phase' = 6 * (Len(cs) - 0) + 2
    BY <1>3 DEF ModelCallsTools, Phase
  <2>4. Phase' < Phase
    BY <1>1, <2>1, <2>2, <2>3
  <2>. QED  BY <1>3, <2>4, SameRound DEF ModelCallsTools
<1>4. ASSUME NEW content, InTools, Answer(content) PROVE Rank' < Rank
  <2>1. /\ answered' = answered + 1 /\ calls' = calls
        /\ pc' = IF answered + 1 = Len(calls) THEN "loop" ELSE "tools"
    BY <1>4 DEF Answer
  <2>2. Phase' = 6 * (Len(calls) - (answered + 1)) + 2
    BY <1>1, <1>4, <2>1 DEF Phase
  <2>3. Phase >= 6 * (Len(calls) - answered) - 3
    BY <1>1, <1>4 DEF Phase, InTools, ToolWaits
  <2>4. Phase \in Nat
    BY PhaseType DEF PhaseOK
  <2>5. Phase' < Phase
    BY <1>1, <1>4, <2>2, <2>3, <2>4
  <2>. QED  BY <1>4, <2>5, SameRound DEF Answer
<1>5. CASE \/ AnswerLocally \/ RestListAnswers \/ HttpFails
           \/ \E via \in {"ws", "http"} : Result(via)
  BY <1>4, <1>5 DEF AnswerLocally, RestListAnswers, HttpFails, Result, InTools, ToolWaits
<1>6. CASE StartCall \/ RestListFails \/ WsFallback \/ \E via \in {"ws", "http"} : Send(via)
  <2>1. Phase' < Phase
    BY <1>1, <1>6 DEF StartCall, RestListFails, WsFallback, Send, FirstTransport, Phase,
       InTools, ToolWaits
  <2>. QED
    BY <1>6, <2>1, SameRound DEF StartCall, RestListFails, WsFallback, Send
<1>7. CASE Timeout
  <2>1. Phase' = 0 /\ Phase # 0
    BY <1>1, <1>7 DEF Timeout, Phase, InTools, ToolWaits
  <2>2. Phase' < Phase
    BY <2>1, PhaseType DEF PhaseOK
  <2>. QED  BY <1>7, <2>2, SameRound DEF Timeout
<1>. QED  BY <1>2, <1>3, <1>5, <1>6, <1>7, NewRound DEF Flow

-----------------------------------------------------------------------------
(* The theorems *)

\* The variables keep their types: no call list, position or request is ever
\* read outside what the flow has recorded.
THEOREM TypeCorrect == Spec => []TypeOK
<1>1. FlowInv => TypeOK
  BY DEF FlowInv
<1>. QED  BY <1>1, FlowInvariant, PTL

\* Every tool call of a reply is followed by its tool message, in the order of
\* the calls, before the next reply; only the last reply may miss answers.
THEOREM CallsAnsweredInOrder == Spec => []AnsweredInOrder
<1>1. ASSUME FlowInv PROVE AnsweredInOrder
  <2>1. DOMAIN history = 1 .. Len(history)
    BY <1>1, LenProperties DEF FlowInv, TypeOK
  <2>2. InTools => outcome = "running"
    BY <1>1 DEF FlowInv, EndInv, InTools, ToolWaits
  <2>. QED
    BY <1>1, <2>1, <2>2 DEF FlowInv, HistoryInv, AnsweredInOrder, Base, AnsweredSoFar
<1>. QED  BY <1>1, FlowInvariant, PTL

\* What a server has run for the model is in the history as a tool message,
\* unless the call is still running or the timer cut it off.
THEOREM EffectsAreRecorded == Spec => []EffectsRecorded
<1>1. ASSUME FlowInv PROVE EffectsRecorded
  <2>. SUFFICES ASSUME NEW r \in effects
                PROVE  \/ r.at <= Len(history) /\ history[r.at].role = "tool"
                       \/ /\ r.at = Len(history) + 1
                          /\ pc \in ToolWaits \/ outcome = "timeout"
    BY DEF EffectsRecorded
  <2>1. r \in sent
    BY <1>1 DEF FlowInv, TypeOK
  <2>2. Len(history) \in Nat
    BY <1>1, LenProperties DEF FlowInv, TypeOK
  <2>. QED
    BY <1>1, <2>1, <2>2 DEF FlowInv, SentInv, SettledRequest, OpenRequest
<1>. QED  BY <1>1, FlowInvariant, PTL

\* In session mode a command runs only where the registry sends the name that
\* the model used.
THEOREM OnlyRegistered == Spec => []OnlyRegisteredCommandsRun
<1>1. ASSUME FlowInv PROVE OnlyRegisteredCommandsRun
  <2>1. \A r \in effects : r \in sent
    BY <1>1 DEF FlowInv, TypeOK
  <2>2. Len(history) \in Nat
    BY <1>1, LenProperties DEF FlowInv, TypeOK
  <2>3. \A r \in sent : r.at <= Len(history) => SettledRequest(r)
    BY <1>1, <2>2 DEF FlowInv, SentInv, OpenRequest
  <2>. QED  BY <2>1, <2>3 DEF OnlyRegisteredCommandsRun, SettledRequest
<1>. QED  BY <1>1, FlowInvariant, PTL

\* Once the model has the WebSocket's result, the command is not sent over HTTP.
THEOREM DeliveredOnce == Spec => []DeliveredCallNotRepeated
<1>1. ASSUME FlowInv PROVE DeliveredCallNotRepeated
  <2>1. Len(history) \in Nat
    BY <1>1, LenProperties DEF FlowInv, TypeOK
  <2>2. \A r \in sent : r.at <= Len(history) => SettledRequest(r)
    BY <1>1, <2>1 DEF FlowInv, SentInv, OpenRequest
  <2>. QED  BY <2>2 DEF DeliveredCallNotRepeated, SettledRequest
<1>. QED  BY <1>1, FlowInvariant, PTL

\* No more replies than max_tool_rounds are asked of the provider, and none when
\* it is not positive.
THEOREM RoundsBounded == Spec => []RoundBudget
<1>1. ASSUME FlowInv, RoundInv PROVE RoundBudget
  <2>1. Cardinality(Replies) \in Nat /\ round \in Nat /\ maxRounds \in Int
    BY <1>1, RepliesFacts DEF FlowInv, TypeOK
  <2>2. Cardinality(Replies) <= round
    BY <1>1, <2>1 DEF RoundInv
  <2>3. Cardinality(Replies) > 0 => Cardinality(Replies) <= maxRounds
    BY <1>1, <2>1, <2>2 DEF RoundInv
  <2>. QED  BY <2>3 DEF RoundBudget, Replies
<1>2. Spec => []RoundInv
  BY InitRoundInv, NextRoundInv, FlowInvariant, PTL DEF Spec
<1>. QED  BY <1>1, <1>2, FlowInvariant, PTL

\* A flow is finite by itself, without its timer and whatever the servers do: each
\* of its steps brings it closer to its end, from which it is never more than Rank
\* steps away (FlowEnds is its liveness).
EachStepCounts ==
  [][/\ Flow \/ Timeout => Rank' < Rank
     /\ (\E r \in sent : ServerRuns(r)) => Rank' = Rank]_vars

THEOREM StepsBounded == Spec => [](Rank \in Nat) /\ EachStepCounts
<1>1. FlowInv => Rank \in Nat
  BY RankType
<1>2. ASSUME FlowInv, [Next]_vars
      PROVE  [/\ Flow \/ Timeout => Rank' < Rank
              /\ (\E r \in sent : ServerRuns(r)) => Rank' = Rank]_vars
  <2>1. FlowInv'
    BY <1>2, NextFlowInv
  <2>2. (\E r \in sent : ServerRuns(r)) => Rank' = Rank
    BY DEF ServerRuns, Rank, Left, PerRound, Phase
  <2>. QED  BY <1>2, <2>1, <2>2, RankFalls
<1>. QED  BY <1>1, <1>2, FlowInvariant, PTL DEF Spec, EachStepCounts

\* The only call that is left unanswered without the timer is of a reply with
\* malformed arguments, at the end of a flow that raised.
MalformedOnly ==
  outcome \in {"reply", "error", "raised"} =>
    \A i \in DOMAIN history : IsAssistant(i) => AnsweredAll(i) \/ EndsMalformed(i)

THEOREM UnansweredOnlyIfMalformed == Spec => []MalformedOnly
<1>1. ASSUME FlowInv, RaisedInv PROVE MalformedOnly
  <2>1. DOMAIN history = 1 .. Len(history)
    BY <1>1, LenProperties DEF FlowInv, TypeOK
  <2>2. outcome # "running" => ~ InTools
    BY <1>1 DEF FlowInv, EndInv, InTools, ToolWaits
  <2>. QED  BY <1>1, <2>1, <2>2 DEF FlowInv, HistoryInv, RaisedInv, MalformedOnly
<1>2. Init => RaisedInv
  BY DEF Init, RaisedInv
<1>. QED  BY <1>1, <1>2, NextRaisedInv, FlowInvariant, PTL DEF Spec

\* So what standards.md 3 asks is what the code does with a model whose arguments
\* are always objects.
THEOREM AnsweredInBandUnlessMalformed ==
  ASSUME \A c \in Calls : c.arg # Malformed
  PROVE  Spec => []ErrorsAnsweredInBand
<1>1. ASSUME FlowInv, MalformedOnly PROVE ErrorsAnsweredInBand
  <2>. SUFFICES ASSUME NEW i \in DOMAIN history, EndsMalformed(i) PROVE FALSE
    BY <1>1 DEF MalformedOnly, ErrorsAnsweredInBand
  <2>1. history[i].calls \in {<<>>} \cup ToolCallLists
    <3>1. history \in Seq(Entries) /\ i \in 1 .. Len(history)
      BY <1>1, LenProperties DEF FlowInv, TypeOK
    <3>2. history[i] \in Entries
      BY <3>1, ElementOfSeq
    <3>. QED  BY <3>2 DEF Entries
  <2>2. PICK j \in DOMAIN history[i].calls : history[i].calls[j].arg = Malformed
    BY DEF EndsMalformed
  <2>3. history[i].calls \in ToolCallLists
    BY <2>1, <2>2
  <2>4. history[i].calls[j] \in Calls
    BY <2>2, <2>3, CallListFacts, LenProperties
  <2>. QED  BY <2>2, <2>4
<1>. QED  BY <1>1, UnansweredOnlyIfMalformed, FlowInvariant, PTL
=============================================================================
