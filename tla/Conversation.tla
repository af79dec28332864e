----------------------------- MODULE Conversation -----------------------------
(***************************************************************************)
(* What run_chat_flow promises its caller (chat_flow.py and the tests of   *)
(* its contract), whatever the transports, their fallback and the servers  *)
(* do: the model is asked within its budget, each of its calls is answered *)
(* in turn, a server's result only if a server has run that very call, and *)
(* nothing runs that the model has not called.                             *)
(*                                                                         *)
(* How a request gets to the proxy, how often it is tried, and what the    *)
(* flow is waiting for, is not to be seen here.                            *)
(***************************************************************************)
EXTENDS Integers, Sequences

CONSTANTS Calls,      \* the tool calls of a model
          CallLists,  \* the non-empty lists of calls that a reply may hold
          Malformed,  \* arguments that end the conversation
          NoArg,      \* no tool, no target
          Asked       \* what a call may ask of the servers: [kind, target]

VARIABLES asks,       \* what each call asks in this conversation
          budget,     \* how many replies may still be asked of the model;
                      \* none when the conversation has ended
          history,    \* the messages
          pending,    \* the calls of the last reply that are not answered
          sent,       \* requests that left
          effects,    \* requests that a server has run
          outcome,    \* how the conversation ended
          message     \* the position in the history that is returned

vars == <<asks, budget, history, pending, sent, effects, outcome, message>>

Entry(role, calls, tool, content) ==
  [role |-> role, calls |-> calls, tool |-> tool, content |-> content]

Init ==
  /\ asks \in [Calls -> Asked]
  /\ budget \in Int
  /\ history \in Seq({Entry("input", <<>>, NoArg, "text")}) /\ history # <<>>
  /\ pending = <<>>
  /\ sent = {} /\ effects = {}
  /\ outcome = "running" /\ message = 0

-----------------------------------------------------------------------------
(* The model has the turn when all calls are answered, and has had its     *)
(* last one when it replied with a text, or the budget is used up.         *)
NothingPending == outcome = "running" /\ pending = <<>>

Last == history[Len(history)]

Over == budget <= 0 \/ (Last.role = "assistant" /\ Last.calls = <<>>)

Replies(calls) ==
  /\ NothingPending /\ ~ Over
  /\ history' = Append(history, Entry("assistant", calls, NoArg, "text"))
  /\ UNCHANGED <<asks, sent, effects, message>>

ModelReplies(calls) ==
  /\ Replies(calls)
  /\ budget' = budget - 1
  /\ pending' = calls
  /\ UNCHANGED outcome

Ends(how) == outcome' = how /\ pending' = <<>> /\ budget' = 0

(* Arguments that are no object: the conversation ends with their reply.   *)
ModelRepliesMalformed(calls) ==
  /\ \E j \in DOMAIN calls : calls[j].arg = Malformed
  /\ Replies(calls)
  /\ Ends("raised")

-----------------------------------------------------------------------------
(* The first pending call.                                                 *)
Current == Head(pending)

Request(via) == [at |-> Len(history) + 1, via |-> via,
                 kind |-> asks[Current].kind, target |-> asks[Current].target]

Sends(via) ==
  /\ pending # <<>>
  /\ asks[Current].kind # "local"
  /\ sent' = sent \cup {Request(via)}
  /\ UNCHANGED <<asks, budget, history, pending, effects, outcome, message>>

(* A server runs a request whenever it gets it.                            *)
ServerRuns(r) ==
  /\ effects' = effects \cup {r}
  /\ UNCHANGED <<asks, budget, history, pending, sent, outcome, message>>

(* Where the content of an answer may come from: "local" for what asks     *)
(* nothing; a result of this request; an error.  (The list of servers may  *)
(* be read without a request.)                                             *)
MayAnswer(content) ==
  CASE content = "local" -> asks[Current].kind = "local"
    [] content = "ws"    -> Request("ws") \in effects
    [] content = "http"  -> asks[Current].kind = "list" \/ Request("http") \in effects
    [] content = "error" -> asks[Current].kind # "local"

Answers(content) ==
  /\ pending # <<>>
  /\ MayAnswer(content)
  /\ history' = Append(history, Entry("tool", <<>>, Current.tool, content))
  /\ pending' = Tail(pending)
  /\ UNCHANGED <<asks, budget, sent, effects, outcome, message>>

-----------------------------------------------------------------------------
(* The end.  A message is returned, or closing the client raises, when the *)
(* conversation is over; the provider may fail where the model has the     *)
(* turn; and the timer may cut it off at any point.                        *)
Returns ==
  /\ NothingPending /\ Over
  /\ Ends("reply")
  /\ message' = Len(history)
  /\ UNCHANGED <<asks, history, sent, effects>>

Breaks(how) ==
  /\ outcome = "running"
  /\ how = "raised" => pending = <<>> /\ Over
  /\ how = "error" => pending = <<>> /\ ~ Over
  /\ Ends(how)
  /\ UNCHANGED <<asks, history, sent, effects, message>>

Next ==
  \/ \E calls \in CallLists \cup {<<>>} : ModelReplies(calls)
  \/ \E calls \in CallLists : ModelRepliesMalformed(calls)
  \/ \E via \in {"ws", "http"} : Sends(via)
  \/ \E r \in sent : ServerRuns(r)
  \/ \E content \in {"local", "ws", "http", "error"} : Answers(content)
  \/ Returns
  \/ \E how \in {"raised", "error", "timeout"} : Breaks(how)

Spec == Init /\ [][Next]_vars
=============================================================================
