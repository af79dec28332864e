----------------------------- MODULE ChatSession -----------------------------
(***************************************************************************)
(* The turns of one session: MwpsChatCommand._execute_session_mode reads   *)
(* the session's messages for the context, has run_chat_flow get a reply   *)
(* (ChatFlow), and writes the user's message and the reply to Redis        *)
(* (RedisMessageStore, MessageStreamWriter).  The database server's        *)
(* message_write adds messages to the same store from another process.     *)
(*                                                                         *)
(* The chats are tasks of one event loop: between two Redis calls without  *)
(* an await in between no other chat runs, but the database server does,   *)
(* and the adapter may die.  Messages have a body, as the relevance slot   *)
(* leaves out those without.                                               *)
(***************************************************************************)
EXTENDS Integers, Sequences, FiniteSets

CONSTANTS
  Chats,      \* the chat requests, each with a message of the user
  External,   \* messages that the database server writes
  LastN,      \* last_n_messages
  ScanRanks   \* the orders in which SCAN may list messages (no order is promised)

ASSUME ConstantsAssumption ==
  /\ LastN \in Nat
  /\ Chats \cap External = {}

Keys == (Chats \X {"user", "model"}) \cup (External \X {"external_agent"})

ASSUME ScanRanksAssumption ==
  /\ ScanRanks \subseteq [Keys -> Nat] /\ ScanRanks # {}
  /\ \A rank \in ScanRanks : \A k, l \in Keys : rank[k] = rank[l] => k = l

VARIABLES
  store,     \* the stored messages
  now,       \* the clock; a turn and a later one never have the same time
  pc,        \* by chat: "idle", "older", "flow", "writing", "replying" or "done"
  before,    \* history, by chat: the messages stored when it began
  recent,    \* by chat: the last messages of the context, in order
  slot,      \* by chat: the messages of the relevance slot
  outcome    \* by chat: how it ended

vars == <<store, now, pc, before, recent, slot, outcome>>

\* A RedisMessageRecord; its uuid is known by the turn and the source.
Record(turn, source, at) == [turn |-> turn, source |-> source, at |-> at]
Key(r) == <<r.turn, r.source>>

Precedes(r, s, rank) ==
  r.at < s.at \/ (r.at = s.at /\ rank[Key(r)] < rank[Key(s)])

\* get_messages: sorted by created_at; the sort keeps the order of the scan
\* for messages of the same time.
Listing(messages, rank) ==
  CHOOSE list \in [1 .. Cardinality(messages) -> messages] :
    \A i, j \in DOMAIN list : i < j => Precedes(list[i], list[j], rank)

LastOf(list, n) ==
  IF n >= Len(list) THEN list ELSE SubSeq(list, Len(list) - n + 1, Len(list))

RangeOf(list) == {list[i] : i \in DOMAIN list}

\* Between the two reads of the context, and between the two writes of a turn,
\* the event loop belongs to one chat.
LoopFree == \A c \in Chats : pc[c] \notin {"older", "writing"}

Init ==
  /\ store = {}
  /\ now = 0
  /\ pc = [c \in Chats |-> "idle"]
  /\ before = [c \in Chats |-> {}]
  /\ recent = [c \in Chats |-> <<>>]
  /\ slot = [c \in Chats |-> {}]
  /\ outcome = [c \in Chats |-> "none"]

Goto(c, where) == pc' = [pc EXCEPT ![c] = where]

End(c, how) ==
  /\ Goto(c, "done")
  /\ outcome' = [outcome EXCEPT ![c] = how]

-----------------------------------------------------------------------------
(* The context *)

\* ContextBuilder.build reads the messages for the last N.
ReadRecent(c) ==
  /\ pc[c] = "idle" /\ LoopFree
  /\ \E rank \in ScanRanks :
       recent' = [recent EXCEPT ![c] = LastOf(Listing(store, rank), LastN)]
  /\ before' = [before EXCEPT ![c] = store]
  /\ Goto(c, "older")
  /\ UNCHANGED <<store, now, slot, outcome>>

\* Mutant: the slot is taken from the messages in front of the last N + 1.
OlderOffByOne(c) ==
  /\ pc[c] = "older"
  /\ \E rank \in ScanRanks :
       LET list == Listing(store, rank)
       IN  slot' = [slot EXCEPT ![c] = RangeOf(list) \ RangeOf(LastOf(list, LastN + 1))]
  /\ Goto(c, "flow")
  /\ UNCHANGED <<store, now, before, recent, outcome>>

\* RelevanceSlotBuilder reads them again, for those before the last N.
ReadOlder(c) ==
  /\ pc[c] = "older"
  /\ \E rank \in ScanRanks :
       LET list == Listing(store, rank)
       IN  slot' = [slot EXCEPT ![c] = RangeOf(list) \ RangeOf(LastOf(list, LastN))]
  /\ Goto(c, "flow")
  /\ UNCHANGED <<store, now, before, recent, outcome>>

\* After a ContextBuilderError (with the limits of the config, which every chat
\* loads, below what the slots reserve) the context is all messages.
ReadAll(c) ==
  /\ pc[c] = "idle" /\ LoopFree
  /\ \E rank \in ScanRanks : recent' = [recent EXCEPT ![c] = Listing(store, rank)]
  /\ before' = [before EXCEPT ![c] = store]
  /\ Goto(c, "flow")
  /\ UNCHANGED <<store, now, slot, outcome>>

\* Session or Redis are missing.
ReadFails(c) ==
  /\ (pc[c] = "idle" /\ LoopFree) \/ pc[c] = "older"
  /\ End(c, "error")
  /\ UNCHANGED <<store, now, before, recent, slot>>

-----------------------------------------------------------------------------
(* The flow, and its result *)

\* The flow returns an error, or raises.
FlowFails(c) ==
  /\ pc[c] = "flow" /\ LoopFree
  /\ End(c, "error")
  /\ UNCHANGED <<store, now, before, recent, slot>>

\* Mutant: the timer can also end the chat between the two writes.
TimeoutWhileWriting(c) ==
  /\ (pc[c] = "flow" /\ LoopFree) \/ pc[c] = "writing"
  /\ End(c, "timeout")
  /\ UNCHANGED <<store, now, before, recent, slot>>

\* The command's timer ends the chat at an await, and those are in the flow.
Timeout(c) ==
  /\ pc[c] = "flow" /\ LoopFree
  /\ End(c, "timeout")
  /\ UNCHANGED <<store, now, before, recent, slot>>

\* An HSET of the user's message, with the time that both records of the turn get.
StoreUser(c) ==
  /\ now' = now + 1
  /\ store' = store \cup {Record(c, "user", now')}

\* The HSET of the reply.
StoreReply(c) ==
  /\ \E r \in store : /\ Key(r) = <<c, "user">>
                      /\ store' = store \cup {Record(c, "model", r.at)}
  /\ UNCHANGED now

\* Mutant: the reply is written first.
WriteReplyFirst(c) ==
  /\ pc[c] = "flow" /\ LoopFree
  /\ now' = now + 1
  /\ store' = store \cup {Record(c, "model", now')}
  /\ Goto(c, "writing")
  /\ UNCHANGED <<before, recent, slot, outcome>>

\* Mutant: the time is that of a clock which two turns may read alike.
WriteUserCoarseClock(c) ==
  /\ pc[c] = "flow" /\ LoopFree
  /\ store' = store \cup {Record(c, "user", now)}
  /\ Goto(c, "writing")
  /\ UNCHANGED <<now, before, recent, slot, outcome>>

\* The flow returns a message: the user's is written first.
WriteUser(c) ==
  /\ pc[c] = "flow" /\ LoopFree
  /\ StoreUser(c)
  /\ Goto(c, "writing")
  /\ UNCHANGED <<before, recent, slot, outcome>>

\* A write that raises may have been applied: its answer can be lost.
WriteUserFails(c) ==
  /\ pc[c] = "flow" /\ LoopFree
  /\ StoreUser(c) \/ UNCHANGED <<store, now>>
  /\ End(c, "persist_failed")
  /\ UNCHANGED <<before, recent, slot>>

\* Mutant: a failed write is taken for a done one.
WriteReplySwallows(c) ==
  /\ pc[c] = "writing"
  /\ StoreReply(c) \/ UNCHANGED <<store, now>>
  /\ Goto(c, "replying")
  /\ UNCHANGED <<before, recent, slot, outcome>>

WriteReply(c) ==
  /\ pc[c] = "writing"
  /\ StoreReply(c)
  /\ Goto(c, "replying")
  /\ UNCHANGED <<before, recent, slot, outcome>>

\* The user's message stays stored, alone or, if the write was applied, with the
\* reply that its caller does not get.
WriteReplyFails(c) ==
  /\ pc[c] = "writing"
  /\ StoreReply(c) \/ UNCHANGED <<store, now>>
  /\ End(c, "persist_failed")
  /\ UNCHANGED <<before, recent, slot>>

\* The result of the command goes to its caller.
Reply(c) ==
  /\ pc[c] = "replying"
  /\ End(c, "reply")
  /\ UNCHANGED <<store, now, before, recent, slot>>

-----------------------------------------------------------------------------
(* Other processes *)

\* Mutant: a repeated write gives the message a new time.
ExternalWriteRestamps(m) ==
  /\ \E at \in 0 .. now :
       store' = {r \in store : r.turn # m} \cup {Record(m, "external_agent", at)}
  /\ UNCHANGED <<now, pc, before, recent, slot, outcome>>

\* message_write, with a uuid and a created_at of the caller's choice.  It is an
\* HSET on the key of the uuid: callers repeat a uuid only to retry the same
\* write, which changes nothing.
ExternalWrite(m) ==
  /\ \A r \in store : r.turn # m
  /\ \E at \in 0 .. now : store' = store \cup {Record(m, "external_agent", at)}
  /\ UNCHANGED <<now, pc, before, recent, slot, outcome>>

\* The adapter dies; its callers get no answer.
Crash ==
  LET lost == {c \in Chats : pc[c] \notin {"idle", "done"}} IN
  /\ lost # {}
  /\ pc' = [c \in Chats |-> IF c \in lost THEN "done" ELSE pc[c]]
  /\ outcome' = [c \in Chats |-> IF c \in lost THEN "crashed" ELSE outcome[c]]
  /\ UNCHANGED <<store, now, before, recent, slot>>

Next ==
  \/ \E c \in Chats :
       \/ ReadRecent(c) \/ ReadOlder(c) \/ ReadAll(c) \/ ReadFails(c)
       \/ FlowFails(c) \/ Timeout(c)
       \/ WriteUser(c) \/ WriteUserFails(c)
       \/ WriteReply(c) \/ WriteReplyFails(c) \/ Reply(c)
  \/ \E m \in External : ExternalWrite(m)
  \/ Crash

Spec == Init /\ [][Next]_vars

-----------------------------------------------------------------------------
(* Properties *)

Outcomes == {"none", "reply", "error", "timeout", "persist_failed", "crashed"}

TypeOK ==
  /\ store \subseteq {Record(k[1], k[2], at) : k \in Keys, at \in 0 .. now}
  /\ now \in Nat
  /\ pc \in [Chats -> {"idle", "older", "flow", "writing", "replying", "done"}]
  /\ before \in [Chats -> SUBSET store]
  /\ \A c \in Chats : RangeOf(recent[c]) \subseteq store
  /\ slot \in [Chats -> SUBSET store]
  /\ outcome \in [Chats -> Outcomes]

Stored(turn, source) == \E r \in store : Key(r) = <<turn, source>>

\* A caller that got its reply finds both messages of the turn in the store, and
\* no reply is ever stored without the message it answers, whatever write fails
\* and whenever the adapter dies (mwps_chat_command.py:409-442).
ReplyRecorded ==
  \A c \in Chats :
    /\ outcome[c] = "reply" => Stored(c, "model")
    /\ Stored(c, "model") => Stored(c, "user")

\* A chat that ended with an error or by the timer has stored nothing, so that
\* its message may be sent again (mwps_chat_command.py:392-401): there is no
\* await between the writes at which the timer could cut the turn in half.
UnansweredNotStored ==
  \A c \in Chats :
    outcome[c] \in {"error", "timeout"} => ~ Stored(c, "user") /\ ~ Stored(c, "model")

\* Chats of a session may overlap, but their turns do not: when a chat lists the
\* messages, nothing of another turn is between a message and its reply
\* (the same `now` for both records, mwps_chat_command.py:404-427).
TurnsTogether ==
  \A c \in Chats : \A i, j \in DOMAIN recent[c] :
    i < j /\ recent[c][i].turn = recent[c][j].turn
      => \A k \in i .. j : recent[c][k].turn \in {recent[c][i].turn} \cup External

\* As long as SCAN keeps its order, what was stored when a chat began is in its
\* context, among the last messages or in the slot, also when messages arrive
\* between the two reads (context_builder.py:129-148,
\* relevance_slot_builder.py:54-75).
ContextComplete ==
  \A c \in Chats : pc[c] \in {"flow", "writing"} =>
    before[c] \subseteq RangeOf(recent[c]) \cup slot[c]

\* The turns in the order of their times; the one that is being written is not
\* yet among them.
UserAt(c, i) == \E r \in store : Key(r) = <<c, "user">> /\ r.at = i

ChatAt(i) == CHOOSE c \in Chats : UserAt(c, i)

Settled == IF \E c \in Chats : pc[c] = "writing" THEN now - 1 ELSE now

Log ==
  [i \in 1 .. Settled |->
     [chat |-> ChatAt(i), answered |-> Stored(ChatAt(i), "model")]]

HeldBy(messages, turn, source) == \E r \in messages : Key(r) = <<turn, source>>

Seen(c) ==
  {[chat |-> d, answered |-> HeldBy(before[c], d, "model")] :
     d \in {d \in Chats : HeldBy(before[c], d, "user")}}

\* Behind two writes with times and a store without order there is a log of
\* turns: a chat reads whole turns, appends its own at one point or leaves the
\* log alone; it replies only when its whole turn is there, and tells of an error
\* or a timeout only when nothing of it is; half a turn is left only by a failed
\* write or a crash (mwps_chat_command.py:375-452).
Turns ==
  INSTANCE SessionTurns WITH log <- Log, seen <- [c \in Chats |-> Seen(c)]

TurnsRecorded == Turns!Spec
=============================================================================
