----------------------------- MODULE SessionTurns -----------------------------
(***************************************************************************)
(* What a session keeps of its chats (mwps_chat_command.py and the tests   *)
(* of its contract): a log of turns.  A turn, the user's message with the  *)
(* reply, is appended as a whole before its caller gets the reply, and not *)
(* at all when the caller is told of an error or a timeout.  A caller that *)
(* is told of a failed write, or lost its chat in a crash, knows nothing:  *)
(* there is no turn, a whole one, or a message without its reply.  Chats   *)
(* read whole turns.                                                       *)
(*                                                                         *)
(* That two messages are written one after the other, with times, to a     *)
(* store that lists them in no order, is not to be seen here.              *)
(***************************************************************************)
EXTENDS Integers, Sequences

CONSTANTS Chats

VARIABLES log,      \* the turns, the oldest first
          seen,     \* by chat: the turns that it has read
          outcome   \* by chat: what its caller was told

vars == <<log, seen, outcome>>

Turn(c, answered) == [chat |-> c, answered |-> answered]

Init ==
  /\ log = <<>>
  /\ seen = [c \in Chats |-> {}]
  /\ outcome = [c \in Chats |-> "none"]

Running(c) == outcome[c] = "none"

\* Its turn, or half of it, is in the log.
Logged(c) == \E i \in DOMAIN log : log[i].chat = c

Appends(c, answered) == ~ Logged(c) /\ log' = Append(log, Turn(c, answered))

Ends(c, how) ==
  /\ Running(c)
  /\ outcome' = [outcome EXCEPT ![c] = how]
  /\ UNCHANGED seen

Reads(c) ==
  /\ Running(c) /\ ~ Logged(c) /\ seen[c] = {}
  /\ seen' = [seen EXCEPT ![c] = {log[i] : i \in DOMAIN log}]
  /\ UNCHANGED <<log, outcome>>

Records(c) == Running(c) /\ Appends(c, TRUE) /\ UNCHANGED <<seen, outcome>>

Replies(c) ==
  /\ \E i \in DOMAIN log : log[i] = Turn(c, TRUE)
  /\ UNCHANGED log /\ Ends(c, "reply")

Fails(c, how) == ~ Logged(c) /\ UNCHANGED log /\ Ends(c, how)

\* A write raised, whether it was applied or not.
PersistFails(c) ==
  \/ Fails(c, "persist_failed")
  \/ \E answered \in BOOLEAN : Appends(c, answered) /\ Ends(c, "persist_failed")

\* All chats of the process end, at most one of them with half a turn.
Crash(lost) ==
  /\ lost # {} /\ \A c \in lost : Running(c)
  /\ outcome' = [c \in Chats |-> IF c \in lost THEN "crashed" ELSE outcome[c]]
  /\ UNCHANGED log \/ \E c \in lost : Appends(c, FALSE)
  /\ UNCHANGED seen

Next ==
  \/ \E c \in Chats :
       \/ Reads(c) \/ Records(c) \/ Replies(c) \/ PersistFails(c)
       \/ \E how \in {"error", "timeout"} : Fails(c, how)
  \/ \E lost \in SUBSET Chats : Crash(lost)

Spec == Init /\ [][Next]_vars
=============================================================================
