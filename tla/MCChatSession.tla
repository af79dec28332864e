---------------------------- MODULE MCChatSession ----------------------------
(***************************************************************************)
(* ChatSession with three chats and a message of the database server.      *)
(***************************************************************************)
EXTENDS ChatSession

\* Chats are 1, 2, 3.  A scan that lists every reply before all messages of the
\* users, as SCAN well may: its order has nothing to do with the time.
ReplyFirst ==
  [k \in Keys |-> CASE k[2] = "user" -> 10 + k[1]
                    [] k[2] = "model" -> k[1]
                    [] k[2] = "external_agent" -> 20]

MCStable == {ReplyFirst}
=============================================================================
