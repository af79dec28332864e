---------------------------- MODULE SessionStore ----------------------------
(***************************************************************************)
(* What the SessionStore interface promises (src/mwps/session_store.py     *)
(* 62-82, and the descriptions of the session commands): a map from        *)
(* session ids to sessions on which every operation is one atomic step,    *)
(* and an update changes the fields it provides and no other.              *)
(*                                                                         *)
(* The fields kept are the model and the two command lists; standards,     *)
(* session_rules, created_at and minimize_context pass through get and     *)
(* update exactly as the model does.  The lists are sets: every reader of  *)
(* them (the tool list builder) turns them into sets.                      *)
(***************************************************************************)
CONSTANTS
  Ids,        \* session ids
  Models,     \* model names; no model (None, or "" in Redis) is one of them
  Commands,   \* command ids
  NoSession,  \* the id is not stored
  NoRequest   \* nothing has been requested yet

VARIABLES
  sessions,   \* the stored sessions
  last        \* the last request that took effect

Fields == {"model", "allowed", "forbidden"}
Session == [model : Models, allowed : SUBSET Commands, forbidden : SUBSET Commands]

\* A partial update: the fields it provides, with their new values.
Attrs == [given : SUBSET Fields, new : Session]

Merge(s, attrs) ==
  [model     |-> IF "model" \in attrs.given THEN attrs.new.model ELSE s.model,
   allowed   |-> IF "allowed" \in attrs.given THEN attrs.new.allowed ELSE s.allowed,
   forbidden |-> IF "forbidden" \in attrs.given THEN attrs.new.forbidden
                                                ELSE s.forbidden]

\* add_command_to_session and remove_command_from_session
WithCommand(s, c) ==
  [model |-> s.model, allowed |-> s.allowed \cup {c}, forbidden |-> s.forbidden \ {c}]
WithoutCommand(s, c) ==
  [model |-> s.model, allowed |-> s.allowed \ {c}, forbidden |-> s.forbidden \cup {c}]

StoreInit ==
  /\ sessions = [id \in Ids |-> NoSession]
  /\ last = NoRequest

Create(id, s) ==
  /\ sessions' = [sessions EXCEPT ![id] = s]
  /\ last' = [op |-> "create", id |-> id, arg |-> s]

Update(id, attrs) ==
  /\ sessions[id] # NoSession
  /\ sessions' = [sessions EXCEPT ![id] = Merge(@, attrs)]
  /\ last' = [op |-> "update", id |-> id, arg |-> attrs]

AddCommand(id, c) ==
  /\ sessions[id] # NoSession
  /\ sessions' = [sessions EXCEPT ![id] = WithCommand(@, c)]
  /\ last' = [op |-> "add", id |-> id, arg |-> c]

RemoveCommand(id, c) ==
  /\ sessions[id] # NoSession
  /\ sessions' = [sessions EXCEPT ![id] = WithoutCommand(@, c)]
  /\ last' = [op |-> "remove", id |-> id, arg |-> c]

StoreNext ==
  \E id \in Ids :
    \/ \E s \in Session : Create(id, s)
    \/ \E attrs \in Attrs : Update(id, attrs)
    \/ \E c \in Commands : AddCommand(id, c) \/ RemoveCommand(id, c)

StoreSpec == StoreInit /\ [][StoreNext]_<<sessions, last>>
=============================================================================
