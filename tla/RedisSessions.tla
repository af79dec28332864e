---------------------------- MODULE RedisSessions ----------------------------
(***************************************************************************)
(* The session commands on Redis: session_init, session_update,            *)
(* add_command_to_session and remove_command_from_session of the           *)
(* model-workspace adapter (over RedisSessionStore), and session_create    *)
(* and session_update of the database server, which use the same           *)
(* `session:{id}` hashes from a process of their own.                      *)
(*                                                                         *)
(* No command holds a lock or a transaction: it reads the hash, merges,    *)
(* and writes every field back.  Inside a process the handlers never       *)
(* await between these calls, so a process runs one command at a time;     *)
(* the calls of two processes interleave.                                  *)
(***************************************************************************)
CONSTANTS
  Ids, Models, Commands, NoSession, NoRequest,   \* as in SessionStore
  Procs,      \* the processes that share the Redis
  Inputs      \* the sets of arguments that callers send, by command

VARIABLES
  redis,      \* the session hashes; NoSession where the hash is empty
  last,       \* history: the last command whose hset was run
  pc,         \* the next Redis call of each process, or "idle"
  req,        \* the command each process is running
  first,      \* the session that add and remove compute their lists from
  existing,   \* the session that the update merges into
  revoked     \* history: commands removed from a session and not granted since

Store == INSTANCE SessionStore WITH sessions <- redis

ASSUME NoSessionAssumption == NoSession \notin Store!Session

ASSUME InputsAssumption ==
  Inputs \in [create : SUBSET Store!Session, update : SUBSET Store!Attrs,
              add : SUBSET Commands, remove : SUBSET Commands]

vars == <<redis, last, pc, req, first, existing, revoked>>

Requests ==
       [op : {"create"}, id : Ids, arg : Store!Session]
  \cup [op : {"update"}, id : Ids, arg : Store!Attrs]
  \cup [op : {"add", "remove"}, id : Ids, arg : Commands]

Init ==
  /\ Store!StoreInit
  /\ pc = [p \in Procs |-> "idle"]
  /\ req = [p \in Procs |-> NoRequest]
  /\ first = [p \in Procs |-> NoSession]
  /\ existing = [p \in Procs |-> NoSession]
  /\ revoked = [id \in Ids |-> {}]

Goto(p, where) == pc' = [pc EXCEPT ![p] = where]

\* A command arrives.  create writes at once, update reads once, add and
\* remove read the session and then call the store's update.
Begin(p, r) ==
  /\ pc[p] = "idle"
  /\ req' = [req EXCEPT ![p] = r]
  /\ Goto(p, CASE r.op = "create" -> "hset"
               [] r.op = "update" -> "reget"
               [] r.op \in {"add", "remove"} -> "get")
  /\ UNCHANGED <<redis, last, first, existing, revoked>>

\* store.get of add and remove: hgetall; an empty hash is "Session not found".
Get(p) ==
  /\ pc[p] = "get"
  /\ first' = [first EXCEPT ![p] = redis[req[p].id]]
  /\ Goto(p, IF redis[req[p].id] = NoSession THEN "idle" ELSE "reget")
  /\ UNCHANGED <<redis, last, req, existing, revoked>>

\* The hgetall of an update.
Reget(p) ==
  /\ pc[p] = "reget"
  /\ existing' = [existing EXCEPT ![p] = redis[req[p].id]]
  /\ Goto(p, IF redis[req[p].id] = NoSession THEN "idle" ELSE "hset")
  /\ UNCHANGED <<redis, last, req, first, revoked>>

\* The lists of add and remove, computed from their own get, as an update.
ListsOf(s) == [given |-> {"allowed", "forbidden"}, new |-> s]

\* Mutant: the merge starts from an empty session.
MergedDropsOmitted(p) ==
  LET r == req[p]
      blank == [existing[p] EXCEPT !.allowed = {}, !.forbidden = {}]
  IN
  CASE r.op = "create" -> r.arg
    [] r.op = "update" -> Store!Merge(blank, r.arg)
    [] r.op = "add"    -> Store!Merge(blank, ListsOf(Store!WithCommand(first[p], r.arg)))
    [] r.op = "remove" -> Store!Merge(blank, ListsOf(Store!WithoutCommand(first[p], r.arg)))

\* Mutant: remove only takes the command off the allow-list.
MergedForgetsForbidden(p) ==
  LET r == req[p] IN
  CASE r.op = "create" -> r.arg
    [] r.op = "update" -> Store!Merge(existing[p], r.arg)
    [] r.op = "add"    -> Store!Merge(existing[p], ListsOf(Store!WithCommand(first[p], r.arg)))
    [] r.op = "remove" ->
         Store!Merge(existing[p], ListsOf([first[p] EXCEPT !.allowed = @ \ {r.arg}]))

\* Mutant: a session created without a model gets a hash without the field.
MergedOmitsModel(p) ==
  LET r == req[p] IN
  CASE r.op = "create" -> [allowed |-> r.arg.allowed, forbidden |-> r.arg.forbidden]
    [] r.op = "update" -> Store!Merge(existing[p], r.arg)
    [] r.op = "add"    -> Store!Merge(existing[p], ListsOf(Store!WithCommand(first[p], r.arg)))
    [] r.op = "remove" -> Store!Merge(existing[p], ListsOf(Store!WithoutCommand(first[p], r.arg)))

\* The hash that is written back, all fields of it.
Merged(p) ==
  LET r == req[p] IN
  CASE r.op = "create" -> r.arg
    [] r.op = "update" -> Store!Merge(existing[p], r.arg)
    [] r.op = "add"    -> Store!Merge(existing[p], ListsOf(Store!WithCommand(first[p], r.arg)))
    [] r.op = "remove" -> Store!Merge(existing[p], ListsOf(Store!WithoutCommand(first[p], r.arg)))

\* What the callers may expect to stay revoked after request r.
StillRevoked(old, r) ==
  CASE r.op = "create" -> {}
    [] r.op = "update" -> IF "forbidden" \in r.arg.given
                          THEN old \cap r.arg.new.forbidden ELSE old
    [] r.op = "add"    -> old \ {r.arg}
    [] r.op = "remove" -> old \cup {r.arg}

\* hset of the whole mapping.  Whether its reply still reaches the process
\* makes no difference to what is stored.
Hset(p) ==
  LET r == req[p] IN
  /\ pc[p] = "hset"
  /\ redis' = [redis EXCEPT ![r.id] = Merged(p)]
  /\ last' = r
  /\ revoked' = [revoked EXCEPT ![r.id] = StillRevoked(@, r)]
  /\ Goto(p, "idle")
  /\ UNCHANGED <<req, first, existing>>

\* A Redis call raises, or the process dies, before anything is written.
Fail(p) ==
  /\ pc[p] # "idle"
  /\ Goto(p, "idle")
  /\ UNCHANGED <<redis, last, req, first, existing, revoked>>

InputRequests ==
       [op : {"create"}, id : Ids, arg : Inputs.create]
  \cup [op : {"update"}, id : Ids, arg : Inputs.update]
  \cup [op : {"add"}, id : Ids, arg : Inputs.add]
  \cup [op : {"remove"}, id : Ids, arg : Inputs.remove]

Next ==
  \E p \in Procs :
    \/ \E r \in InputRequests : Begin(p, r)
    \/ Get(p) \/ Reget(p) \/ Hset(p) \/ Fail(p)

Spec == Init /\ [][Next]_vars

-----------------------------------------------------------------------------
(* Properties *)

TypeOK ==
  /\ redis \in [Ids -> Store!Session \cup {NoSession}]
  /\ last \in Requests \cup {NoRequest}
  /\ pc \in [Procs -> {"idle", "get", "reget", "hset"}]
  /\ req \in [Procs -> Requests \cup {NoRequest}]
  /\ first \in [Procs -> Store!Session \cup {NoSession}]
  /\ existing \in [Procs -> Store!Session \cup {NoSession}]
  /\ revoked \in [Ids -> SUBSET Commands]

\* With one process on the Redis, read-merge-write is as good as one atomic
\* step: the commands implement the store that their callers are promised.
StoreRefined == Store!StoreSpec

\* "Revokes access to that command for this session"
\* (remove_command_from_session_command.py:23): a removed command stays on the
\* forbid-list until some caller adds it again or replaces the list.
RevocationHolds ==
  \A id \in Ids : redis[id] # NoSession => revoked[id] \subseteq redis[id].forbidden
=============================================================================
