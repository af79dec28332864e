------------------------------ MODULE ToolList ------------------------------
(***************************************************************************)
(* Which commands a model may call in a session                            *)
(* (src/mwps/effective_tool_list_builder.py with commands_policy_config.py *)
(* and the command ids of command_discovery.py).                           *)
(*                                                                         *)
(* Names, servers and command ids are sequences of the segments that the   *)
(* dots of the string separate, so that "echo.adapter" is                  *)
(* <<"echo", "adapter">> and an id is split where the code splits it.  The *)
(* lists of the policy and of a session are sets, as the builder makes     *)
(* them; the order of the discovered commands decides between servers.     *)
(***************************************************************************)
EXTENDS Integers, Sequences

CONSTANTS
  Preferred,      \* adapter_server_id: the server whose commands win
  NoServer,       \* the server of an id without a dot; also: none is preferred
  Vectorization   \* VECTORIZATION_COMMAND_IDS

\* make_command_id
Make(name, server) == name \o server

\* Mutants: the first dot separates; parse_command_id split by str.partition.
NameFirstDot(id) == IF Len(id) = 1 THEN id ELSE <<id[1]>>

\* parse_command_id: the last dot separates.
Name(id) == IF Len(id) = 1 THEN id ELSE SubSeq(id, 1, Len(id) - 1)
Server(id) == IF Len(id) = 1 THEN NoServer ELSE <<id[Len(id)]>>

\* A discovered command and its id.
IdOf(entry) == Make(entry.name, entry.server)

AvailableIds(discovered) ==
  {IdOf(discovered[i]) : i \in {j \in DOMAIN discovered : discovered[j].available}}

\* Commands that pass an allow-list, which does not filter when it is empty.
Allowed(list, ids) == IF list = {} THEN ids ELSE ids \cap list

\* Mutant: an allow-list is taken to overrule the forbid-list.
FilterCandidatesAllowedFirst(policy, ids) ==
  IF policy.mode = "deny_by_default"
  THEN ids \cap policy.allowed
  ELSE Allowed(policy.allowed, ids \ policy.forbidden)

\* CommandsPolicyConfig.filter_candidates
FilterCandidates(policy, ids) ==
  IF policy.mode = "deny_by_default"
  THEN (ids \ policy.forbidden) \cap policy.allowed
  ELSE Allowed(policy.allowed, ids \ policy.forbidden)

Permitted(policy, session, ids) ==
  Allowed(session.allowed, FilterCandidates(policy, ids) \ session.forbidden)

VectorIds == {Vectorization[i] : i \in DOMAIN Vectorization}

\* Mutant: the vectorization commands are added unconditionally.
OfferedWithForbidden(policy, session, ids) ==
  Permitted(policy, session, ids) \cup (VectorIds \cap ids)

\* The vectorization commands are added unless the session forbids them.
Offered(policy, session, ids) ==
  Permitted(policy, session, ids) \cup ((VectorIds \cap ids) \ session.forbidden)

FirstAt(discovered, id) ==
  CHOOSE i \in DOMAIN discovered :
    /\ discovered[i].available /\ IdOf(discovered[i]) = id
    /\ \A j \in 1 .. i - 1 : ~ (discovered[j].available /\ IdOf(discovered[j]) = id)

\* Mutant: the preferred server's commands keep their place.
PositionByDiscovery(policy, session, discovered, id) ==
  FirstAt(discovered, id)

\* The position of an offered id: the permitted commands of the preferred
\* server, the other permitted ones, then the vectorization commands.
Position(policy, session, discovered, id) ==
  LET permitted == Permitted(policy, session, AvailableIds(discovered)) IN
  IF id \in permitted
  THEN FirstAt(discovered, id)
         + IF Preferred # NoServer /\ Server(id) = Preferred THEN 0 ELSE Len(discovered)
  ELSE 2 * Len(discovered) + (CHOOSE i \in DOMAIN Vectorization : Vectorization[i] = id)

\* Several servers may offer a name: the first of the list gets the calls.
Winner(policy, session, discovered, name) ==
  LET rivals == {id \in Offered(policy, session, AvailableIds(discovered)) :
                   Name(id) = name}
  IN  CHOOSE id \in rivals :
        \A other \in rivals :
          Position(policy, session, discovered, id)
            <= Position(policy, session, discovered, other)

\* build_effective_tool_list: the ToolCallRegistry, by display name.  (The
\* tool list itself has the same names, with the schemas.)
RegistryOf(policy, session, discovered) ==
  [name \in {Name(id) : id \in Offered(policy, session, AvailableIds(discovered))} |->
     LET id == Winner(policy, session, discovered, name)
     IN  [command |-> Name(id), server |-> Server(id)]]
=============================================================================
