----------------------------- MODULE SessionTools -----------------------------
(***************************************************************************)
(* The tools of one session over time: the commands that change its lists  *)
(* (session_update, add_command_to_session, remove_command_from_session)   *)
(* and the chats that offer tools by them (MwpsChatCommand                 *)
(* _execute_session_mode with build_effective_tool_list).                  *)
(*                                                                         *)
(* A chat reads the session once, then awaits the discovery of the         *)
(* commands, builds its registry and runs the model's calls by it; the     *)
(* session commands run between these awaits.  Chats of a session do not   *)
(* change its lists, so one chat at a time is followed.  One process uses  *)
(* the store here, so a session command is one step (RedisSessions).       *)
(*                                                                         *)
(* invoke_tool runs one tool outside any session (run_tool_like_model), by *)
(* a discovery and a registry of its own.  It shares nothing with sessions *)
(* and chats, so it is one step, and comes between chats.                  *)
(***************************************************************************)
EXTENDS ToolList

CONSTANTS
  Segments,      \* the parts of names and ids
  Commands,      \* the command ids that callers write
  ListInputs,    \* the lists that callers give to session_init and session_update
  Policies,      \* the command policies of the configurations looked at
  Discoveries,   \* what the discovery may find: sequences of commands
  Help, Gateway, \* the name of the help tool, and those of the gateway's tools
  NoName         \* no command_name or cmdname among the arguments

Lists == [allowed : SUBSET Commands, forbidden : SUBSET Commands]

\* A command that was discovered.  Names and server ids may have dots: an
\* adapter registers with its advertised host as its id.
Entries == [name : Seq(Segments) \ {<<>>}, server : Seq(Segments) \ {<<>>},
            available : BOOLEAN]

ASSUME InputsAssumption ==
  /\ NoServer \notin {<<s>> : s \in Segments}
  /\ Vectorization \in Seq(Seq(Segments))
  /\ Discoveries \subseteq Seq(Entries)
  /\ Help \in Gateway
  /\ Policies \subseteq [mode : {"allow_by_default", "deny_by_default"},
                         allowed : SUBSET Commands, forbidden : SUBSET Commands]
  /\ ListInputs \subseteq Lists

VARIABLES
  policy,     \* commands_policy_config
  session,    \* the lists of the session as stored
  revoked,    \* history: commands removed and not granted again since
  pc,         \* the chat: "idle", "discovery" or "flow"
  snapshot,   \* the session as the chat read it
  withdrawn,  \* history: `revoked` when the chat began
  found,      \* the commands that the chat's discovery found
  tools,      \* the chat's ToolCallRegistry
  ran,        \* the calls the chat has run, by display name
  invoked     \* what the registry was built for: "chat", or the kind of
              \* request that an invoke_tool made

vars == <<policy, session, revoked, pc, snapshot, withdrawn, found, tools, ran, invoked>>
chatVars == <<pc, snapshot, withdrawn, found, tools, ran, invoked>>

NoLists == [allowed |-> {}, forbidden |-> {}]

NoTools == [name \in {} |-> [command |-> name, server |-> NoServer]]

Init ==
  /\ policy \in Policies
  /\ session \in ListInputs
  /\ revoked = {}
  /\ pc = "idle"
  /\ snapshot = session
  /\ withdrawn = {}
  /\ found = <<>>
  /\ tools = NoTools
  /\ ran = {}
  /\ invoked = "chat"

-----------------------------------------------------------------------------
(* Session commands *)

\* Replaces the lists that are given; a list that is not given is the stored one.
SessionUpdate(allowed, forbidden) ==
  /\ session' = [allowed |-> allowed, forbidden |-> forbidden]
  /\ revoked' = revoked \cap forbidden
  /\ UNCHANGED <<policy, chatVars>>

\* The config's forbid-list is only looked at when the request carries a
\* config_path and the config loads.
AddCommand(c, checked) ==
  /\ ~ (checked /\ c \in policy.forbidden)
  /\ session' = [allowed |-> session.allowed \cup {c},
                 forbidden |-> session.forbidden \ {c}]
  /\ revoked' = revoked \ {c}
  /\ UNCHANGED <<policy, chatVars>>

\* Mutant: the command is only taken off the allow-list.
RemoveFromAllowed(c) ==
  /\ session' = [session EXCEPT !.allowed = @ \ {c}]
  /\ revoked' = revoked \cup {c}
  /\ UNCHANGED <<policy, chatVars>>

RemoveCommand(c) ==
  /\ session' = [allowed |-> session.allowed \ {c},
                 forbidden |-> session.forbidden \cup {c}]
  /\ revoked' = revoked \cup {c}
  /\ UNCHANGED <<policy, chatVars>>

-----------------------------------------------------------------------------
(* The chat *)

\* The session is loaded; the next await is the discovery.
StartChat ==
  /\ pc = "idle"
  /\ pc' = "discovery"
  /\ snapshot' = session
  /\ withdrawn' = revoked
  /\ tools' = NoTools
  /\ found' = <<>>
  /\ ran' = {}
  /\ invoked' = "chat"
  /\ UNCHANGED <<policy, session, revoked>>

BuildTools(discovered) ==
  /\ pc = "discovery"
  /\ pc' = "flow"
  /\ found' = discovered
  /\ tools' = RegistryOf(policy, snapshot, discovered)
  /\ UNCHANGED <<policy, session, revoked, snapshot, withdrawn, ran, invoked>>

\* An exception of the discovery or the builder leaves only the help tool.
BuildFails ==
  /\ pc = "discovery"
  /\ pc' = "flow"
  /\ UNCHANGED <<policy, session, revoked, snapshot, withdrawn, found, tools, ran, invoked>>

\* _run_session_tool: the call goes where the registry says; but the name of
\* the help tool always means that tool (chat_flow.py:521).
RunTool(name) ==
  /\ pc = "flow"
  /\ name # Help
  /\ ran' = ran \cup {tools[name]}
  /\ UNCHANGED <<policy, session, revoked, pc, snapshot, withdrawn, found, tools, invoked>>

\* The reply, an error or the timer ends the chat.
EndChat ==
  /\ pc # "idle"
  /\ pc' = "idle"
  /\ UNCHANGED <<policy, session, revoked, snapshot, withdrawn, found, tools, ran, invoked>>

-----------------------------------------------------------------------------
(* invoke_tool *)

\* What a request is, by the registry, the tool's name and the command that the
\* arguments of help name: a registered name is called, also "help" where a
\* server has such a command; else there is help of a registered command; else
\* the tools of the gateway, which go past the registry; other names are
\* refused.
Kind(registry, name, target) ==
  CASE name \in DOMAIN registry                              -> "call"
    [] name = Help /\ target \in DOMAIN registry             -> "help"
    [] name \in Gateway /\ ~ (name = Help /\ target # NoName) -> "gateway"
    [] OTHER                                                 -> "refused"

\* The tool list is built afresh, with no session's lists.  An error of the
\* configuration or of the discovery leaves nothing behind.
InvokeTool(discovered, name, target) ==
  LET registry == RegistryOf(policy, NoLists, discovered)
  IN
  /\ pc = "idle"
  /\ found' = discovered
  /\ tools' = registry
  /\ snapshot' = NoLists /\ withdrawn' = {}
  /\ invoked' = Kind(registry, name, target)
  /\ ran' = IF invoked' = "call" THEN {registry[name]} ELSE {}
  /\ UNCHANGED <<policy, session, revoked, pc>>

-----------------------------------------------------------------------------
SessionCommand ==
  \/ \E allowed \in {session.allowed} \cup {l.allowed : l \in ListInputs},
        forbidden \in {session.forbidden} \cup {l.forbidden : l \in ListInputs} :
       SessionUpdate(allowed, forbidden)
  \/ \E c \in Commands :
       \/ RemoveCommand(c)
       \/ \E checked \in BOOLEAN : AddCommand(c, checked)

Chat ==
  \/ StartChat \/ BuildFails \/ EndChat
  \/ \E discovered \in Discoveries : BuildTools(discovered)
  \/ \E name \in DOMAIN tools : RunTool(name)

Invoke ==
  \E discovered \in Discoveries :
    LET names == {Name(c) : c \in Commands}
    IN \/ \E name \in (names \cup Gateway) \ {Help} :
            InvokeTool(discovered, name, NoName)
       \/ \E target \in names \cup {NoName} :
            InvokeTool(discovered, Help, target)

Next == SessionCommand \/ Chat \/ Invoke

Spec == Init /\ [][Next]_vars

-----------------------------------------------------------------------------
(* Properties *)

TypeOK ==
  /\ policy \in Policies
  /\ session \in Lists
  /\ revoked \subseteq session.forbidden
  /\ pc \in {"idle", "discovery", "flow"}
  /\ snapshot \in Lists
  /\ withdrawn \subseteq snapshot.forbidden
  /\ found \in Discoveries \cup {<<>>}
  /\ ran \subseteq {tools[name] : name \in DOMAIN tools}
  /\ invoked \in {"chat", "call", "help", "gateway", "refused"}

\* "Revokes access to that command for this session"
\* (remove_command_from_session_command.py:23-24): a command that was removed
\* before a chat began, and not granted since, is not run by the chat, however
\* the builder adds, orders and drops commands of the same name.
RevokedNeverRuns ==
  \A t \in ran : t.command \o t.server \notin withdrawn

\* The registry sends a name to a server that published a command of exactly
\* that name: parsing the id undoes make_command_id
\* (effective_tool_list_builder.py:96-103, command_discovery.py:31-41).  Only a
\* server whose id has dots is missed: the end of its id is called as the
\* server, with the beginning as a part of the name.
CallsGoHome ==
  \A name \in DOMAIN tools :
    /\ tools[name].command = name
    /\ \E i \in DOMAIN found :
         /\ found[i].available
         /\ IdOf(found[i]) = Make(name, tools[name].server)
         /\ \/ found[i].name = name /\ found[i].server = tools[name].server
            \/ Len(found[i].server) > 1

\* "Commands from that server (this adapter) are ordered first so they win
\* when deduping" (effective_tool_list_builder.py:41-46): another server gets
\* the calls of a name only when the preferred one has no permitted command of
\* that name.
PreferredServerWins ==
  \A id \in Permitted(policy, snapshot, AvailableIds(found)) :
    Server(id) = Preferred => tools[Name(id)].server = Preferred

\* What a chat may run is permitted by the configuration, the session's lists
\* when it began, and the discovery; only vectorization commands escape the
\* policy and the allow-list, never the forbid-list (standards.md 2.4).  What
\* invoke_tool runs is permitted in the same way without a session's lists, and
\* no session is revoked it (invoke_tool_command.py:41).
OnlyPermittedOffered ==
  \A name \in DOMAIN tools :
    LET id == Make(name, tools[name].server) IN
    /\ id \in AvailableIds(found) \ snapshot.forbidden
    /\ \/ id \in VectorIds
       \/ /\ id \notin policy.forbidden
          /\ policy.mode = "deny_by_default" => id \in policy.allowed
          /\ \A list \in {policy.allowed, snapshot.allowed} : list # {} => id \in list

\* "forbidden_commands - list always excluded" (standards.md:57).
ConfigForbiddenNotOffered ==
  \A name \in DOMAIN tools : Make(name, tools[name].server) \notin policy.forbidden

\* "If set, only these commands are available" (session_init_command.py:99-101):
\* removing a command never makes another one available.
RemovalNeverWidens ==
  [][\A c \in Commands : RemoveCommand(c) =>
       \A discovered \in Discoveries :
         Permitted(policy, session', AvailableIds(discovered))
           \subseteq Permitted(policy, session, AvailableIds(discovered))]_vars
=============================================================================
