------------------------------ MODULE Discovery ------------------------------
(***************************************************************************)
(* CommandDiscovery (src/mwps/command_discovery.py): refresh() asks the    *)
(* proxy for its servers, takes the commands of each server from that      *)
(* answer or fetches them from the server, and publishes the new list when *)
(* it is through.  A reader always gets the list published last.           *)
(*                                                                         *)
(* One refresh runs at a time on a CommandDiscovery: the callers own it.   *)
(***************************************************************************)
EXTENDS Integers, Sequences

CONSTANTS
  Servers,      \* server ids, without dots
  Names,        \* command names
  Odd,          \* an entry of a command list that is skipped: no dict, no name
  Broken,       \* an entry whose parsing raises: a name that is no string
  MaxCommands,  \* bound on the entries of a command list
  MaxServers,   \* bound on the servers that the proxy lists
  MaxCache      \* bound on the length of the cache, see Next

ASSUME ConstantsAssumption ==
  /\ Odd \notin Names /\ Broken \notin Names /\ Odd # Broken
  /\ MaxCommands \in Nat /\ MaxServers \in Nat /\ MaxCache \in Nat

VARIABLES
  cache,    \* what get_discovered_commands returns
  down,     \* _unavailable_servers
  pc,       \* "idle", "list" (awaiting the proxy) or "servers"
  todo,     \* the servers of the proxy's answer that are still to do
  fresh,    \* new_cache
  asked,    \* history: servers whose commands this refresh took
  healthy,  \* history: commands that servers of this refresh answered well with
  served    \* history: those of the refresh that published the cache

vars == <<cache, down, pc, todo, fresh, asked, healthy, served>>

Upto(S, n) == UNION {[1 .. k -> S] : k \in 0 .. n}

\* A server of the proxy's answer.  `listed` tells whether the proxy's answer
\* holds its commands; a server without a URL is skipped.
ServerEntries == [server : Servers, url : BOOLEAN, listed : BOOLEAN]

\* What a server's list of commands may hold.  An entry of a proxy's dict has
\* a string as its name, so Broken only comes from a server itself.
CommandLists == Upto(Names \cup {Odd, Broken}, MaxCommands)
ProxyLists == Upto(Names \cup {Odd}, MaxCommands)

Entries == [name : Names, server : Servers, available : BOOLEAN]

Init ==
  /\ cache = <<>>
  /\ down = {}
  /\ pc = "idle"
  /\ todo = <<>>
  /\ fresh = <<>>
  /\ asked = {}
  /\ healthy = {}
  /\ served = {}

StartRefresh ==
  /\ pc = "idle"
  /\ pc' = "list"
  /\ asked' = {}
  /\ healthy' = {}
  /\ UNCHANGED <<cache, down, todo, fresh, served>>

\* A ProxyClientError, or an answer without servers, leaves the cache as it is.
ListFails ==
  /\ pc = "list"
  /\ pc' = "idle"
  /\ UNCHANGED <<cache, down, todo, fresh, asked, healthy, served>>

ListAnswers(servers) ==
  /\ pc = "list"
  /\ servers # <<>>
  /\ pc' = "servers"
  /\ todo' = servers
  /\ fresh' = <<>>
  /\ UNCHANGED <<cache, down, asked, healthy, served>>

\* A server without URL is left out, with what the cache has of it.
SkipServer ==
  /\ pc = "servers" /\ todo # <<>>
  /\ ~ Head(todo).url
  /\ todo' = Tail(todo)
  /\ UNCHANGED <<cache, down, pc, fresh, asked, healthy, served>>

\* The elements of a sequence at some of its positions.
Select(seq, at) ==
  LET chosen[i \in 0 .. Len(seq)] ==
        IF i = 0 THEN <<>>
        ELSE IF i \in at THEN Append(chosen[i - 1], seq[i])
        ELSE chosen[i - 1]
  IN  chosen[Len(seq)]

OfServer(entries, server) ==
  Select(entries, {i \in DOMAIN entries : entries[i].server = server})

Unavailable(entries) ==
  [i \in DOMAIN entries |-> [entries[i] EXCEPT !.available = FALSE]]

\* The commands that are parsed before the list ends or an entry raises.
Parsed(commands, server) ==
  LET names == Select(commands, {i \in DOMAIN commands :
                 commands[i] # Odd /\ \A j \in 1 .. i : commands[j] # Broken})
  IN  [k \in DOMAIN names |-> [name |-> names[k], server |-> server, available |-> TRUE]]

Raises(commands) == \E i \in DOMAIN commands : commands[i] = Broken

\* Mutant: no entry is skipped.
TakenUnchecked(commands, server) ==
  [i \in DOMAIN commands |-> [name |-> commands[i], server |-> server, available |-> TRUE]]

\* Mutant: a server without commands is left out.
TakenDropsSilent(commands, server) ==
  IF Raises(commands)
  THEN Unavailable(Parsed(commands, server)) \o Unavailable(OfServer(cache, server))
  ELSE Parsed(commands, server)

\* Mutant: the commands parsed before an entry raised stay available.
TakenKeepsPartial(commands, server) ==
  LET parsed == Parsed(commands, server)
      kept   == Unavailable(OfServer(cache, server))
  IN  IF Raises(commands) THEN parsed \o kept
      ELSE IF parsed = <<>> THEN kept
      ELSE parsed

\* What a server's answer adds to the new cache: the commands of a good one;
\* for one that raises, or has no command, what the cache has of the server,
\* as unavailable.  An answer that raises after the first commands adds these
\* as well.
Taken(commands, server) ==
  LET parsed == Parsed(commands, server)
      kept   == Unavailable(OfServer(cache, server))
  IN  IF Raises(commands) THEN Unavailable(parsed) \o kept
      ELSE IF parsed = <<>> THEN kept
      ELSE parsed

TakeCommands(commands) ==
  LET server == Head(todo).server IN
  /\ fresh' = fresh \o Taken(commands, server)
  /\ down' = IF Raises(commands)
                \/ (Parsed(commands, server) = <<>> /\ OfServer(cache, server) # <<>>)
             THEN down \cup {server} ELSE down
  /\ asked' = asked \cup {server}
  /\ healthy' = IF Raises(commands) THEN healthy
                ELSE healthy \cup {[name |-> e.name, server |-> server] :
                       e \in {Parsed(commands, server)[i] :
                                i \in DOMAIN Parsed(commands, server)}}
  /\ todo' = Tail(todo)
  /\ UNCHANGED <<cache, pc, served>>

\* The commands are in the proxy's answer.
TakeListed(commands) ==
  /\ pc = "servers" /\ todo # <<>>
  /\ Head(todo).url /\ Head(todo).listed
  /\ TakeCommands(commands)

\* GET server_url/commands answers; a failure is an empty list.
FetchAnswers(commands) ==
  /\ pc = "servers" /\ todo # <<>>
  /\ Head(todo).url /\ ~ Head(todo).listed
  /\ TakeCommands(commands)

\* An exception that refresh does not catch ends it, and what it has collected
\* is lost: data.get on a server's body that is no object, a server id or a
\* summary that is no string.
RefreshRaises ==
  /\ pc = "servers" /\ todo # <<>>
  /\ pc' = "idle"
  /\ todo' = <<>>
  /\ UNCHANGED <<cache, down, fresh, asked, healthy, served>>

\* The timer of the chat cancels the await.
Cancelled ==
  /\ pc # "idle"
  /\ pc' = "idle"
  /\ todo' = <<>>
  /\ healthy' = {}
  /\ UNCHANGED <<cache, down, fresh, asked, served>>

Publish ==
  /\ pc = "servers" /\ todo = <<>>
  /\ cache' = fresh
  /\ pc' = "idle"
  /\ served' = healthy
  /\ UNCHANGED <<down, todo, fresh, asked, healthy>>

\* A server that keeps failing halfway through adds its first commands to the
\* cache in every refresh; MaxCache bounds how long this is followed.
Next ==
  \/ StartRefresh /\ Len(cache) <= MaxCache
  \/ ListFails \/ SkipServer \/ RefreshRaises \/ Cancelled \/ Publish
  \/ \E servers \in Upto(ServerEntries, MaxServers) : ListAnswers(servers)
  \/ \E commands \in CommandLists : FetchAnswers(commands)
  \/ \E commands \in ProxyLists : TakeListed(commands)

Spec == Init /\ [][Next]_vars

-----------------------------------------------------------------------------
(* Properties *)

TypeOK ==
  /\ cache \in Seq(Entries) /\ fresh \in Seq(Entries)
  /\ down \subseteq Servers /\ asked \subseteq Servers
  /\ pc \in {"idle", "list", "servers"}
  /\ todo \in Seq(ServerEntries)
  /\ healthy \subseteq [name : Names, server : Servers]
  /\ served \subseteq [name : Names, server : Servers]

Command(entry) == [name |-> entry.name, server |-> entry.server]

\* The commands of a list that are available, of all that the list knows.
Available(entries) ==
  {Command(entries[i]) : i \in {j \in DOMAIN entries : entries[j].available}}
Known(entries) == {Command(entries[i]) : i \in DOMAIN entries}

\* A published list offers what servers answered well with, and nothing that
\* was only known from an earlier refresh or came with an error
\* (command_discovery.py:119-143).
AvailableIffServed == Available(cache) = served

\* "On server failure: mark that server's commands unavailable, keep in list"
\* (command_discovery.py:87): publishing never forgets a command of a server
\* that was asked and gave no usable answer.
KnownCommandsKept ==
  [][cache' # cache =>
       \A c \in Known(cache) :
         c.server \in asked /\ (\A h \in healthy : h.server # c.server)
           => c \in Known(cache')]_vars
=============================================================================
