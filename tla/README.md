# Verification of the Model Workplace workstation (mwps)

The repository is an adapter (`mwps`) that lets a language model use the
commands of the servers behind an MCP proxy, within sessions that are kept in
Redis; a database server that gives other processes the same Redis data; and
generators, validators and launchers for the configurations of all of these.
This directory has TLA+ modules of the parts whose behaviour is hard to test,
the TLC runs that check them, and proofs.  Paths below are relative to
`src/src/`, those that begin with `docker/`, `container/` or `docs/` to `src/`; `PROJECT.json` names for each definition the lines it stands for.

## 1. The system

| Part (files) | State | Operations | Talks to |
|---|---|---|---|
| Chat flow (`mwps/chat_flow.py`) | the history of one request, the round, the proxy client | ask the provider, run the tool calls of a reply one by one, at most `max_tool_rounds` rounds | provider client (in another thread), proxy client |
| Proxy client (`mwps/proxy_client.py`) | a lazily created JSON-RPC client | `list_servers`, `call_server`, `help`, `close`; over `wss://` the WebSocket first, then HTTP | proxy, and the servers behind it |
| `mwps_chat` (`mwps/commands/mwps_chat_command.py`) | none of its own | under one timer: read the session, build the context, discover commands, build the tools, run the flow, store the user's message and the reply | all of the above and Redis |
| Session store (`mwps/session_store.py`) | session hashes in Redis, or a dict | get, create, update | Redis |
| Session commands (`mwps/commands/session_*`, `add_command_*`, `remove_command_*`) | none | create, update fields, add or remove a command | session store |
| Database server (`database_server/`) | none (a shared Redis client) | create, get, update a session; write and list messages | the same Redis keys, from another process |
| Message store and writer (`mwps/message_store.py`, `message_stream_writer.py`) | message hashes in Redis | list a session's messages by time, write one | Redis |
| Context builder (`mwps/context_builder.py`, `relevance_slot_builder.py`) | none | standards, rules, last N messages, older messages by relevance; trim to a token limit | message store, session store |
| Tool list (`mwps/effective_tool_list_builder.py`, `commands_policy_config.py`, `tool_call_registry.py`) | the registry of a chat | filter by policy and session, order, one command per name | discovery, session |
| Command discovery (`mwps/command_discovery.py`) | the cache of commands | refresh from the proxy and the servers | proxy, servers |
| `get_model_context` | none | show what a chat would send | as `mwps_chat` |
| `invoke_tool` (`mwps/commands/invoke_tool_command.py`) | none | run one tool as the model would, with a tool list of its own and no session | discovery, proxy, servers |
| Provider side (`mwps/provider_*.py`, `mwps_provider_client.py`, `model_provider_resolver.py`) | the `provider_clients` section | validate and generate the section, resolve the endpoint of a model, make the client, ask it | the model's server |
| Adapter configuration (`mwps/config.py`, `config_generator_core.py`, `config_cli.py`, `docker_config_validation.py`, `registration.py`) | the configuration file, the environment | generate, validate, register, load at each chat | the launchers, `mwps_chat` |
| Images (`docker/`, `container/`: `entrypoint.sh`, `generate_config.py`, `run_adapter.py`) | certificates, the file, the process | generate or keep the file, check it, start | the adapter library, Redis or the model's server |
| Configuration tools (`database_server/`, `database_client/`, `model_workspace_server/`, `model_workspace_client/`: `config_*.py`) | one configuration file each | `generate`, `validate`, `test-connection` | the file system, a server |
| Documentation slot, depth guard, representations, server resolver, direct client | | | see section 6 |

### What is hard in it

* The chat flow is one coroutine that may be cancelled at every await while the
  servers go on running what it has asked for.  The fallback from WebSocket to
  HTTP sends a command a second time when the first may have been run.
* Sessions are read, merged and written back whole, by several processes,
  with no transaction.
* A chat works from snapshots: the session, the discovered commands, the
  context (which is read from Redis in two pieces).
* Turns are two writes with one time; chats of a session overlap, and the
  adapter may die in between.
* The filters of the tool list (policy, session lists, vectorization commands,
  preferred server, first of a name) interact, and an empty list means "no list".
* Servers may fail in the middle of a refresh.
* A setting comes from a template, the environment, the command line or the file,
  and most have several places in the file.  Generators, validators, launchers and
  the loader are separate code that must agree about all of these.
* A configuration file is written twice by every generator, never atomically, and
  read again by each chat; between a write and a read stand restarts, edits and the
  command line.

`hazards` in `PROJECT.json` lists these at their lines, with the properties
that would catch them going wrong.

## 2. Modules

| Module | What it is |
|---|---|
| `Conversation` | what the chat flow promises: one request's exchange with the model, without transports and waits (abstract) |
| `ChatFlow` | refines `Conversation`: the chat flow, its dispatchers, the proxy client's transports, the servers, the timer |
| `SessionStore` | what the store promises: each operation one atomic step (abstract) |
| `RedisSessions` | the commands as the single Redis calls they make, for any number of processes; refines `SessionStore` with one process |
| `ToolList` | policy, session lists, order and names as operators (no state) |
| `SessionTools` | session commands, chats of one session, and `invoke_tool` over time, with the tools of `ToolList` |
| `Discovery` | refreshes of the command cache |
| `SessionTurns` | what a session keeps of its chats: a log of turns (abstract) |
| `ChatSession` | refines `SessionTurns`: overlapping chats of one session on the message store, the database server, crashes |
| `ContextBuilder` | what the context of a request is, and what `get_model_context` shows |
| `Settings` | layers of settings, URLs, certificates, the base file of the adapter library (operators) |
| `ProviderConfig` | the `provider_clients` section, registry, resolver and client (operators) |
| `AdapterConfig` | the adapter's file: three ways to generate it, the rules of the launchers, and loading (operators) |
| `AdapterStart` | the life of both images over this file: starts, kills, edits, chats |
| `DatabaseServerConfig`, `WorkspaceServerConfig`, `DatabaseClientConfig`, `WorkspaceClientConfig` | settings, generator and validator of one package each (operators) |
| `ConfigTools` | the tools of these four packages at work on a file; takes them with `INSTANCE` |
| `*_proofs` | proofs about `ChatFlow`, `RedisSessions`, `SessionTools`, `Discovery`, `ChatSession`, `ContextBuilder`, `AdapterStart` and `ConfigTools` |
| `MC*` | instances for TLC |

A definition whose comment begins with "Mutant" is a plausible bug; nothing uses it.
Put in the place of the definition that follows it, it must break the property that
`mutants` in `PROJECT.json` names.

### Conversation and ChatFlow

`Conversation` is what the caller of `run_chat_flow` may rely on: the model is asked
within its budget; each of its calls is answered in turn, with a server's result only
if a server has run that very call; the message returned is the last of the history.
`ChatFlow` implements it (`ConversationRefined`): `pending` is `calls` behind
`answered`, `budget` the rounds that are left, and the waits, the choice of a
transport and the fallback are not to be seen.

In `ChatFlow`, one run of `run_chat_flow`, `pc` is where the coroutine is: `"loop"` (the
head of `for round_num`), `"provider"` (awaiting the thread), `"tools"` (the
loop over `tool_calls`), the waits of a tool call (`"rest"` for `GET /list`;
`"ws"`, `"http"` before and `"wsWait"`, `"httpWait"` after the request has left),
`"closing"` and `"end"`.  A message is known by its position in `history`, and
keeps its role, its tool calls, and for a tool message where the content came
from.  `sent` has the requests that have left, `effects` those that a server has
run (`ServerRuns`, at any time after the sending, also when nobody waits any more).
`registered` is session mode: then names go through the registry
(`SessionRoute`), otherwise the gateway names are known (`DirectRoute`).
`WsFallback` is enabled before and after the sending, as `_call` catches every
exception of the WebSocket path.  `Timeout` is the cancellation by
`asyncio.wait_for` at an await.

### SessionStore and RedisSessions

`SessionStore` is the interface of `session_store.py:62-82` (and what
`InMemorySessionStore` does).  `RedisSessions` has one step per Redis call:
create is an `hset`; update is `hgetall` and `hset`; add and remove are
`hgetall` (their own), `hgetall` (of the update) and `hset`, each of which may
fail.  The database server's session commands make the same calls, so it is
another element of `Procs`.  `revoked` is a history variable: the commands that
were removed and not granted since.  The fields are the model and the two
lists; the fields left out go through get and update as the model does.

### ToolList and SessionTools

A command id is the sequence of the segments that dots separate, so
`parse_command_id` splits where the code does.  `RegistryOf` is
`build_effective_tool_list`: `Permitted` (policy, then session), `Offered` (with
the vectorization commands), `Position` (the order of the list) and `Winner`
(the first of a name).  `SessionTools` has the session commands as atomic steps
between the awaits of a chat that reads the session (`StartChat`), discovers
commands and builds its registry (`BuildTools`, `BuildFails`) and runs calls by it.
`InvokeTool` is `invoke_tool` with `run_tool_like_model`: a registry of its own without
a session's lists, and `Kind`, the order in which a name is looked for there.
`Segments` are the parts of names; `Entries` says what a discovery may contain.

### Discovery

`refresh` with its awaits: the answer of the proxy, then server after server.  A
server's answer is a list of names in which an entry may be skipped (`Odd`) or
raise (`Broken`).  `healthy` and `served` are history variables: what servers
answered well with in this refresh, and in the one that published the cache.
`Select` is a sequence with some of its places left out, in order.

### SessionTurns, ChatSession and ContextBuilder

`SessionTurns` is a session as a log: a turn, the user's message with its reply, is
appended at one point (`Records`), and only then its caller gets the reply (`Replies`);
chats read whole turns.  A caller that is told of a failed write, or loses its chat in a
crash, knows nothing: the log may have no turn of it, a whole one, or a message without
its reply.  `ChatSession` implements it (`TurnsRecorded`): `Log` has the turns in the
order of their times, without the one that is being written; `Seen` the turns among the
messages that a chat began with.

`ChatSession` is the message store under overlapping chats: the two reads of the
context, the flow as a whole, the two writes, the answer.  The Redis client of the
adapter is synchronous and there is no await in between, so chats of one adapter do not
interleave there (`LoopFree`); the database server's writes and a crash do.  A write that
raises (`WriteUserFails`, `WriteReplyFails`) may have been applied, and the adapter may
die between the last write and the answer (`"replying"`, `Reply`).
`ContextBuilder` has the algorithm without interleaving: every message with its
segment, place, size and score.  `Cut` is where a Python slice cuts, in the last N
messages (`Recent`) and in those before them (`Older`), which two files compute apart;
`Loop` is the loop of the trim, round by round, with the messages it has dropped and the
characters it counts down.

### Settings and the packages' configurations

A file is a record with the fields that some validator or reader looks at; its
`sections` are the project's own.  `BaseFile` is what the adapter library's
`SimpleConfigGenerator` writes (external, modelled from its calls): it has none of them.
`Overlay` is `merge_settings`, the same in every package: blank values do not
override.  In each `*Config` module `EnvOverlay` and `CliSettings` are the layers,
`Base` and `Generated` the two states of the file, and `Accepts` the validator's "no
errors".  Certificate, key and CA of one purpose stand for each other, as does
`log_dir` for the other directories: the code treats them alike.  A number that does
not parse is passed over by the overlays, and is `Unset`.

`ConfigTools` has the two writes of `generate` (`GenerateBase`, `GenerateRest`, with
`GenerateKilled` between them), `Validate`, the two reads of `test-connection`
(`TestReads`, `TestConnects`), and an operator who edits and moves certificates.
`Requests` are calls of the command line or of the generator from a program.

### ProviderConfig, AdapterConfig and AdapterStart

`ValidProviders` is `validate_provider_clients` without errors, `Generates` the section
generator, `HasClient` and `Resolved` registry and resolver, `Exchange` the client's
mapping of answers to errors.  `DockerSettings`, `ContainerSettings` and `CliSettings` are
the settings of the three generators, `Completed` what `generate_adapter_config` makes of
the base file, `ProjectOk`, `ContractOk` and `RoleOk` the checks of the launchers, and
`Loads`, `LoadedUrl` and `LoadedProxy` what `load_config` makes of file and environment.

`AdapterStart` composes them.  `pc` follows `entrypoint.sh`: `"down"`, `"generate"`
(before the base file), `"overlay"` (before the whole), `"backend"` (Redis or the model's
server), `"launch"` (`run_adapter.py`), `"up"`.  A start that fails exits and is `"down"`,
from where the container is restarted.  `Kill` may leave a torn file where one is being
written.  `ChatLoads`, `ChatAsks` and `ChatEnds` are the chat's use of the
configuration, `CliBase` and `CliRest` the command line on the mounted file.
`touched` is a history variable: whether the operator wrote the file since this start
began to.  The launcher reads the file twice in a row, which is one read here.

## 3. Runs

| Run | Shows | Bounds, and why they are enough |
|---|---|---|
| `chat_flow` | `AnsweredInOrder`, `OnlyRegisteredCommandsRun`, `RoundBudget`, `EffectsRecorded`, `DeliveredCallNotRepeated`, `ConversationRefined`, `FlowEnds` over `wss://` with the fallback at each point of the exchange; one call for each branch of the dispatchers | budgets of 0 and 2 rounds; two calls in one round, or one in each of two: a second call after a failed first one, and a second round after a finished first one, with late servers that may still run requests of earlier calls |
| `sessions` | `StoreRefined`, `RevocationHolds` for one process | 1 session, 2 commands, 2 models: sessions do not interact; one command to change and one to keep |
| `session_tools` | `RevokedNeverRuns`, `CallsGoHome`, `PreferredServerWins`, `OnlyPermittedOffered` for chats and for `invoke_tool` | two servers with the same dotted name, the preferred one listed last or down, an embedding service, a server with a command "help", and one whose id is a dotted host; open and closed policy |
| `discovery` | `AvailableIffServed`, `KnownCommandsKept` | 2 servers, lists of 2 entries (one good, one bad, in both orders), several refreshes; the cache is followed up to `MaxCache` entries before the last refresh |
| `chat_session` | `ReplyRecorded`, `TurnsRecorded`, `TurnsTogether`, `ContextComplete` | 3 chats (two that overlap and a third that reads their turns) and 1 message from outside, last N = 3, so the boundary falls within a turn; every write may fail, applied or not, and the adapter die at every point |
| `context` | `FillsLimit`, `HistoryOnce` | histories of up to 3 messages with 3 sizes (one empty) and 2 scores, N from 0 to 2, limits below, at and above the reserve |
| `adapter_start` | `RunsComplete`, `FreshConfig`, `ProxyAgreed`, `OneEndpoint`, `GeneratedLoads`, `ClearTimeout`, `Recovers` for both images | environments that differ from the default in one setting, with a value for each check that can fail and for 30, 40 and 41 seconds; 2 actions of the operator and 1 kill: what was left, and what comes on top of it |
| `config_tools` | `GeneratedIsAccepted`, `HalfWrittenRefused`, `AcceptedConnects` for the four packages | requests that differ from the default in one argument and one variable, with the values at the limits; 1 `generate`, as nothing is left of an earlier one, and 2 edits, which may put a null timeout, or a URL without scheme or with a port out of range, into a client's file |

Deadlock is not checked where the system stops: flows and chats end, the bounds of the
operator are used up, and nobody needs to refresh.  It is checked in `sessions` and
`session_tools`, where callers may always come back.

The violation runs show where the code does other than a doc or description says:

| Run | What is shown |
|---|---|
| `errors_in_band` | arguments of a tool call that are JSON but no object raise out of the flow, and its calls get no tool message |
| `lost_revocation` | two processes: a removal that was confirmed is overwritten |
| `removal_widens` | removing the last command of an allow-list makes the others available |
| `config_forbidden` | a vectorization command of the configuration's forbid-list is offered |

For each of the four a theorem says how far the promise holds all the same (section 4).

### Other disagreements met while modelling

These have no run.  Chats, sessions and tools:

* When the rounds are used up, the returned message is the last tool message
  (`chat_flow.py:569`), or with no rounds the user's own; the result is described as
  the "Final assistant reply text" (`mwps_chat_schema.py:159`).  `RoundsExhausted`.
* The trim gives up recent messages before the older ones of the slot, which stand
  behind them (`context_builder.py:178-183`); it "keeps the tail (most recent)" (`:50`).
  `Trim`, `Ordered`.
* Lists written with bare names match nothing, as the builder compares full ids
  (`effective_tool_list_builder.py:62-64`); the schemas ask for a "Command name"
  (`add_command_to_session_command.py:49`).
* `add_command_to_session` only checks the configuration's forbid-list when the
  call has a `config_path` (`:96`).  `AddCommand(c, FALSE)`.
* A chat under way keeps the registry it has built.  `RunTool`.
* `invoke_tool` has the "Same resolution and direct server call as in chat"
  (`invoke_tool_command.py:41`); but the gateway's tools go past registry and policy
  there, and a server's own command "help" wins, while a chat never reaches it
  (`chat_flow.py:521`).  `Kind`, `RunTool`.
* A dot in a server id moves the boundary of the id (`command_discovery.py:38`): the call
  goes to the last part of it, with the rest in the name.  The adapter's own id is its
  advertised host (`config_generator_core.py:96`), so such ids are ordinary.  It is the
  condition in `CallsGoHome`; `DottedAreMissed` proves that such a server is never called
  under its id.
* `mwps_chat` answers "Failed to persist messages" also when Redis has applied the write
  whose answer was lost (`mwps_chat_command.py:433-442`): the whole turn is then stored,
  and a caller that repeats its message stores it twice.  `WriteReplyFails`.
* The caller of a flow that ended with an error, an exception or the timer gets no
  history (`mwps_chat_command.py:392-401`), so it does not learn what commands ran.
  `EffectsRecorded` is about the flow's own history.
* `data.get` on a server's body that is a JSON list raises out of the refresh
  (`command_discovery.py:188`).  `RefreshRaises`.
* Both messages of a turn have one time, so their order is that of the SCAN
  (`mwps_chat_command.py:404`).  `Listing`.
* A message written between the two reads of the context may be, or push
  another, in both parts (`relevance_slot_builder.py:63`).
* `get_model_context` has a copy of the chat's code (`get_model_context_command.py:296-373`).
  The messages are built by the same calls.  But without session tools it shows those of
  the file, which a chat does not send, and on an error of the builder it answers with an
  error where the chat sends the whole history.  `Chat`, `GetModelContext`.
* `add_command_to_session` and `remove_command_from_session` ignore parameters that
  come as keyword arguments, which `session_init` and `session_update` accept.
* An explicit `null` for a list leaves it alone in the adapter's update, and empties it
  in the database server's.
* Nothing calls `ModelCallDepthGuard` ("Before starting a model invocation from a tool:
  check current_depth < max", `model_call_depth_guard.py:15`), so
  `max_model_call_depth` limits nothing.

The adapter's configuration:

* "Increase the command timeout in the adapter config (e.g. 300) and restart the
  container" (`docs/container_usage.md:30`): docker's entrypoint generates the file anew
  at each start (`docker/entrypoint.sh:20-22`), and the edit is gone.  `EnterDocker`;
  this is why `FreshConfig` holds.
* In the container image a generate that raised, or was killed, leaves the base file
  or a part of it; later starts find a file, skip the generate, and never get past the
  launcher (`Recovers` is about docker only).  A new environment does not reach a file
  that exists.
* An `https` URL of the model's server always raises: the generator's section has an
  empty `tls`, which its own validator refuses, after the base file was written over the
  earlier good one.  A plain-`http` proxy gives a file that `register_mwps` refuses,
  because the library's registration URL is `https`.
* The adapter's `registration.server_id` is the advertised host
  (`config_generator_core.py:96`), whatever `registration_server_id` says; an advertised
  host "database-server" makes docker's launcher take the file for a database server's
  (`docker/run_adapter.py:91`) and refuse it.
* The generator's validator accepts `max_tool_rounds` 0, `timeout` 0 and an empty model,
  on which `load_config` then fails in every chat: hence `LimitsOk` in `GeneratedLoads`.
* "Environment variables override file values" (`config.py:183`): not
  `MWPS_BASE_URL`, over which stands the default provider's URL.  `LoadedUrl`.
* "invalid config blocks startup" (`config.py:102`): the container image's launcher does
  not look at the project's sections.
* A default provider other than `mwps` validates and launches, and fails in the first
  chat (`provider_registry.py:109`).  `HasClient`.
* docker's launcher replaces every wait of 30 seconds by the command timeout
  (`docker/run_adapter.py:117-124`); up to 40 seconds the chat's own timer is such a wait
  (`mwps_chat_command.py:164`), and neither comes first.  In the container image the
  adapter's 30 seconds are never after the chat's.  `ClearTimeout` has the rest.

The configuration tools of the packages:

* The database server's `--no-verify-client` cannot validate
  (`database_server/config_cli.py:149`, `config_validator.py:55-57`).
* `--certs-dir A` with `CERTS_DIR=B` gives `certs_dir` A with certificate files of B
  (`database_client/config_generator.py:48-53`); both clients do it.
* The database client's command line passes every default as an argument, so its
  variables for URL, timeouts and metrics have no effect.  `ArgsOverlay`.
* In `generate_from_merged` of the servers a proxy URL of the environment wins over the
  host of the arguments.
* The workspace server's `--registration-server-id` has the "default: advertised-host"
  (`model_workspace_server/config_cli.py:193`); it is the template's.
* The clients' validators accept what their connection tests cannot use (`Overlooked`):
  `connect_timeout_seconds: null` (`database_client/config_validator.py:99-100`), on which
  `int` raises before anything is tried (`database_client/config_cli.py:249`,
  `model_workspace_client/config_cli.py:335`); a port out of range, on which `urlparse`'s
  `.port` raises; and for the database client a `base_url` without a scheme.
  `AcceptedConnects` says that there is nothing else.
* The servers' `generate` ends with 0 for settings that their validator refuses.

### Assumptions of the models

* Fairness in `chat_flow`, `WF_vars(Flow)`: the coroutine goes on when it can,
  because the provider client, the WebSocket channel (30 s) and the HTTP client
  have timeouts, so that every await ends.  Nothing is assumed of the timer, of
  the servers, or of the model, which may call tools in every round.
* Fairness in `adapter_start`, `WF_vars(Boot)`: a container that is down is started again
  (`--restart=always`, `docker/build_and_run.sh:105`), and a start goes on by itself.
  Nothing is assumed of the operator or of chats.
* Two turns never read the same clock value (microseconds, and a Redis write in
  between); `TurnsTogether` rests on it, as its mutant shows.
* `ContextComplete` holds as long as SCAN keeps its order for messages with the
  same time between the two reads; the run has a fixed order.
* Callers of `message_write` repeat a uuid only to retry the same write.
* Certificates that are on disk can be loaded.  URLs in a client's file are strings, and
  its paths have no "~", which the validator expands and the connection test does not.
* The Redis calls are atomic, as Redis guarantees.  A SCAN is taken as one read.
* The adapter library is external: its generator writes the base file as it is called,
  and of its validation only the existence of certificates is known.

## 4. Proofs

`tlapm` checks every leaf of the eight proof modules, with no facts assumed but the
named assumptions on the constants, which TLC evaluates in the runs.

**`ChatFlow_proofs`**: all safety properties of the flow that the run checks, for
any tools, registry, calls per reply, rounds and messages.  They follow from one
inductive invariant, `FlowInv`, and `RoundInv` beside it:

- `WorkInv`: while calls are being answered, the entry that made them stands
  `answered` entries before the end of the history, and what follows it are the
  answers so far.  `AnsweredInOrder` alone is not inductive: it does not say that
  the *next* tool message lands behind the right reply.
- `HistoryInv`: every other reply has all its answers, so that the flow may go on.
- `SentInv`: a request that was sent belongs to the call being run, and has its kind
  and target, or to the tool message at its position.  It carries the request through
  fallbacks, failures and timeouts: `EffectsRecorded`, `OnlyRegisteredCommandsRun` and
  `DeliveredCallNotRepeated` all read it off.  The last needs one thing more: as long
  as the flow waits on the WebSocket, nothing of the call has left over HTTP.
- `RoundInv`: as many replies as rounds at most, and one less while the provider is
  asked; the cardinality of the set of replies grows by one with each.

A step either leaves history and calls alone (`QuietStep`, `SendKeeps`,
`ServerRunsKeeps`) or appends one entry (`Appended`: what was said of the earlier
entries still holds): a reply, or an answer (`AnswerKeeps`).  Assumptions:
`ToolsAssumption`, `RegistryAssumption`, `BoundsAssumption`.

- `ConversationImplemented`, the refinement: a step appends an entry to both
  histories, ends both, sends or runs a request, or is a stutter (`Hidden`).  It rests on
  `FlowInv` and on `TurnInv`: where the flow is tells what the last entry is, so
  that "the model has the turn" and "the conversation is over" mean the same in both.
  That a result is that of the very request is in `Answers` of the abstract
  specification; the mutant takes any response on the channel.
- `StepsBounded`, the part of `FlowEnds` that is no liveness: each step of the flow, the
  timer's too, lowers the natural number `Rank`, and the servers' steps leave it alone.
- `UnansweredOnlyIfMalformed`: a call stays without its tool message, if not by the timer,
  only when the arguments of its reply were malformed (`RaisedInv`); so
  `ErrorsAnsweredInBand` holds if no call is (`AnsweredInBandUnlessMalformed`).

**`RedisSessions_proofs`**: the types for any number of processes; and that a revocation
holds (`RevocationHoldsUndisturbed`) and that the commands implement `SessionStore`
(`StoreRefinedUndisturbed`) in every behaviour that is `Undisturbed`: no write falls
between the first read and the write of another command on the same session.  The
code has no lock that would ensure this, and the run `lost_revocation` shows what
comes of it; the theorems say that it is all that is missing.  The invariant `SInv`
adds that what a process has read between its calls is still what is stored when it
writes (`Fresh`).  A single process disturbs nobody (`…Alone`).

**`SessionTools_proofs`**: all invariants of `session_tools`, for commands, server ids and
names of any segments, any policy and any discoveries (`InputsAssumption`); but
`CallsGoHome` reaches only servers whose ids have no dots, and the others are missed for
certain (`DottedAreMissed`).  The
invariant `IInv` says that the chat's tools are `RegistryOf(policy, snapshot, found)`; the
rest is about that operator: an id parses into the name and server it was made of, if the
server's id is one segment (`IdParts`, `PartsOfId`), the winner of a name exists and is offered (`Winners`), and the preferred
server's place is before every other's (`Positions`).  Two promises that the code does
not keep have their limits here.  Of the commands that the configuration forbids,
only vectorization commands are offered, and only those that the session does not
forbid (`OnlyVectorsEscapePolicy`, `ForbiddenByConfigStaysOut`).  A removal makes something
available only when it takes the last command off an allow-list (`RemovalNarrows`), and
then nothing outside the policy or forbidden to the session (`RemovalStaysWithinPolicy`).

**`Discovery_proofs`**: all properties of `discovery`, for lists of any length.  `DInv`
says of a refresh under way what the properties say of a published list: what is
available in the new cache is what was answered well, and a server that was asked and
is not healthy is remembered (`Remembered`).  `SelectFacts` says which entries `Select`
keeps, for sequences of any length.

**`ChatSession_proofs`**: all properties of `chat_session`, for any chats and messages of
the database server.  `TurnInv` has which messages of a turn are stored at each place of
its chat; `RecordInv` that the messages of a turn, and only those, have one time;
`ReadInv` that what was read is in the order of time; `ContextInv` that what a chat
found when it began is among its last messages, in the slot, or about to be read as
older.  `ContextIsComplete` assumes `OneScanOrder`, one fixed order of the SCAN, as the
run does.  That a listing exists at all is `ListingExists`; `StaysOlder` says that a
write in between cannot bring an older message among the last ones.  `TurnsImplemented` is
the refinement of `SessionTurns`: the second write, whether it returns or raises, is the
point at which the turn is appended.  Its invariant, `LogInv`, says that the times of the
turns are 1, 2, ... without a gap and that one chat at a time is between its writes, and
has the last of them: so that `Log` is a sequence, grows at its end, and no turn in it
ever changes.  `UnansweredIsNotStored` says it of the store: a chat that ended with an
error or by the timer has left nothing there.

**`ContextBuilder_proofs`**: all invariants of `context`, for any sizes, scores, limits and
lengths.  `AnswerInv` says that each answer is the trim of the ordered context, the
fallback or an error.  The invariant of the trim's loop, `LoopInv`, says that the
characters it holds are those of the messages it has not dropped, and that the context
was beyond the limit before each drop; it rests on `ChopFirst` (the sum of a sequence is
its first size and the sum of the rest), and its end on the bound of the rounds
(`LoopFacts`).  For `HistoryIsOnce`, `RecentFacts` and `OlderFacts` say which messages
each slice has, on the two sides of one boundary; `PlaceTaken` (every place of the sorted
slot has a message, because numbers of better messages are different and there are as
many of them as places) makes `Sorted` a permutation; `OrderedFacts` puts them together.

**`AdapterStart_proofs`**: all invariants of `adapter_start`, for any
environments, command lines, edits and numbers of kills.  The invariant `IInv` has a
part for each thing that a step may disturb: `SettingsInv` (timeouts are numbers),
`FileInv` (a readable file has the fields), `FreshInv` (where a start is, if the operator
did not write), `RunInv` (what runs has passed the launcher), `ChatInv` (a chat has what
loading made of its own copy of the file).  `GeneratedLoads` is inductive with
`ProvidersInv`: whoever completes the file or edits its providers has validated them.
`GoodStartsComeUp` is the part of `Recovers` that is no liveness: with a good environment
no step of a docker start fails, whatever file it began with, and each brings it one
stage closer to an adapter that is up, unless the operator writes the file under it.
`FilesAssumption` says that what a script generates is a file, neither absent nor torn.

**`ConfigTools_proofs`**: all invariants of `config_tools`, for any requests,
edits and certificates (`ToolInv`: the last request is one of this tool), and
`MergedOnce`: the workspace client puts environment and template under its settings
twice, and the second time changes nothing.  In `GeneratedAccepted`, the agreement of
each generator with its validator, the lemmas `…Settings` say what the layers leave of a
request's arguments (`MergedField`: the value of the highest layer that has one), and the
lemmas `…Accepts` that the file of such settings passes each rule.  The assumptions in
`ConfigTools` give the kinds of the arguments: a program may leave out any, the servers'
command lines have a default for each.

What a listing, a sum or a selection contains is a statement about data of any length,
and an induction over it needs a theorem with an operator as a parameter.  The proofs
take a least counterexample instead (`LeastNat`, `LeastExists`, `FirstRecord`): the set of
lengths, or of positions, for which the statement fails is a set of naturals; if it is
not empty it has a least element, which is not the first, and the step from the one
before it contradicts that.

Only model-checked: `FlowEnds` and `Recovers`.  Liveness under fairness is out of the
prover's reach; that no step leads away from the end is proved (`StepsBounded`,
`GoodStartsComeUp`), that a step is always enabled until then is what TLC adds.

## 5. Plan

1. (done) chat flow, sessions, tool list and session tools, discovery, chat
   session, context.
2. (done) `invoke_tool`; the provider side; the adapter's configuration with the life of
   its images; the configuration tools of the four packages.
3. (done) proofs of the safety properties of all of these; the abstract specifications
   `Conversation` and `SessionTurns` and the proofs that flow and chats implement them.
4. (left) an abstract specification of `Discovery` (a published list as one atomic step of
   a refresh) and its refinement; two chats of one session in `SessionTools`.
5. (left) nested chats, if the code comes to use its depth guard: `mwps_chat` as a tool of
   `mwps_chat`, with the call stack and the budget of calls it is meant to keep.

## 6. Not modelled

`components` in `PROJECT.json` gives the reason for each part.

* The call stack, the depth guard and the allow-list of model-calling tools: no code calls
  them, so there is no behaviour of the program to state.
* The documentation slot: no caller gives it a source; it is always empty.
* Representations, safe names and aliases: formatting of messages and tools, on which no
  property depends.
* Server resolver and direct client: I/O that returns an answer or raises; the answers
  are those of `Discovery` and `ChatFlow`.
* `show-schema` and `sample` of the configuration tools print constants; the files with
  standards, rules and tools that the adapter's configuration names are text that is read.
* `messages_get_by_session` of the database server reads and changes nothing; health checks
  and embeddings of the provider client have no caller.
* The library `mcp_proxy_adapter`: its server, its validation and its heartbeat are
  external.
