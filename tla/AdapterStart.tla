----------------------------- MODULE AdapterStart -----------------------------
(***************************************************************************)
(* The life of the adapter that runs mwps_chat, in either of its images    *)
(* (docker/ and container/: entrypoint.sh, generate_config.py,             *)
(* run_adapter.py): each start generates the configuration file or finds   *)
(* it, checks it, and runs; a chat then reads the file and the environment *)
(* again.  Meanwhile the operator edits the file, generates it with the    *)
(* command line, mounts certificates or creates the container anew; and    *)
(* whatever runs may be killed between any two steps, or in a write.       *)
(*                                                                         *)
(* A start that fails exits, and the container is restarted.               *)
(***************************************************************************)
EXTENDS AdapterConfig

CONSTANTS Torn,        \* a file that was only partly written
          Images,      \* a subset of {"docker", "container"}
          Envs,        \* environments a container may be created with
          CliArgs,     \* arguments that the command line may be given
          Edits,       \* sections and timeouts that an edit may put in
          MaxChanges,  \* bound on what the operator does
          MaxKills     \* bound on how often what runs is killed

ASSUME StartAssumption ==
  /\ Images \subseteq {"docker", "container"}
  /\ \A e \in Envs : e.COMMAND_EXECUTION_TIMEOUT_SECONDS \in Int \cup Blank
  /\ \A e \in Edits : e.command_timeout \in Int
  /\ \A e \in Envs : Get(e.CERTS_DIR, "/app/certs") \in Dirs
  /\ "llama3.2" \notin Blank

ASSUME BoundsAssumption == MaxChanges \in Nat /\ MaxKills \in Nat

(* What a script generates is a file.                                      *)
ASSUME FilesAssumption ==
  \A e \in Envs :
    LET s == DockerSettings(e)
    IN {Base(s), Completed(Base(s), s)} \cap {Unset, Torn} = {}

VARIABLES image,    \* which image this is
          env,      \* the environment of the container
          disk,     \* directories with certificates
          file,     \* the configuration file, Torn, or Unset: there is none
          pc,       \* where the container is in its start
          cli,      \* settings of a generate on the command line in progress
          touched,  \* the operator wrote the file since this start's base file
          running,  \* the configuration and role of the adapter that is up
          chat,     \* the chat in progress
          changes, kills

vars == <<image, env, disk, file, pc, cli, touched, running, chat, changes, kills>>

Readable(f) == f \notin {Unset, Torn}

Mine == IF image = "docker" THEN DockerSettings(env) ELSE ContainerSettings(env)

Init ==
  /\ image \in Images
  /\ env \in Envs
  /\ disk \in SUBSET {Get(env.CERTS_DIR, "/app/certs")}
  /\ file = Unset
  /\ pc = "down"
  /\ cli = Unset /\ touched = FALSE
  /\ running = Unset /\ chat = Unset
  /\ changes = 0 /\ kills = 0

-----------------------------------------------------------------------------
(* The start of the container.                                             *)

Exit == pc' = "down"

\* Mutant: a file that is there already is kept.
EnterDockerKeepsFile ==
  /\ image = "docker"
  /\ pc = "down"
  /\ Mine.certs_dir \in disk
  /\ pc' = IF file = Unset THEN "generate" ELSE "backend"
  /\ UNCHANGED <<image, env, disk, file, cli, touched, running, chat, changes, kills>>

\* Mutant: the file that is there is read first, and one that cannot be ends it.
EnterDockerReadsFile ==
  /\ image = "docker"
  /\ pc = "down"
  /\ Mine.certs_dir \in disk
  /\ file # Torn
  /\ pc' = "generate"
  /\ UNCHANGED <<image, env, disk, file, cli, touched, running, chat, changes, kills>>

(* entrypoint.sh of docker: no start without certificates, and a new file  *)
(* at every start.  (Without them it exits, and is down again.)            *)
EnterDocker ==
  /\ image = "docker"
  /\ pc = "down"
  /\ Mine.certs_dir \in disk
  /\ pc' = "generate"
  /\ UNCHANGED <<image, env, disk, file, cli, touched, running, chat, changes, kills>>

(* entrypoint.sh of container: certificates and a file where there are none*)
EnterContainer ==
  /\ image = "container"
  /\ pc = "down"
  /\ disk' = disk \cup {Mine.certs_dir}
  /\ pc' = IF file = Unset THEN "generate" ELSE "backend"
  /\ UNCHANGED <<image, env, file, cli, touched, running, chat, changes, kills>>

(* generate_config.py up to the base file, and from there.                 *)
GenerateBase ==
  /\ pc = "generate"
  /\ IF NumbersOk(image, env) /\ ~ BadProxy(Mine)
     THEN file' = Base(Mine) /\ touched' = FALSE /\ pc' = "overlay"
     ELSE Exit /\ UNCHANGED <<file, touched>>
  /\ UNCHANGED <<image, env, disk, cli, running, chat, changes, kills>>

GenerateRest ==
  /\ pc = "overlay"
  /\ IF Readable(file) /\ ProjectOk(Completed(file, Mine))
     THEN file' = Completed(file, Mine) /\ pc' = "backend"
     ELSE Exit /\ UNCHANGED file
  /\ UNCHANGED <<image, env, disk, cli, touched, running, chat, changes, kills>>

(* Redis, or the model's server, is started.  (That it does not start is a *)
(* way to be killed here.)                                                 *)
StartBackend ==
  /\ pc = "backend"
  /\ pc' = "launch"
  /\ UNCHANGED <<image, env, disk, file, cli, touched, running, chat, changes, kills>>

(* run_adapter.py.  Which commands are registered depends, in docker, on   *)
(* the server id; those of the chat demand the contract.                   *)
RunsAs(f) == IF image = "docker" THEN Role(f) ELSE "chat"

LauncherOk(f) ==
  /\ AdapterOk(f, disk)
  /\ IF image = "docker" THEN RoleOk(f) ELSE MtlsOk(f)
  /\ RunsAs(f) = "chat" => ContractOk(f)

\* Mutant: the adapter runs before the checks that end the start.
LaunchThenCheck ==
  /\ pc = "launch"
  /\ pc' = IF Readable(file) /\ LauncherOk(file) THEN "up" ELSE "down"
  /\ running' = IF Readable(file) THEN [config |-> file, role |-> RunsAs(file)]
                                  ELSE running
  /\ UNCHANGED <<image, env, disk, file, cli, touched, chat, changes, kills>>

Launch ==
  /\ pc = "launch"
  /\ IF Readable(file) /\ LauncherOk(file)
     THEN pc' = "up" /\ running' = [config |-> file, role |-> RunsAs(file)]
     ELSE Exit /\ UNCHANGED running
  /\ UNCHANGED <<image, env, disk, file, cli, touched, chat, changes, kills>>

-----------------------------------------------------------------------------
(* A chat: mwps_chat loads file and environment, run_chat_flow resolves    *)
(* the model's endpoint, makes the client of the default provider and asks *)
(* it.                                                                     *)

(* The code of the error that ends a load: -32603 for the provider's       *)
(* section, -32602 for what is missing (a file that is no JSON, too).      *)
LoadError(f) ==
  IF /\ Readable(f)
     /\ {"mwps", "provider_clients"} \subseteq f.sections
     /\ f.body.commands_policy \in {Unset, "allow_by_default", "deny_by_default"}
     /\ ~ ValidProviders(f.providers)
  THEN "-32603" ELSE "-32602"

ChatLoads ==
  /\ pc = "up" /\ running.role = "chat"
  /\ chat = Unset
  /\ chat' = IF Readable(file) /\ Loads(file, env)
             THEN [config |-> file, url |-> LoadedUrl(file, env),
                   proxy |-> LoadedProxy(file, env), client |-> Unset,
                   reply |-> "none"]
             ELSE [config |-> file, url |-> Unset, proxy |-> Unset,
                   client |-> Unset, reply |-> LoadError(file)]
  /\ UNCHANGED <<image, env, disk, file, pc, cli, touched, running, changes, kills>>

ChatAsks(answer) ==
  /\ chat # Unset /\ chat.reply = "none"
  /\ chat' = IF /\ Resolves(chat.config.providers, chat.config.body.model)
                /\ HasDefaultClient(chat.config.providers)
             THEN [chat EXCEPT !.client = DefaultClient(chat.config.providers),
                               !.reply = Exchange(answer)]
             ELSE [chat EXCEPT !.reply = "-32603"]
  /\ UNCHANGED <<image, env, disk, file, pc, cli, touched, running, changes, kills>>

ChatEnds ==
  /\ chat # Unset /\ chat.reply # "none"
  /\ chat' = Unset
  /\ UNCHANGED <<image, env, disk, file, pc, cli, touched, running, changes, kills>>

-----------------------------------------------------------------------------
(* The operator.                                                           *)

Change == changes < MaxChanges /\ changes' = changes + 1

Down == pc' = "down" /\ running' = Unset /\ chat' = Unset

(* A container with another environment, over the same mounted directories.*)
Recreate(e) ==
  /\ Change
  /\ env' = e
  /\ Down
  /\ UNCHANGED <<image, disk, file, cli, touched, kills>>

MountCerts(dir) ==
  /\ Change
  /\ disk' = disk \cup {dir}
  /\ UNCHANGED <<image, env, file, pc, cli, touched, running, chat, kills>>

(* config_cli.py generate, onto the mounted file.                          *)
CliBase(args) ==
  /\ Change
  /\ cli = Unset
  /\ ~ BadProxy(CliSettings(args))
  /\ cli' = CliSettings(args)
  /\ file' = Base(CliSettings(args))
  /\ touched' = TRUE
  /\ UNCHANGED <<image, env, disk, pc, running, chat, kills>>

CliRest ==
  /\ cli # Unset
  /\ file' = IF Readable(file) /\ ProjectOk(Completed(file, cli))
             THEN Completed(file, cli) ELSE file
  /\ cli' = Unset
  /\ touched' = TRUE
  /\ UNCHANGED <<image, env, disk, pc, running, chat, changes, kills>>

(* An edit: another section for the providers, as its generator makes it,  *)
(* or another timeout for commands.                                        *)
Edit(e) ==
  /\ Change
  /\ Readable(file)
  /\ "provider_clients" \in file.sections
  /\ file' \in {[file EXCEPT !.body.command_timeout = e.command_timeout]} \cup
       (IF Generates(e.default, e.sections)
        THEN {[file EXCEPT !.providers = Providers(e.default, e.sections)]} ELSE {})
  /\ touched' = TRUE
  /\ UNCHANGED <<image, env, disk, pc, cli, running, chat, kills>>

(* The container is killed, in a write perhaps.                            *)
Kill ==
  /\ kills < MaxKills
  /\ kills' = kills + 1
  /\ pc # "down"
  /\ file' \in {file} \cup IF pc \in {"generate", "overlay"} THEN {Torn} ELSE {}
  /\ Down
  /\ UNCHANGED <<image, env, disk, cli, touched, changes>>

Boot == \/ EnterDocker \/ EnterContainer \/ GenerateBase \/ GenerateRest
        \/ StartBackend \/ Launch

Next == \/ Boot
        \/ ChatLoads \/ (\E answer \in Answers : ChatAsks(answer)) \/ ChatEnds
        \/ \E e \in Envs : Recreate(e)
        \/ \E dir \in Dirs : MountCerts(dir)
        \/ \E args \in CliArgs : CliBase(args)
        \/ CliRest
        \/ \E e \in Edits : Edit(e)
        \/ Kill

(* A container that is down is restarted, and a start goes on by itself.   *)
Spec == Init /\ [][Next]_vars /\ WF_vars(Boot)

-----------------------------------------------------------------------------
TypeOK ==
  /\ image \in {"docker", "container"}
  /\ disk \subseteq Dirs
  /\ pc \in {"down", "generate", "overlay", "backend", "launch", "up"}
  /\ touched \in BOOLEAN
  /\ IF pc = "up" THEN DOMAIN running = {"config", "role"} ELSE running = Unset
  /\ changes \in 0..MaxChanges /\ kills \in 0..MaxKills

(* However often a write is cut short or a generate raises between its two *)
(* files, no adapter runs on the base file alone, none of this image takes *)
(* the role of the database server, and its certificates were there.       *)
RunsComplete ==
  running # Unset =>
    /\ {"mwps", "provider_clients"} \subseteq running.config.sections
    /\ running.role = "chat"
    /\ running.config.cert.dir \in disk

(* docker: what runs is what the container's environment says, unless the  *)
(* operator wrote the file since this start's generate began.              *)
FreshConfig ==
  image = "docker" /\ running # Unset /\ ~ touched =>
    running.config = Completed(Base(Mine), Mine)

(* A chat in a file that nobody changed since the launch uses the proxy at *)
(* which the adapter registered, unless the environment names another; and *)
(* that is the proxy that the file's own mwps section names.               *)
ProxyAgreed ==
  (/\ chat # Unset /\ chat.proxy # Unset
   /\ chat.config = running.config
   /\ env.MWPS_MCP_PROXY_URL \in Blank) =>
     /\ chat.proxy = running.config.register
     /\ chat.proxy = chat.config.body.mcp_proxy_url

(* The three places that find out where the model is (the loader, the      *)
(* resolver and the registry of clients) agree whenever one is asked.      *)
OneEndpoint ==
  chat # Unset /\ chat.client # Unset =>
      /\ chat.client.url = chat.url
      /\ chat.client.url = Resolved(chat.config.providers, chat.config.body.model)

(* Generator, validators and loader agree: a chat does not fail to load    *)
(* a file as this environment generates it, unless the environment has a   *)
(* limit that is none, or no model.                                        *)
LimitsOk(e) ==
  /\ e.MWPS_TIMEOUT = Unset \/ e.MWPS_TIMEOUT > 0
  /\ e.MWPS_MAX_TOOL_ROUNDS = Unset \/ e.MWPS_MAX_TOOL_ROUNDS >= 1
  /\ e.MWPS_MODEL # Empty

GeneratedLoads ==
  (/\ chat # Unset /\ Readable(chat.config)
   /\ chat.config = Completed(Base(Mine), Mine)
   /\ LimitsOk(env)) => chat.reply \notin {"-32602", "-32603"}

(* docker: the chat's own timeout comes before the adapter's, so that the  *)
(* caller gets the chat's message, while the file has the timeout that the *)
(* launcher read and that is more than 40 seconds.                         *)
ClearTimeout ==
  (/\ image = "docker"
   /\ chat # Unset /\ chat.proxy # Unset
   /\ chat.config.body.command_timeout = running.config.body.command_timeout
   /\ running.config.body.command_timeout > 40) =>
    Patched(image, running.config, ChatSeconds(chat.config))
      < Patched(image, running.config, 30)

(* docker: from whatever the last start or the operator left, a container  *)
(* comes up while its environment and its certificates are good.           *)
GoodStart ==
  LET f == Completed(Base(Mine), Mine)
  IN /\ NumbersOk(image, env) /\ ~ BadProxy(Mine)
     /\ ProjectOk(f) /\ LauncherOk(f)

Recovers == image = "docker" /\ GoodStart ~> pc = "up" \/ ~ GoodStart
=============================================================================
