------------------------------ MODULE ConfigTools ------------------------------
(***************************************************************************)
(* The configuration tools of the two servers and their clients at work on *)
(* one file: generate writes it twice (the adapter library's base file,    *)
(* then the whole), validate reads it, and a client's test-connection      *)
(* reads it once to validate it and once more to connect.  The operator    *)
(* may edit the file or move certificates between any two steps, and a     *)
(* generate may be killed between its two writes.                          *)
(***************************************************************************)
EXTENDS Settings

CONSTANTS Requests,     \* what generate may be asked: tool, arguments,
                        \* environment, and whether the command line ("cli")
                        \* or a program ("merged") calls the generator
          BadPorts, BadEndpoints,    \* what an edit may put in
          MaxChanges,   \* bound on edits and moved certificates
          MaxRequests   \* bound on how often generate is run

DS == INSTANCE DatabaseServerConfig
WS == INSTANCE WorkspaceServerConfig
DC == INSTANCE DatabaseClientConfig
WC == INSTANCE WorkspaceClientConfig

Clients == {"database_client", "workspace_client"}
Tools == {"database_server", "workspace_server"} \cup Clients

ASSUME BoundsAssumption == MaxChanges \in Nat /\ MaxRequests \in Nat

(* What settings are made of, beside numbers: directories for certificates *)
(* (or none), certificates, the literals of the code, and the workspace    *)
(* server's transports.                                                    *)
CertDirs == Dirs \cup Blank

Certs == [dir : CertDirs, layout : {"flat", "tree"}]

Literals ==
  {".", "/app/logs", "localhost", "database-server", "model-workspace-server"}

Transports == [type : {"ws"}, fallback : {"allow", "deny"}]

(* None of them is blank.                                                  *)
ASSUME CertsAssumption ==
  /\ "mtls_certificates" \in Dirs
  /\ Blank \cap Certs = {} /\ Blank \cap Transports = {}
  /\ Blank \cap Literals = {}

(* The kinds of values that arguments and environment have.  The servers'  *)
(* command lines have a default for each argument; a program may leave out *)
(* what it likes.                                                          *)
ASSUME RequestsAssumption ==
  \A r \in Requests :
    /\ r.tool \in Tools /\ r.by \in {"cli", "merged"}
    /\ r.args.certs_dir \in CertDirs /\ r.env.CERTS_DIR \in CertDirs
    /\ r.by = "merged" => r.args.cert_files \in Blank \cup Certs

ASSUME DatabaseLineAssumption ==
  \A r \in Requests : r.tool = "database_server" /\ r.by = "cli" =>
    /\ r.args.verify_client \in BOOLEAN
    /\ r.args.advertised_host # Unset

ASSUME DatabaseProgramAssumption ==
  \A r \in Requests : r.tool = "database_server" /\ r.by = "merged" =>
    /\ r.args.verify_client \in BOOLEAN \cup Blank
    /\ r.args.storage_backend \in {"local", "redis"} \cup Blank
    /\ (ValidPort(r.args.redis_port) \/ r.args.redis_port \in Blank)

ASSUME WorkspaceRequestsAssumption ==
  \A r \in Requests : r.tool = "workspace_server" =>
    /\ r.args.fallback_policy \in {"allow", "deny"} \cup Blank
    /\ r.by = "merged" => r.args.transport_type \in {"ws"} \cup Blank

(* URLs have ports that can be: generate raises on others before it writes.*)
ASSUME UrlsAssumption ==
  \A r \in Requests :
    \A url \in IF r.tool \in Clients THEN {r.args.endpoint, r.env.ENDPOINT}
                                     ELSE {r.args.mcp_proxy_url, r.env.MCP_PROXY_URL} :
      url \in Blank \/ PortInRange(url)

VARIABLES tool,      \* whose file it is
          file,      \* the file, or Unset: there is none
          disk,      \* directories with certificates
          asked,     \* the last request to generate, or Unset
          step,      \* what is in progress
          checked,   \* the file that the running test-connection has accepted
          exit,      \* exit code of the last tool that ended, or Unset
          changes, requests

vars == <<tool, file, disk, asked, step, checked, exit, changes, requests>>

Init ==
  /\ tool \in Tools
  /\ file = Unset
  /\ disk \in SUBSET Dirs
  /\ asked = Unset
  /\ step = "idle"
  /\ checked = Unset /\ exit = Unset
  /\ changes = 0 /\ requests = 0

-----------------------------------------------------------------------------
(* The tool's settings, generator and validator.                           *)

Settings_(r) ==
  CASE r.tool = "database_server" ->
         IF r.by = "cli" THEN DS!CliSettings(r.args) ELSE DS!MergedSettings(r.args, r.env)
    [] r.tool = "workspace_server" ->
         IF r.by = "cli" THEN WS!CliSettings(r.args) ELSE WS!MergedSettings(r.args, r.env)
    [] r.tool = "database_client" -> DC!CliSettings(r.args, r.env)
    [] r.tool = "workspace_client" ->
         WC!MergedSettings(WC!CliSettings(r.args, r.env), r.env)

Refuses(r) ==
  CASE r.tool = "database_server" -> DS!NoProxy(Settings_(r))
    [] r.tool = "workspace_server" -> WS!NoProxy(Settings_(r))
    [] OTHER -> FALSE

BaseOf(r) ==
  CASE r.tool = "database_server" -> DS!Base(Settings_(r))
    [] r.tool = "workspace_server" -> WS!Base(Settings_(r))
    [] r.tool = "database_client" -> DC!Base(Settings_(r))
    [] r.tool = "workspace_client" -> WC!Base(Settings_(r))

WholeOf(r) ==
  CASE r.tool = "database_server" -> DS!Generated(Settings_(r))
    [] r.tool = "workspace_server" -> WS!Generated(Settings_(r))
    [] r.tool = "database_client" -> DC!Generated(Settings_(r))
    [] r.tool = "workspace_client" -> WC!Generated(Settings_(r))

Accepts(f) ==
  CASE tool = "database_server" -> DS!Accepts(f)
    [] tool = "workspace_server" -> WS!Accepts(f, disk)
    [] tool = "database_client" -> DC!Accepts(f, disk)
    [] tool = "workspace_client" -> WC!Accepts(f, disk)

-----------------------------------------------------------------------------
(* generate, in two writes.                                                *)
GenerateBase(r) ==
  /\ step = "idle"
  /\ r.tool = tool
  /\ requests < MaxRequests /\ requests' = requests + 1
  /\ asked' = r
  /\ IF Refuses(r) THEN exit' = 1 /\ UNCHANGED <<file, step>>
                   ELSE file' = BaseOf(r) /\ step' = "generate" /\ exit' = Unset
  /\ UNCHANGED <<tool, disk, checked, changes>>

GenerateRest ==
  /\ step = "generate"
  /\ file' = WholeOf(asked)
  /\ step' = "idle" /\ exit' = 0
  /\ UNCHANGED <<tool, disk, asked, checked, changes, requests>>

GenerateKilled ==
  /\ step = "generate"
  /\ step' = "idle" /\ exit' = 1
  /\ UNCHANGED <<tool, file, disk, asked, checked, changes, requests>>

(* validate.  Beside the tool's own rules it asks the adapter library,      *)
(* which may find fault with any file.                                     *)
Validate ==
  /\ step = "idle"
  /\ \/ exit' = 1
     \/ file # Unset /\ Accepts(file) /\ exit' = 0
  /\ UNCHANGED <<tool, file, disk, asked, step, checked, changes, requests>>

(* test-connection: it validates, ...                                      *)
TestReads ==
  /\ tool \in Clients
  /\ step = "idle"
  /\ \/ exit' = 1 /\ UNCHANGED <<step, checked>>
     \/ /\ file # Unset /\ Accepts(file)
        /\ step' = "test" /\ checked' = file /\ exit' = Unset
  /\ UNCHANGED <<tool, file, disk, asked, changes, requests>>

\* Mutant: the test does not give up the file that it has accepted.
TestConnectsHoldsFile ==
  /\ step = "test"
  /\ exit' \in IF tool = "database_client"
               THEN {DC!Outcome(file, disk, a) : a \in DC!Answers}
               ELSE {WC!Outcome(file, disk, a) : a \in WC!Answers}
  /\ step' = "idle"
  /\ UNCHANGED <<tool, file, disk, asked, checked, changes, requests>>

(* ... reads the file again, and connects.                                 *)
TestConnects ==
  /\ step = "test"
  /\ exit' \in IF tool = "database_client"
               THEN {DC!Outcome(file, disk, a) : a \in DC!Answers}
               ELSE {WC!Outcome(file, disk, a) : a \in WC!Answers}
  /\ step' = "idle" /\ checked' = Unset
  /\ UNCHANGED <<tool, file, disk, asked, changes, requests>>

(* The operator edits the file or moves certificates.  In a client's file a*)
(* timeout may become null, which is not what is read for a missing one.   *)
Edit ==
  /\ changes < MaxChanges /\ changes' = changes + 1
  /\ file # Unset
  /\ file' \in {[file EXCEPT !.sections = {}, !.body = Unset]} \cup
       IF file.sections = {} THEN {}
       ELSE IF tool \in Clients
            THEN {[file EXCEPT !.body.endpoint = u] : u \in BadEndpoints}
                   \cup {[file EXCEPT !.body.connect_timeout = Unset]}
            ELSE {[file EXCEPT !.port = p] : p \in BadPorts}
  /\ UNCHANGED <<tool, disk, asked, step, checked, exit, requests>>

MoveCerts ==
  /\ changes < MaxChanges /\ changes' = changes + 1
  /\ disk' \in SUBSET Dirs
  /\ UNCHANGED <<tool, file, asked, step, checked, exit, requests>>

Next == \/ \E r \in Requests : GenerateBase(r)
        \/ GenerateRest \/ GenerateKilled
        \/ Validate \/ TestReads \/ TestConnects
        \/ Edit \/ MoveCerts

Spec == Init /\ [][Next]_vars

-----------------------------------------------------------------------------
TypeOK ==
  /\ tool \in Tools
  /\ disk \subseteq Dirs
  /\ step \in {"idle", "generate", "test"}
  /\ (checked # Unset) = (step = "test")
  /\ exit \in {Unset, 0, 1, 2, 3}
  /\ changes \in 0..MaxChanges /\ requests \in 0..MaxRequests

(* The settings that a tool's validator has limits for are within them,    *)
(* and the certificates are there.                                         *)
InRange(r) ==
  LET s == Settings_(r)
  IN CASE r.tool = "database_server" ->
            /\ ValidPort(s.server_port) /\ s.advertised_host # Empty
            /\ s.log_dir # Empty /\ s.verify_client
            /\ s.max_connections >= 1 /\ s.request_timeout >= 1
       [] r.tool = "workspace_server" ->
            /\ ValidPort(s.server_port) /\ s.advertised_host # Empty
            /\ WS!InLimits(s.max_connections, 100000)
            /\ WS!InLimits(s.request_timeout, 86400)
            /\ WS!Certificates(s).dir \in disk
       [] r.tool = "database_client" ->
            /\ DC!ValidEndpoint(s.endpoint)
            /\ s.connect_timeout >= 1 /\ s.request_timeout >= 1 /\ s.retry_max >= 0
            /\ DC!Certificates(s).dir \in disk
       [] r.tool = "workspace_client" ->
            /\ WC!ValidEndpoint(s.endpoint)
            /\ s.connect_timeout >= 1 /\ s.request_timeout >= 1 /\ s.retry_max >= 0
            /\ WC!Certificates(s).dir \in disk

(* What a generator writes of settings in range, its validator accepts;    *)
(* none of the generators calls the validator itself.                      *)
GeneratedIsAccepted ==
  asked # Unset /\ file = WholeOf(asked) /\ InRange(asked) => Accepts(file)

(* A generate that was killed between its writes, or is not finished yet,  *)
(* leaves a file that the validator refuses, whatever it was asked.        *)
HalfWrittenRefused ==
  asked # Unset /\ file = BaseOf(asked) => ~ Accepts(file)

(* What the clients' validators accept and their connection tests cannot   *)
(* use: a null timeout, a port beyond the range, and for the database      *)
(* client a base_url without a scheme.                                     *)
Overlooked(b) ==
  \/ b.connect_timeout = Unset
  \/ b.endpoint \notin Blank /\ ~ PortInRange(b.endpoint)
  \/ tool = "database_client" /\ b.endpoint.scheme = Unset

(* There is nothing else: while nobody changes file or certificates between*)
(* its two reads, a test-connection that has accepted the file does not end*)
(* without having tried to connect, but for what the validator overlooks;  *)
(* and that it never tries (client config_validator.py against             *)
(* _test_connection_impl and _cmd_test_connection).                        *)
AcceptedConnects ==
  step = "test" /\ file = checked /\ Accepts(file) =>
    (~ Overlooked(file.body) <=>
       IF tool = "database_client" THEN DC!Connects(file, disk)
                                   ELSE WC!Connects(file, disk))
=============================================================================
