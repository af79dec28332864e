---------------------------- MODULE AdapterConfig -----------------------------
(***************************************************************************)
(* The configuration file of the adapter that runs mwps_chat: how the      *)
(* images and the command line generate it (config_generator_core.py,      *)
(* config_cli.py, docker/ and container/generate_config.py), what the      *)
(* launchers demand of it (docker_config_validation.py, registration.py),  *)
(* and what a chat loads from it (config.py).                              *)
(*                                                                         *)
(* Of the settings that are copied from one place to the other, the model  *)
(* keeps the endpoints, the model's name and the limits.                   *)
(***************************************************************************)
EXTENDS ProviderConfig

LocalUrl == Url("http", "127.0.0.1", 11434)

-----------------------------------------------------------------------------
(* Settings from the environment.  An unset variable has a default; one    *)
(* that is set to the empty string stays empty.                            *)
Get(v, default) == IF v = Unset THEN default ELSE v

ProxyUrl(env) ==
  IF env.MCP_PROXY_URL \in Blank
  THEN Url("https", Get(env.MCP_PROXY_HOST, "mcp-proxy"), Get(env.MCP_PROXY_PORT, 3004))
  ELSE env.MCP_PROXY_URL

BaseUrl(env) == Get(env.MWPS_BASE_URL, LocalUrl)

(* docker/generate_config.py.                                              *)
DockerSettings(env) ==
  [certs_dir |-> Get(env.CERTS_DIR, "/app/certs"),
   server_port |-> Get(env.ADAPTER_PORT, 8015),
   mcp_proxy_url |-> ProxyUrl(env),
   advertised_host |-> Get(env.ADVERTISED_HOST, "mwps-adapter"),
   registration_server_id |-> Unset,
   mwps_base_url |-> BaseUrl(env),
   model_server_url |-> Get(env.MWPS_MODEL_SERVER_URL, BaseUrl(env)),
   mwps_model |-> Get(env.MWPS_MODEL, "llama3.2"),
   mwps_timeout |-> Get(env.MWPS_TIMEOUT, 120),
   max_tool_rounds |-> 10,
   max_context_tokens |-> 4096,
   command_timeout |-> Get(env.COMMAND_EXECUTION_TIMEOUT_SECONDS, 120)]

(* container/generate_config.py.                                           *)
ContainerSettings(env) ==
  [certs_dir |-> Get(env.CERTS_DIR, "/app/certs"),
   server_port |-> Get(env.ADAPTER_PORT, 8443),
   mcp_proxy_url |-> ProxyUrl(env),
   advertised_host |-> "mwps",
   registration_server_id |-> Get(env.REGISTRATION_SERVER_ID, "mwps"),
   mwps_base_url |-> BaseUrl(env),
   model_server_url |-> Unset,
   mwps_model |-> Get(env.MWPS_MODEL, "llama3.2"),
   mwps_timeout |-> 60,
   max_tool_rounds |-> 10,
   max_context_tokens |-> 4096,
   command_timeout |-> 120]

(* A script converts the numbers first, and raises where one is empty.     *)
NumbersOk(image, env) ==
  /\ env.MCP_PROXY_PORT # Empty
  /\ env.ADAPTER_PORT # Empty
  /\ image = "docker" => /\ env.MWPS_TIMEOUT # Empty
                         /\ env.COMMAND_EXECUTION_TIMEOUT_SECONDS # Empty

(* The arguments of the command line, where none is given.                 *)
DefaultArgs ==
  [target |-> "docker", certs_dir |-> "/app/certs", server_port |-> Unset,
   mcp_proxy_url |-> Empty, mcp_proxy_host |-> "mcp-proxy", mcp_proxy_port |-> 3004,
   advertised_host |-> Unset, registration_server_id |-> Unset,
   mwps_base_url |-> LocalUrl, mwps_model |-> "llama3.2", mwps_timeout |-> 60,
   max_tool_rounds |-> 10, max_context_tokens |-> 4096]

(* _settings_from_args: the port and host of the target, unless given.     *)
CliSettings(args) ==
  [certs_dir |-> args.certs_dir,
   server_port |-> Or(args.server_port,
                      IF args.target = "docker" THEN 8015 ELSE 8443),
   mcp_proxy_url |-> Or(args.mcp_proxy_url,
                        Url("https", args.mcp_proxy_host, args.mcp_proxy_port)),
   advertised_host |-> Or(args.advertised_host,
                          IF args.target = "docker" THEN "mwps-adapter" ELSE "mwps"),
   registration_server_id |-> args.registration_server_id,
   mwps_base_url |-> args.mwps_base_url,
   model_server_url |-> Unset,
   mwps_model |-> args.mwps_model,
   mwps_timeout |-> args.mwps_timeout,
   max_tool_rounds |-> args.max_tool_rounds,
   max_context_tokens |-> args.max_context_tokens,
   command_timeout |-> 120]

-----------------------------------------------------------------------------
(* generate_adapter_config.                                                *)

(* Raised before anything is written.                                      *)
BadProxy(s) == s.mcp_proxy_url.scheme = Unset \/ s.mcp_proxy_url.host \in Blank

Proxy(s) == [s.mcp_proxy_url EXCEPT !.port = PortOr(s.mcp_proxy_url, "https")]

Certificates(s) == Cert(s.certs_dir, "flat")

Base(s) == BaseFile(Certificates(s), Certificates(s), s.server_port,
                    Proxy(s).host, Proxy(s).port,
                    Or(s.registration_server_id, "mwps"))

ModelServer(s) == Or(s.model_server_url, s.mwps_base_url)

(* What it makes of the base file, when that is read back.  The sections   *)
(* are there whatever a setting says.                                      *)
Completed(f, s) ==
  [f EXCEPT
     !.advertised = s.advertised_host,
     !.server_id = s.advertised_host,
     !.verify_client = TRUE,
     !.sections = {"mwps", "provider_clients"},
     !.body = [mcp_proxy_url |-> Proxy(s), base_url |-> s.mwps_base_url,
               model_server_url |-> ModelServer(s), model |-> s.mwps_model,
               timeout |-> s.mwps_timeout, max_tool_rounds |-> s.max_tool_rounds,
               max_context_tokens |-> s.max_context_tokens,
               command_timeout |-> s.command_timeout,
               commands_policy |-> "allow_by_default", legacy |-> FALSE],
     !.providers =
       Providers("mwps", [name \in {"mwps"} |->
         DefaultSection(Or(ModelServer(s), LocalUrl), s.mwps_timeout)])]

(* validate_project_config: no error.  (legacy: one of the keys that were  *)
(* there before provider_clients.)                                         *)
ProjectOk(f) ==
  /\ f.protocol = "mtls" => f.cert \notin Blank /\ f.verify_client = TRUE
  /\ "provider_clients" \in f.sections
  /\ ValidProviders(f.providers)
  /\ "mwps" \in f.sections
  /\ ~ f.body.legacy
  /\ f.body.commands_policy \in {Unset, "allow_by_default", "deny_by_default"}
  /\ f.body.max_context_tokens >= 0

-----------------------------------------------------------------------------
(* The contract that register_mwps checks once more: the proxy of the file *)
(* is the one of the registration, and certificates from mtls_certificates *)
(* come from its directory for their purpose.                              *)
InMtlsLayout(cert) == cert.dir \in MtlsDirs => cert.layout = "tree"

\* Mutant: only the certificates are looked at.
ContractOnCertificates(f) ==
  InMtlsLayout(f.reg_cert) /\ InMtlsLayout(f.cert)

ContractOk(f) ==
  /\ "mwps" \in f.sections => f.body.mcp_proxy_url = f.register
  /\ InMtlsLayout(f.reg_cert)
  /\ InMtlsLayout(f.cert)

(* What each launcher demands: docker's asks the validator of the role,    *)
(* container's only for certificates (and, once, that clients show one).   *)
Database == INSTANCE DatabaseServerConfig

Role(f) == IF f.server_id = "database-server" THEN "database" ELSE "chat"

\* Mutant: every file is validated as the chat's.
RoleIgnored(f) == ProjectOk(f)

RoleOk(f) == IF Role(f) = "database" THEN Database!Accepts(f) ELSE ProjectOk(f)

MtlsOk(f) == f.protocol = "mtls" => f.cert \notin Blank /\ f.verify_client = TRUE

(* SimpleConfig.validate of the adapter library: the certificates are on   *)
(* disk.                                                                   *)
AdapterOk(f, disk) == OnDisk(f.cert, disk) /\ OnDisk(f.reg_cert, disk)

-----------------------------------------------------------------------------
(* load_config, for a file that can be read.                               *)

AtLeast(n, least) == IF n < least THEN least ELSE n

(* The proxy: of the registration, unless the environment names one.       *)
LoadedProxy(f, env) == IF env.MWPS_MCP_PROXY_URL \in Blank THEN f.register
                                                          ELSE env.MWPS_MCP_PROXY_URL

\* Mutant: the environment is over the default provider's URL.
LoadedUrlFromEnvironment(f, env) == Or(env.MWPS_BASE_URL, f.body.base_url)

(* The environment is over the mwps section, and the default provider's    *)
(* URL over the environment.                                               *)
LoadedUrl(f, env) ==
  IF f.providers.default = "mwps" THEN f.providers.sections["mwps"].url
                                  ELSE Or(env.MWPS_BASE_URL, f.body.base_url)

LoadedTimeout(f, env) == Or(env.MWPS_TIMEOUT, f.body.timeout)

LoadedRounds(f, env) == Or(env.MWPS_MAX_TOOL_ROUNDS, f.body.max_tool_rounds)

(* ValueError: a required field is missing or a limit is no limit.         *)
FieldsOk(f, env) ==
  /\ LoadedUrl(f, env) \notin Blank
  /\ Or(env.MWPS_MODEL, f.body.model) \notin Blank
  /\ LoadedTimeout(f, env) > 0
  /\ LoadedRounds(f, env) >= 1

Loads(f, env) ==
  /\ "mwps" \in f.sections
  /\ "provider_clients" \in f.sections
  /\ f.body.commands_policy \in {Unset, "allow_by_default", "deny_by_default"}
  /\ ValidProviders(f.providers)
  /\ FieldsOk(f, env)

\* Mutant: the chat's time is all of the command's.
ChatSecondsWithoutMargin(f) == AtLeast(f.body.command_timeout, 30)

(* Seconds that a chat gives itself, and that the adapter gives a command: *)
(* its 30, which docker's launcher replaces wherever a wait is for 30.     *)
ChatSeconds(f) == AtLeast(AtLeast(f.body.command_timeout, 30) - 10, 30)

Patched(image, config, seconds) ==
  IF image = "docker" /\ seconds = 30 THEN config.body.command_timeout ELSE seconds
=============================================================================
