----------------------- MODULE WorkspaceServerConfig ------------------------
(***************************************************************************)
(* The configuration of the model workspace server                         *)
(* (model_workspace_server/config_*.py).  Unlike the database server's     *)
(* validator, this one looks for the certificate files.                    *)
(***************************************************************************)
EXTENDS Settings

(* The default settings, with certificates in dir.                         *)
DefaultTemplate(dir) ==
  [certs_dir |-> dir, cert_files |-> Cert(dir, "tree"), server_port |-> 8016,
   mcp_proxy_url |-> Unset, registration_host |-> Unset,
   registration_port |-> Unset,
   registration_server_id |-> "model-workspace-server",
   advertised_host |-> "model-workspace-server", log_dir |-> "/app/logs",
   transport_type |-> "ws", fallback_policy |-> "deny",
   max_connections |-> 100, request_timeout |-> 120]

EnvOverlay(env) ==
  [NoneOf(DefaultTemplate(Unset)) EXCEPT
     !.certs_dir = env.CERTS_DIR,
     !.cert_files = CertIn(env.CERTS_DIR, "tree"),
     !.server_port = env.PORT,
     !.mcp_proxy_url = env.MCP_PROXY_URL,
     !.registration_host = UnlessUrl(env.MCP_PROXY_URL, env.MCP_PROXY_HOST),
     !.registration_port = UnlessUrl(env.MCP_PROXY_URL, env.MCP_PROXY_PORT),
     !.registration_server_id = env.REGISTRATION_SERVER_ID,
     !.advertised_host = env.ADVERTISED_HOST,
     !.log_dir = env.LOG_DIR]

MergeSettings(template, env, args) == Overlay(Overlay(template, env), args)

(* The command line puts its arguments over the template, so that the      *)
(* template's server id and log directory stay where they are blank.       *)
CliSettings(args) ==
  MergeSettings(DefaultTemplate(args.certs_dir),
    NoneOf(DefaultTemplate(Unset)),
    [NoneOf(DefaultTemplate(Unset)) EXCEPT
       !.certs_dir = args.certs_dir,
       !.server_port = args.server_port,
       !.mcp_proxy_url = args.mcp_proxy_url,
       !.registration_host = UnlessUrl(args.mcp_proxy_url,
                                       Or(args.mcp_proxy_host, "mcp-proxy")),
       !.registration_port = UnlessUrl(args.mcp_proxy_url,
                                       args.mcp_proxy_port),
       !.registration_server_id = args.registration_server_id,
       !.advertised_host = args.advertised_host,
       !.log_dir = args.log_dir,
       !.fallback_policy = args.fallback_policy,
       !.max_connections = args.max_connections,
       !.request_timeout = args.request_timeout])

(* generate_from_merged: the settings of a program that gives args.        *)
MergedSettings(args, env) ==
  MergeSettings(
    DefaultTemplate(Or(args.certs_dir, Or(env.CERTS_DIR, "mtls_certificates"))),
    EnvOverlay(env), args)

(* Raised before anything is written.                                      *)
NoProxy(s) == \/ ProxyHost(s) \in Blank
              \/ ProxyPort(s) = Unset
              \/ s.mcp_proxy_url # Unset /\ s.mcp_proxy_url.scheme = Unset

ServerId(s) == Or(s.registration_server_id, s.advertised_host)

Certificates(s) == Or(s.cert_files, Cert(s.certs_dir, "tree"))

Base(s) == BaseFile(Certificates(s), Certificates(s), s.server_port,
                    ProxyHost(s), ProxyPort(s), ServerId(s))

(* generate_server_config: what it makes of the base file.                 *)
Generated(s) ==
  [Base(s) EXCEPT
     !.advertised = s.advertised_host,
     !.log_dir = s.log_dir,
     !.verify_client = TRUE,
     !.transport = [type |-> s.transport_type, fallback |-> s.fallback_policy],
     !.sections = {"model_workspace_server"},
     !.body = [server_id |-> ServerId(s),
               max_connections |-> s.max_connections,
               request_timeout |-> s.request_timeout,
               log_dir |-> s.log_dir]]

-----------------------------------------------------------------------------
(* validate_config_dict: no error.  disk: directories with certificates.   *)

ServerOk(f) ==
  /\ f.advertised \notin Blank
  /\ f.log_dir # Empty
  /\ f.port = Unset \/ ValidPort(f.port)

(* Over WebSockets the server needs its certificates, and they must exist. *)
TransportOk(f, disk) ==
  /\ f.transport # Unset
  /\ f.transport.type \in {Unset, "ws"}
  /\ f.transport.fallback \in {Unset, "deny", "allow"}
  /\ f.transport.type = "ws" => OnDisk(f.cert, disk)

InLimits(n, highest) == n = Unset \/ n \in 1..highest

SectionOk(b) ==
  /\ b.server_id # Empty
  /\ InLimits(b.max_connections, 100000)
  /\ InLimits(b.request_timeout, 86400)
  /\ b.log_dir # Empty

Accepts(f, disk) ==
  /\ ServerOk(f)
  /\ TransportOk(f, disk)
  /\ "model_workspace_server" \in f.sections
  /\ SectionOk(f.body)
=============================================================================
