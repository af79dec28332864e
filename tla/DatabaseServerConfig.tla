------------------------ MODULE DatabaseServerConfig ------------------------
(***************************************************************************)
(* The configuration of the database server: generator, validator and the  *)
(* settings of the command line (database_server/config_*.py).             *)
(*                                                                         *)
(* log_dir stands for the data directory too, and the certificate file for *)
(* the key and the CA, which the code handles in the same way.             *)
(***************************************************************************)
EXTENDS Settings

(* The default settings, with certificates in dir.                         *)
DefaultTemplate(dir) ==
  [certs_dir |-> dir, cert_files |-> Cert(dir, "tree"), server_port |-> 8017,
   mcp_proxy_url |-> Unset, registration_host |-> Unset,
   registration_port |-> Unset, registration_server_id |-> "database-server",
   advertised_host |-> "database-server", log_dir |-> "/app/logs",
   verify_client |-> TRUE, storage_backend |-> "local", redis_port |-> Unset,
   max_connections |-> 100, request_timeout |-> 120]

(* What the environment sets.  MCP_PROXY_HOST and MCP_PROXY_PORT are only  *)
(* read without MCP_PROXY_URL, and a port that is no number is passed over.*)
EnvOverlay(env) ==
  [NoneOf(DefaultTemplate(Unset)) EXCEPT
     !.certs_dir = env.CERTS_DIR,
     !.cert_files = CertIn(env.CERTS_DIR, "tree"),
     !.server_port = env.PORT,
     !.mcp_proxy_url = env.MCP_PROXY_URL,
     !.registration_host = UnlessUrl(env.MCP_PROXY_URL, env.MCP_PROXY_HOST),
     !.registration_port = UnlessUrl(env.MCP_PROXY_URL, env.MCP_PROXY_PORT),
     !.registration_server_id = env.REGISTRATION_SERVER_ID,
     !.advertised_host = env.ADVERTISED_HOST,
     !.log_dir = env.LOG_DIR]

MergeSettings(template, env, args) == Overlay(Overlay(template, env), args)

(* The command line passes all its arguments, defaults included, and no    *)
(* template: no certificate files and no server id.                        *)
CliSettings(args) ==
  [DefaultTemplate(args.certs_dir) EXCEPT
     !.cert_files = Unset, !.registration_server_id = Unset,
     !.server_port = args.server_port,
     !.mcp_proxy_url = args.mcp_proxy_url,
     !.registration_host = UnlessUrl(args.mcp_proxy_url,
                                     Or(args.mcp_proxy_host, "localhost")),
     !.registration_port = UnlessUrl(args.mcp_proxy_url, args.mcp_proxy_port),
     !.advertised_host = args.advertised_host,
     !.log_dir = args.log_dir,
     !.verify_client = args.verify_client,
     !.max_connections = args.max_connections,
     !.request_timeout = args.request_timeout]

(* generate_from_merged: the settings of a program that gives args, beside *)
(* the environment.                                                        *)
MergedSettings(args, env) ==
  MergeSettings(
    DefaultTemplate(Or(args.certs_dir, Or(env.CERTS_DIR, "mtls_certificates"))),
    EnvOverlay(env), args)

(* Raised before anything is written.                                      *)
NoProxy(s) == \/ ProxyHost(s) \in Blank
              \/ ProxyPort(s) = Unset
              \/ s.mcp_proxy_url # Unset /\ s.mcp_proxy_url.scheme = Unset

ServerId(s) == Or(s.registration_server_id, s.advertised_host)

Certificates(s) == Or(s.cert_files, Cert(s.certs_dir, "tree"))

Base(s) == BaseFile(Certificates(s), Certificates(s), s.server_port,
                    ProxyHost(s), ProxyPort(s), ServerId(s))

(* generate_server_config: what it makes of the base file.                 *)
Generated(s) ==
  [Base(s) EXCEPT
     !.advertised = s.advertised_host,
     !.log_dir = s.log_dir,
     !.verify_client = s.verify_client,
     !.sections = {"database_server"},
     !.body = [require_mtls |-> TRUE,
               backend |-> s.storage_backend,
               redis_host |-> IF s.storage_backend = "redis" THEN "localhost"
                              ELSE Unset,
               redis_port |-> IF s.storage_backend = "redis"
                              THEN Or(s.redis_port, 6379) ELSE Unset,
               data_dir |-> s.log_dir,
               certs_dir |-> Or(s.certs_dir, "."),
               max_connections |-> s.max_connections,
               request_timeout |-> s.request_timeout,
               server_id |-> ServerId(s)]]

-----------------------------------------------------------------------------
(* validate_database_server_config: no error.                              *)

SetOrAbsent(v) == v # Empty

StorageOk(b) ==
  /\ b.backend \in {Unset, "local", "redis"}
  /\ b.backend = "redis" =>
       /\ b.redis_host \notin Blank
       /\ b.redis_port = Unset \/ ValidPort(b.redis_port)
  /\ SetOrAbsent(b.data_dir)

SectionOk(b) ==
  /\ b.require_mtls
  /\ StorageOk(b)
  /\ SetOrAbsent(b.certs_dir)
  /\ b.max_connections = Unset \/ b.max_connections >= 1
  /\ b.request_timeout = Unset \/ b.request_timeout >= 1
  /\ SetOrAbsent(b.server_id)

Accepts(f) ==
  /\ f.protocol = "mtls" => f.cert \notin Blank /\ f.verify_client = TRUE
  /\ f.port = Unset \/ ValidPort(f.port)
  /\ f.advertised \notin Blank
  /\ SetOrAbsent(f.log_dir)
  /\ "database_server" \in f.sections
  /\ SectionOk(f.body)
=============================================================================
