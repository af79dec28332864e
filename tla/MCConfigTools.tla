---------------------------- MODULE MCConfigTools -----------------------------
(* A small instance of ConfigTools: requests that differ from the default  *)
(* in one argument or one variable of the environment.                     *)
EXTENDS ConfigTools

MCDirs == {"/certs", "mtls_certificates"}

NoEnv == [CERTS_DIR |-> Unset, PORT |-> Unset, MCP_PROXY_URL |-> Unset,
          MCP_PROXY_HOST |-> Unset, MCP_PROXY_PORT |-> Unset,
          ADVERTISED_HOST |-> Unset, REGISTRATION_SERVER_ID |-> Unset,
          LOG_DIR |-> Unset, ENDPOINT |-> Unset, CONNECT_TIMEOUT |-> Unset,
          METRICS |-> Unset]

Proxy == Url("https", "mcp-proxy", Unset)
Server == Url("https", "server", Unset)

(* base, and base with one field changed.                                  *)
Vary(base, values) ==
  {base} \cup UNION {{[base EXCEPT ![k] = v] : v \in values[k]} : k \in DOMAIN values}

ServerArgs ==
  [certs_dir |-> "/certs", server_port |-> 8017, mcp_proxy_url |-> Unset,
   mcp_proxy_host |-> Empty, mcp_proxy_port |-> 3004,
   registration_server_id |-> Unset, advertised_host |-> "server",
   log_dir |-> "/logs", verify_client |-> TRUE, fallback_policy |-> "deny",
   max_connections |-> 100, request_timeout |-> 120]

ServerValues ==
  [certs_dir |-> {"mtls_certificates"}, server_port |-> {0, 65536},
   mcp_proxy_url |-> {Proxy, Url(Unset, "mcp-proxy", 3004)},
   mcp_proxy_host |-> {"proxy"}, advertised_host |-> {Empty}, log_dir |-> {Empty},
   verify_client |-> {FALSE}, max_connections |-> {0, 100001},
   request_timeout |-> {0}]

ClientArgs ==
  [certs_dir |-> Unset, endpoint |-> Unset, connect_timeout |-> Unset,
   request_timeout |-> Unset, retry_max |-> Unset, metrics |-> Unset]

ClientValues(scheme) ==
  [certs_dir |-> {"/certs"},
   endpoint |-> {Url(scheme, "server", Unset), Url("http", "server", 80),
                 Url("ws", "server", 80), Url(Unset, "server", 8017)},
   connect_timeout |-> {0}, retry_max |-> {0, -1}, metrics |-> {TRUE}]

ServerEnvs == Vary(NoEnv, [CERTS_DIR |-> {"/certs"}, PORT |-> {9000},
                           MCP_PROXY_URL |-> {Proxy}, LOG_DIR |-> {Empty},
                           ADVERTISED_HOST |-> {"other"}])

ClientEnvs(scheme) ==
  Vary(NoEnv, [CERTS_DIR |-> {"/certs"}, ENDPOINT |-> {Url(scheme, "other", 443)},
               CONNECT_TIMEOUT |-> {5}, METRICS |-> {FALSE}])

Request(tool_, by, args, env) == [tool |-> tool_, by |-> by, args |-> args, env |-> env]

(* A program that calls a server's generator gives a proxy, or nothing.    *)
Programs(tool_, nothing) ==
  {Request(tool_, "merged", args, env) :
     args \in Vary(nothing, [mcp_proxy_url |-> {Proxy}, certs_dir |-> MCDirs]),
     env \in ServerEnvs}

MCRequests ==
  {Request(t, "cli", args, NoEnv) :
     t \in {"database_server", "workspace_server"}, args \in Vary(ServerArgs, ServerValues)}
    \cup Programs("database_server", NoneOf(DS!DefaultTemplate(Unset)))
    \cup Programs("workspace_server", NoneOf(WS!DefaultTemplate(Unset)))
    \cup {Request("database_client", "cli", args, env) :
            args \in Vary(ClientArgs, ClientValues("https")), env \in ClientEnvs("https")}
    \cup {Request("workspace_client", "cli", args, env) :
            args \in Vary(ClientArgs, ClientValues("wss")), env \in ClientEnvs("wss")}

MCBadEndpoints ==
  {Empty, Url("http", "server", 80), Url(Unset, "server", 8017),
   Url("https", "server", 65536), Url("wss", "server", 65536)}
=============================================================================
