---------------------------- MODULE MCAdapterStart ----------------------------
(* A small instance of AdapterStart: environments and command lines that   *)
(* differ from the default in one setting.                                 *)
EXTENDS AdapterStart

MCDirs == {"/app/certs", "mtls_certificates"}
MCMtlsDirs == {"mtls_certificates"}
MCOtherNames == {"local"}

NoEnv ==
  [CERTS_DIR |-> Unset, ADAPTER_PORT |-> Unset, MCP_PROXY_URL |-> Unset,
   MCP_PROXY_HOST |-> Unset, MCP_PROXY_PORT |-> Unset, ADVERTISED_HOST |-> Unset,
   REGISTRATION_SERVER_ID |-> Unset, MWPS_BASE_URL |-> Unset,
   MWPS_MODEL_SERVER_URL |-> Unset, MWPS_MODEL |-> Unset, MWPS_TIMEOUT |-> Unset,
   MWPS_MAX_TOOL_ROUNDS |-> Unset, MWPS_MCP_PROXY_URL |-> Unset,
   COMMAND_EXECUTION_TIMEOUT_SECONDS |-> Unset]

With(key, values) == {[NoEnv EXCEPT ![key] = v] : v \in values}

Other == Url("http", "gpu", 11434)
SecureModel == Url("https", "gpu", 443)
PlainProxy == Url("http", "proxy", 3004)

MCEnvs ==
  {NoEnv}
    \cup With("CERTS_DIR", {"mtls_certificates"})
    \cup With("ADAPTER_PORT", {Empty})
    \cup With("MCP_PROXY_URL", {PlainProxy, Url(Unset, "proxy", 3004)})
    \cup With("ADVERTISED_HOST", {"database-server"})
    \cup With("MWPS_BASE_URL", {Other, SecureModel, Empty})
    \cup With("MWPS_MODEL_SERVER_URL", {Other})
    \cup With("MWPS_MODEL", {Empty})
    \cup With("MWPS_TIMEOUT", {0})
    \cup With("MWPS_MAX_TOOL_ROUNDS", {0})
    \cup With("MWPS_MCP_PROXY_URL", {PlainProxy})
    \cup With("COMMAND_EXECUTION_TIMEOUT_SECONDS", {30, 40, 41})

MCCliArgs ==
  {DefaultArgs, [DefaultArgs EXCEPT !.mwps_base_url = SecureModel],
   [DefaultArgs EXCEPT !.max_tool_rounds = 0],
   [DefaultArgs EXCEPT !.mcp_proxy_url = PlainProxy, !.target = "container"]}

MCEdits ==
  {[default |-> "mwps", command_timeout |-> 300,
    sections |-> [n \in {"mwps"} |-> DefaultSection(Other, Unset)]],
   [default |-> "openai", command_timeout |-> 41,
    sections |-> [n \in {"mwps", "openai"} |->
       IF n = "mwps" THEN DefaultSection(LocalUrl, 60)
                     ELSE Section(SecureModel, 60, "key", "on")]],
   [default |-> "local", command_timeout |-> 41,
    sections |-> [n \in {"local"} |-> DefaultSection(LocalUrl, 60)]]}
=============================================================================
