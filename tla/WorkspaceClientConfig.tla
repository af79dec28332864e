----------------------- MODULE WorkspaceClientConfig ------------------------
(***************************************************************************)
(* The configuration of the model workspace client, and what its           *)
(* connection test makes of a file and of the network                      *)
(* (model_workspace_client/config_*.py).                                   *)
(***************************************************************************)
EXTENDS Settings

(* The default settings, with certificates in dir.                         *)
DefaultTemplate(dir) ==
  [certs_dir |-> dir, cert_files |-> Cert(dir, "tree"),
   endpoint |-> Url("wss", "model-workspace-server", 8016),
   connect_timeout |-> 30, request_timeout |-> 120,
   retry_max |-> 3, metrics |-> FALSE]

EnvOverlay(env) ==
  [NoneOf(DefaultTemplate(Unset)) EXCEPT
     !.certs_dir = env.CERTS_DIR,
     !.cert_files = CertIn(env.CERTS_DIR, "tree"),
     !.endpoint = env.ENDPOINT,
     !.connect_timeout = env.CONNECT_TIMEOUT]

MergeSettings(template, env, args) == Overlay(Overlay(template, env), args)

(* The directory of the arguments, or else of the environment, is that of  *)
(* the template; the endpoint is looked up in all three layers.            *)
CliSettings(args, env) ==
  LET dir == Or(args.certs_dir, Or(env.CERTS_DIR, "mtls_certificates"))
      template == DefaultTemplate(dir)
  IN MergeSettings(template, EnvOverlay(env),
       [NoneOf(template) EXCEPT
          !.certs_dir = dir,
          !.endpoint = Or(args.endpoint, Or(env.ENDPOINT, template.endpoint)),
          !.connect_timeout = Or(args.connect_timeout, 30),
          !.request_timeout = Or(args.request_timeout, 120),
          !.retry_max = Or(args.retry_max, 3),
          !.metrics = Or(args.metrics, FALSE)])

(* _cmd_generate hands the merged settings to generate_from_merged, which  *)
(* puts them over template and environment once more.  (That this changes  *)
(* nothing is the theorem MergedOnce of ConfigTools_proofs.)               *)
MergedSettings(args, env) ==
  MergeSettings(
    DefaultTemplate(Or(args.certs_dir, Or(env.CERTS_DIR, "mtls_certificates"))),
    EnvOverlay(env), args)

HostPort(url) ==
  Url("https", Or(url.host, "model-workspace-server"),
      PortOr([url EXCEPT !.scheme = Or(url.scheme, "wss")], "wss"))

Certificates(s) == Or(s.cert_files, Cert(s.certs_dir, "tree"))

Base(s) ==
  BaseFile(Cert(s.certs_dir, "tree"), Certificates(s), HostPort(s.endpoint).port,
           HostPort(s.endpoint).host, HostPort(s.endpoint).port,
           "model-workspace-client")

\* Mutant: the client section of the base file is left as it is.
GeneratedClientOff(s) ==
  [Base(s) EXCEPT
     !.sections = {"model_workspace_client"},
     !.body = [endpoint |-> s.endpoint, cert |-> Certificates(s),
               connect_timeout |-> s.connect_timeout,
               request_timeout |-> s.request_timeout,
               retry_max |-> s.retry_max, metrics |-> s.metrics]]

(* generate_client_config: what it makes of the base file.                 *)
Generated(s) ==
  [Base(s) EXCEPT
     !.client = [mtls |-> TRUE, cert |-> Certificates(s)],
     !.sections = {"model_workspace_client"},
     !.body = [endpoint |-> s.endpoint, cert |-> Certificates(s),
               connect_timeout |-> s.connect_timeout,
               request_timeout |-> s.request_timeout,
               retry_max |-> s.retry_max, metrics |-> s.metrics]]

-----------------------------------------------------------------------------
(* The validator's rules.  disk: directories with certificates.            *)

\* Mutant: only an endpoint that is given is looked at.
ValidEndpointIfGiven(url) ==
  url \notin Blank => url.scheme \in {"ws", "wss"} /\ url.host \notin Blank

ValidEndpoint(url) == /\ url \notin Blank
                      /\ url.scheme \in {"ws", "wss"}
                      /\ url.host \notin Blank

Secure(url) == url \notin Blank /\ url.scheme = "wss"

AtLeast(n, least) == n # Unset => n >= least

SectionOk(b, disk) ==
  /\ ValidEndpoint(b.endpoint)
  /\ Secure(b.endpoint) => OnDisk(b.cert, disk)
  /\ AtLeast(b.connect_timeout, 1)
  /\ AtLeast(b.request_timeout, 1)
  /\ AtLeast(b.retry_max, 0)

ClientOk(client, disk) == client.mtls => OnDisk(client.cert, disk)

(* validate_config_dict: no error.                                         *)
Accepts(f, disk) ==
  /\ "model_workspace_client" \in f.sections
  /\ SectionOk(f.body, disk)
  /\ ClientOk(f.client, disk)
  /\ Secure(f.body.endpoint) => f.client.mtls

-----------------------------------------------------------------------------
(* The rest of test-connection, once the file is read again: its exit code *)
(* (2: the file has no endpoint any more; 1: it raises, as int(None) does  *)
(* for a null timeout, and urlparse for a port beyond the range; 3: no     *)
(* handshake).  Over wss the certificates are loaded before the socket is  *)
(* opened.                                                                 *)
Answers == {"101", "200", "closed", "refused", "timeout", "tls"}

HasEndpoint(f) ==
  "model_workspace_client" \in f.sections /\ f.body.endpoint \notin Blank

Raises(f) ==
  HasEndpoint(f) /\ (f.body.connect_timeout = Unset \/ ~ PortInRange(f.body.endpoint))

Connects(f, disk) ==
  /\ HasEndpoint(f) /\ ~ Raises(f)
  /\ Secure(f.body.endpoint) => OnDisk(f.body.cert, disk)

Outcome(f, disk, answer) ==
  IF ~ HasEndpoint(f) THEN 2
  ELSE IF Raises(f) THEN 1
  ELSE IF ~ Connects(f, disk) \/ answer # "101" THEN 3 ELSE 0
=============================================================================
