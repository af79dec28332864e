------------------------ MODULE DatabaseClientConfig ------------------------
(***************************************************************************)
(* The configuration of the database client, and what its connection test  *)
(* makes of a file and of the server's answer (database_client/config_*.py)*)
(***************************************************************************)
EXTENDS Settings

(* The default settings, with certificates in dir.                         *)
DefaultTemplate(dir) ==
  [certs_dir |-> dir, cert_files |-> Cert(dir, "tree"),
   endpoint |-> Url("https", "database-server", 8017),
   connect_timeout |-> 30, request_timeout |-> 120,
   retry_max |-> 3, metrics |-> FALSE]

(* What the environment sets.  (A number that does not parse is passed     *)
(* over; other words than true and false for the metrics are, too.)        *)
EnvOverlay(env) ==
  [NoneOf(DefaultTemplate(Unset)) EXCEPT
     !.certs_dir = env.CERTS_DIR,
     !.cert_files = CertIn(env.CERTS_DIR, "tree"),
     !.endpoint = env.ENDPOINT,
     !.connect_timeout = env.CONNECT_TIMEOUT,
     !.metrics = env.METRICS]

MergeSettings(template, env, args) == Overlay(Overlay(template, env), args)

(* The command line passes every argument, with its default where the user *)
(* gave none, as the highest layer; no argument names a certificate file.  *)
ArgsOverlay(args) ==
  [NoneOf(DefaultTemplate(Unset)) EXCEPT
     !.certs_dir = Or(args.certs_dir, "mtls_certificates"),
     !.endpoint = Or(args.endpoint, DefaultTemplate(Unset).endpoint),
     !.connect_timeout = Or(args.connect_timeout, 30),
     !.request_timeout = Or(args.request_timeout, 120),
     !.retry_max = Or(args.retry_max, 3),
     !.metrics = Or(args.metrics, FALSE)]

(* _cmd_generate: the template has the directory of the arguments.         *)
CliSettings(args, env) ==
  MergeSettings(DefaultTemplate(ArgsOverlay(args).certs_dir),
                EnvOverlay(env), ArgsOverlay(args))

(* A base_url without a scheme is read as https.                           *)
HostPort(url) ==
  Url("https", Or(url.host, "database-server"),
      PortOr([url EXCEPT !.scheme = Or(url.scheme, "https")], "https"))

Certificates(s) == Or(s.cert_files, Cert(s.certs_dir, "tree"))

Base(s) ==
  BaseFile(Cert(s.certs_dir, "tree"), Certificates(s), HostPort(s.endpoint).port,
           HostPort(s.endpoint).host, HostPort(s.endpoint).port,
           "database-client")

(* generate_client_config: what it makes of the base file.                 *)
Generated(s) ==
  [Base(s) EXCEPT
     !.client = [mtls |-> TRUE, cert |-> Certificates(s)],
     !.sections = {"database_client"},
     !.body = [endpoint |-> s.endpoint, cert |-> Certificates(s),
               connect_timeout |-> s.connect_timeout,
               request_timeout |-> s.request_timeout,
               retry_max |-> s.retry_max, metrics |-> s.metrics]]

-----------------------------------------------------------------------------
(* The validator's rules.  disk: directories with certificates.            *)

(* _valid_base_url: https, which is also what no scheme means.             *)
ValidEndpoint(url) == /\ url \notin Blank
                      /\ url.scheme \in {Unset, "https"}
                      /\ url.host \notin Blank

Secure(url) == url \notin Blank /\ url.scheme # "http"

AtLeast(n, least) == n # Unset => n >= least

SectionOk(b, disk) ==
  /\ ValidEndpoint(b.endpoint)
  /\ Secure(b.endpoint) => OnDisk(b.cert, disk)
  /\ AtLeast(b.connect_timeout, 1)
  /\ AtLeast(b.request_timeout, 1)
  /\ AtLeast(b.retry_max, 0)

ClientOk(client, disk) == client.mtls => OnDisk(client.cert, disk)

\* Mutant: the section is only looked at where it is there.
AcceptsWithoutSection(f, disk) ==
  /\ "database_client" \in f.sections =>
       /\ SectionOk(f.body, disk)
       /\ Secure(f.body.endpoint) => f.client.mtls
  /\ ClientOk(f.client, disk)

(* validate_config_dict: no error.                                         *)
Accepts(f, disk) ==
  /\ "database_client" \in f.sections
  /\ SectionOk(f.body, disk)
  /\ ClientOk(f.client, disk)
  /\ Secure(f.body.endpoint) => f.client.mtls

-----------------------------------------------------------------------------
(* The rest of test-connection, once the file is read again: the result of *)
(* f with the certificates on disk and what the network answers.  A file   *)
(* without its section or URL ends it.  Certificates that are gone raise   *)
(* before the request, and so do a null for a number (int(None); a missing *)
(* key is 30 and no case of its own), a URL without a scheme in it, and a  *)
(* port beyond the range.                                                  *)
Answers == {"200", "401", "403", "500", "refused", "timeout", "tls"}

Connects(f, disk) ==
  /\ "database_client" \in f.sections
  /\ f.body.endpoint \notin Blank
  /\ f.body.connect_timeout # Unset
  /\ OnDisk(f.body.cert, disk)
  /\ f.body.endpoint.scheme # Unset
  /\ PortInRange(f.body.endpoint)

Outcome(f, disk, answer) ==
  IF ~ Connects(f, disk) \/ answer # "200" THEN 1 ELSE 0
=============================================================================
