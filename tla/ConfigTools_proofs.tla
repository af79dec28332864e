-------------------------- MODULE ConfigTools_proofs --------------------------
(***************************************************************************)
(* Proofs about ConfigTools: what the validators refuse and accept, for    *)
(* any settings, and that the layers of settings may be merged twice.      *)
(***************************************************************************)
EXTENDS ConfigTools, TLAPS

(* The tool of the request that is remembered is the tool of the file, and *)
(* only clients have a connection test.                                    *)
ToolInv ==
  /\ tool \in Tools
  /\ asked # Unset => asked \in Requests /\ asked.tool = tool
  /\ step = "test" => tool \in Clients

LEMMA ToolInvInit == Init => ToolInv
  BY DEF Init, ToolInv

LEMMA ToolInvNext == ToolInv /\ [Next]_vars => ToolInv'
<1> SUFFICES ASSUME ToolInv, [Next]_vars PROVE ToolInv'
  OBVIOUS
<1>1. ASSUME NEW r \in Requests, GenerateBase(r) PROVE ToolInv'
  BY <1>1 DEF ToolInv, GenerateBase
<1>2. CASE GenerateRest
  BY <1>2 DEF ToolInv, GenerateRest
<1>3. CASE GenerateKilled
  BY <1>3 DEF ToolInv, GenerateKilled
<1>4. CASE Validate
  BY <1>4 DEF ToolInv, Validate
<1>5. CASE TestReads
  BY <1>5 DEF ToolInv, TestReads
<1>6. CASE TestConnects
  BY <1>6 DEF ToolInv, TestConnects
<1>7. CASE Edit
  BY <1>7 DEF ToolInv, Edit
<1>8. CASE MoveCerts
  BY <1>8 DEF ToolInv, MoveCerts
<1>9. CASE UNCHANGED vars
  BY <1>9 DEF ToolInv, vars
<1> QED
  BY <1>1, <1>2, <1>3, <1>4, <1>5, <1>6, <1>7, <1>8, <1>9 DEF Next

LEMMA ToolInvHolds == Spec => []ToolInv
  BY ToolInvInit, ToolInvNext, PTL DEF Spec

(* A connection test ends with one of the tool's exit codes.               *)
LEMMA OutcomeRange ==
  ASSUME NEW f, NEW d, NEW a
  PROVE  DC!Outcome(f, d, a) \in {0, 1, 2, 3} /\ WC!Outcome(f, d, a) \in {0, 1, 2, 3}
  BY DEF DC!Outcome, WC!Outcome

(* Types, and: a connection test holds the file that it has accepted from  *)
(* its first read to its end, and no other command finds it held.          *)
THEOREM Typed == Spec => []TypeOK
<1>1. Init => TypeOK
  BY BoundsAssumption DEF Init, TypeOK
<1>2. TypeOK /\ [Next]_vars => TypeOK'
  <2> SUFFICES ASSUME TypeOK, [Next]_vars PROVE TypeOK'
    OBVIOUS
  <2> USE BoundsAssumption DEF TypeOK
  <2>1. ASSUME NEW r \in Requests, GenerateBase(r) PROVE TypeOK'
    BY <2>1 DEF GenerateBase
  <2>2. CASE GenerateRest
    BY <2>2 DEF GenerateRest
  <2>3. CASE GenerateKilled
    BY <2>3 DEF GenerateKilled
  <2>4. CASE Validate
    BY <2>4 DEF Validate
  <2>5. CASE TestReads
    BY <2>5 DEF TestReads
  <2>6. CASE TestConnects
    <3>1. exit' \in {0, 1, 2, 3}
      BY <2>6, OutcomeRange DEF TestConnects
    <3> QED
      BY <2>6, <3>1 DEF TestConnects
  <2>7. CASE Edit
    BY <2>7 DEF Edit
  <2>8. CASE MoveCerts
    BY <2>8 DEF MoveCerts
  <2>9. CASE UNCHANGED vars
    BY <2>9 DEF vars
  <2> QED
    BY <2>1, <2>2, <2>3, <2>4, <2>5, <2>6, <2>7, <2>8, <2>9 DEF Next
<1> QED
  BY <1>1, <1>2, PTL DEF Spec

-----------------------------------------------------------------------------
(* No generator's base file has a section of the project.                  *)
LEMMA BaseHasNoSections ==
  ASSUME NEW r, r.tool \in Tools PROVE BaseOf(r).sections = {}
  BY DEF BaseOf, Tools, Clients, DS!Base, WS!Base, DC!Base, WC!Base,
         DS!BaseFile, WS!BaseFile, DC!BaseFile, WC!BaseFile

(* Each validator demands the section of its own tool.                     *)
LEMMA AcceptedHasSection ==
  ASSUME NEW f, tool \in Tools, Accepts(f) PROVE f.sections # {}
  BY DEF Accepts, Tools, Clients, DS!Accepts, WS!Accepts, DC!Accepts, WC!Accepts

(* A generate that was killed between its two writes leaves a file that    *)
(* the validator refuses, whatever settings it was given.                  *)
THEOREM HalfWrittenIsRefused == Spec => []HalfWrittenRefused
<1>1. ToolInv => HalfWrittenRefused
  BY BaseHasNoSections, AcceptedHasSection DEF ToolInv, HalfWrittenRefused
<1> QED
  BY <1>1, ToolInvHolds, PTL

-----------------------------------------------------------------------------
(* The number is unfolded here once; elsewhere it has its name.            *)
LEMMA SharedMaxPort ==
  /\ DS!MaxPort = MaxPort /\ WS!MaxPort = MaxPort
  /\ DC!MaxPort = MaxPort /\ WC!MaxPort = MaxPort
  BY DEF MaxPort, DS!MaxPort, WS!MaxPort, DC!MaxPort, WC!MaxPort

(* What the database client's validator accepts and has a scheme is https, *)
(* and so its certificates were looked for.                                *)
LEMMA DatabaseClientConnects ==
  ASSUME NEW f, NEW d, tool = "database_client", DC!Accepts(f, d)
  PROVE  ~ Overlooked(f.body) <=> DC!Connects(f, d)
<1> DEFINE b == f.body
           tried == b.connect_timeout # Unset /\ b.endpoint.scheme # Unset
                      /\ PortInRange(b.endpoint)
<1>1. /\ "database_client" \in f.sections /\ b.endpoint \notin DC!Blank
      /\ b.endpoint.scheme # Unset => DC!OnDisk(b.cert, d)
  BY DEF DC!Accepts, DC!SectionOk, DC!ValidEndpoint, DC!Secure
<1>2. DC!Connects(f, d) <=> tried
  <2>1. DC!PortInRange(b.endpoint) <=> PortInRange(b.endpoint)
    BY SharedMaxPort DEF DC!PortInRange, PortInRange
  <2> QED
    BY <1>1, <2>1 DEF DC!Connects
<1>3. ~ Overlooked(b) <=> tried
  BY <1>1 DEF Overlooked, Blank, DC!Blank
<1> QED
  BY <1>2, <1>3

(* The workspace client's endpoint is ws, or wss with certificates.        *)
LEMMA WorkspaceClientConnects ==
  ASSUME NEW f, NEW d, tool = "workspace_client", WC!Accepts(f, d)
  PROVE  ~ Overlooked(f.body) <=> WC!Connects(f, d)
<1> DEFINE b == f.body
           tried == b.connect_timeout # Unset /\ PortInRange(b.endpoint)
<1>1. /\ "model_workspace_client" \in f.sections /\ b.endpoint \notin WC!Blank
      /\ WC!Secure(b.endpoint) => WC!OnDisk(b.cert, d)
  BY DEF WC!Accepts, WC!SectionOk, WC!ValidEndpoint
<1>2. WC!Connects(f, d) <=> tried
  <2>1. WC!PortInRange(b.endpoint) <=> PortInRange(b.endpoint)
    BY SharedMaxPort DEF WC!PortInRange, PortInRange
  <2> QED
    BY <1>1, <2>1 DEF WC!Connects, WC!HasEndpoint, WC!Raises
<1>3. tool # "database_client"
  OBVIOUS
<1>4. ~ Overlooked(b) <=> tried
  BY <1>1, <1>3 DEF Overlooked, Blank, WC!Blank
<1> QED
  BY <1>2, <1>4

(* A connection test that has accepted a file gets as far as connecting,   *)
(* while nobody changes file or certificates between its two reads, if and *)
(* only if the file has none of what the validators overlook: a null       *)
(* timeout, a port beyond the range, a base_url without a scheme.          *)
THEOREM AcceptedIsTried == Spec => []AcceptedConnects
<1>1. ToolInv => AcceptedConnects
  <2> SUFFICES ASSUME tool \in Clients, Accepts(file)
               PROVE  ~ Overlooked(file.body) <=>
                        IF tool = "database_client" THEN DC!Connects(file, disk)
                                                    ELSE WC!Connects(file, disk)
    BY DEF ToolInv, AcceptedConnects
  <2>1. CASE tool = "database_client"
    <3>1. DC!Accepts(file, disk)
      BY <2>1 DEF Accepts
    <3> QED
      BY <2>1, <3>1, DatabaseClientConnects
  <2>2. CASE tool = "workspace_client"
    <3>1. WC!Accepts(file, disk)
      BY <2>2 DEF Accepts
    <3> QED
      BY <2>2, <3>1, WorkspaceClientConnects
  <2> QED
    BY <2>1, <2>2 DEF Clients
<1> QED
  BY <1>1, ToolInvHolds, PTL

-----------------------------------------------------------------------------
(* Putting a layer over what it was already put over changes nothing.      *)
LEMMA OverlayTwice ==
  ASSUME NEW low, NEW middle, NEW high,
         low = [k \in DOMAIN low |-> low[k]]
  PROVE  LET once == WC!Overlay(WC!Overlay(low, middle), high)
         IN  WC!Overlay(WC!Overlay(low, middle), once) = once
  BY DEF WC!Overlay, WC!Or

(* The command line of the workspace client merges template, environment   *)
(* and arguments, and its generator merges the result once more, over the  *)
(* template and environment: that changes nothing, for any settings.       *)
THEOREM MergedOnce ==
  \A args, env :
    WC!MergedSettings(WC!CliSettings(args, env), env) = WC!CliSettings(args, env)
<1> TAKE args, env
<1> DEFINE dir == WC!Or(args.certs_dir, WC!Or(env.CERTS_DIR, "mtls_certificates"))
           settings == WC!CliSettings(args, env)
<1>1. settings.certs_dir = dir
  <2> DEFINE template == WC!DefaultTemplate(dir)
             middle == WC!Overlay(template, WC!EnvOverlay(env))
  <2>1. "certs_dir" \in DOMAIN template /\ template.certs_dir = dir
    BY DEF WC!DefaultTemplate
  <2>2. WC!EnvOverlay(env).certs_dir = env.CERTS_DIR
    <3>1. "certs_dir" \in DOMAIN WC!DefaultTemplate(Unset)
      BY DEF WC!DefaultTemplate
    <3> QED
      BY <3>1 DEF WC!EnvOverlay, WC!NoneOf
  <2>3. PICK high : settings = WC!Overlay(middle, high) /\ high.certs_dir = dir
    <3>1. WC!NoneOf(template) = [k \in DOMAIN template |-> Unset]
      BY DEF WC!NoneOf
    <3> HIDE DEF template
    <3> QED
      BY <3>1, <2>1 DEF WC!CliSettings, WC!MergeSettings, template
  <2>4. DOMAIN middle = DOMAIN template /\ middle.certs_dir = WC!Or(env.CERTS_DIR, dir)
    BY <2>1, <2>2 DEF WC!Overlay
  <2>5. settings.certs_dir = WC!Or(dir, middle.certs_dir)
    BY <2>1, <2>3, <2>4 DEF WC!Overlay
  <2> QED
    BY <2>4, <2>5 DEF WC!Or
<1>2. WC!Or(dir, WC!Or(env.CERTS_DIR, "mtls_certificates")) = dir
  BY DEF WC!Or
<1>3. PICK high : settings = WC!Overlay(WC!Overlay(WC!DefaultTemplate(dir),
                                                   WC!EnvOverlay(env)), high)
  BY DEF WC!CliSettings, WC!MergeSettings
<1>4. WC!MergedSettings(settings, env)
        = WC!Overlay(WC!Overlay(WC!DefaultTemplate(dir), WC!EnvOverlay(env)), settings)
  BY <1>1, <1>2 DEF WC!MergedSettings, WC!MergeSettings
<1>5. WC!DefaultTemplate(dir) = [k \in DOMAIN WC!DefaultTemplate(dir) |->
                                   WC!DefaultTemplate(dir)[k]]
  BY DEF WC!DefaultTemplate
<1> QED
  BY <1>3, <1>4, <1>5, OverlayTwice
-----------------------------------------------------------------------------
(* What the generators write is accepted.                                  *)

(* The four packages have the same helpers.                                *)
LEMMA SharedOr ==
  ASSUME NEW v, NEW w
  PROVE  /\ DS!Or(v, w) = Or(v, w) /\ WS!Or(v, w) = Or(v, w)
         /\ DC!Or(v, w) = Or(v, w) /\ WC!Or(v, w) = Or(v, w)
  BY DEF DS!Or, WS!Or, DC!Or, WC!Or, Or, DS!Blank, WS!Blank, DC!Blank, WC!Blank, Blank

LEMMA SharedCert ==
  ASSUME NEW dir
  PROVE  /\ DS!Cert(dir, "tree") = Cert(dir, "tree")
         /\ WS!Cert(dir, "tree") = Cert(dir, "tree")
         /\ DC!Cert(dir, "tree") = Cert(dir, "tree")
         /\ WC!Cert(dir, "tree") = Cert(dir, "tree")
         /\ DS!CertIn(dir, "tree") = CertIn(dir, "tree")
         /\ WS!CertIn(dir, "tree") = CertIn(dir, "tree")
         /\ DC!CertIn(dir, "tree") = CertIn(dir, "tree")
         /\ WC!CertIn(dir, "tree") = CertIn(dir, "tree")
  BY DEF DS!Cert, WS!Cert, DC!Cert, WC!Cert, Cert, Blank, CertIn,
         DS!CertIn, WS!CertIn, DC!CertIn, WC!CertIn,
         DS!Blank, WS!Blank, DC!Blank, WC!Blank

LEMMA SharedPort ==
  ASSUME NEW p, ValidPort(p) PROVE DS!ValidPort(p) /\ WS!ValidPort(p)
  BY SharedMaxPort DEF ValidPort, DS!ValidPort, WS!ValidPort

(* A setting is the one of the highest layer that has it.                  *)
LEMMA MergedField ==
  ASSUME NEW low, NEW middle, NEW high, NEW k \in DOMAIN low
  PROVE  /\ DS!MergeSettings(low, middle, high)[k] = Or(high[k], Or(middle[k], low[k]))
         /\ WS!MergeSettings(low, middle, high)[k] = Or(high[k], Or(middle[k], low[k]))
         /\ DC!MergeSettings(low, middle, high)[k] = Or(high[k], Or(middle[k], low[k]))
         /\ WC!MergeSettings(low, middle, high)[k] = Or(high[k], Or(middle[k], low[k]))
  BY SharedOr
     DEF DS!MergeSettings, WS!MergeSettings, DC!MergeSettings, WC!MergeSettings,
         DS!Overlay, WS!Overlay, DC!Overlay, WC!Overlay

(* Directories and certificates with which a certificate is never blank.   *)
CertSettings(dir, files) == dir \in CertDirs /\ files \in Blank \cup Certs

LEMMA CertificateThere ==
  ASSUME NEW dir, NEW files, CertSettings(dir, files)
  PROVE  Or(files, Cert(dir, "tree")) \notin Blank
<1>1. Cert(dir, "tree") \in Certs
  BY DEF CertSettings, Certs, Cert
<1> QED
  BY <1>1, CertsAssumption DEF CertSettings, Or

LEMMA MergedCerts ==
  ASSUME NEW dir \in CertDirs, NEW env_dir \in CertDirs, NEW low \in CertDirs,
         NEW files \in Blank \cup Certs
  PROVE  CertSettings(Or(dir, Or(env_dir, low)),
                      Or(files, Or(CertIn(env_dir, "tree"), Cert(low, "tree"))))
<1>1. Or(dir, Or(env_dir, low)) \in CertDirs
  BY DEF Or
<1>2. Cert(low, "tree") \in Certs /\ CertIn(env_dir, "tree") \in Blank \cup Certs
  BY DEF Cert, CertIn, Certs, Blank
<1>3. Or(files, Or(CertIn(env_dir, "tree"), Cert(low, "tree"))) \in Blank \cup Certs
  BY <1>2 DEF Or
<1> QED
  BY <1>1, <1>3 DEF CertSettings

LEMMA DefaultCertDir ==
  ASSUME NEW dir \in CertDirs, NEW env_dir \in CertDirs
  PROVE  Or(dir, Or(env_dir, "mtls_certificates")) \in CertDirs
  BY CertsAssumption DEF Or, CertDirs

(* The database server's settings.                                         *)
DatabaseServerTyped(s) ==
  /\ CertSettings(s.certs_dir, s.cert_files)
  /\ s.verify_client \in BOOLEAN
  /\ s.storage_backend \in {"local", "redis"}
  /\ (ValidPort(s.redis_port) \/ s.redis_port \in Blank)
  /\ s.advertised_host # Unset

LEMMA VerifyClientMerged ==
  ASSUME NEW v \in BOOLEAN \cup Blank PROVE Or(v, Or(Unset, TRUE)) \in BOOLEAN
  BY Zenon DEF Or, Blank

LEMMA DatabaseServerSettings ==
  ASSUME NEW r \in Requests, r.tool = "database_server"
  PROVE  DatabaseServerTyped(Settings_(r))
<1>1. ASSUME r.by = "cli" PROVE DatabaseServerTyped(Settings_(r))
  <2> DEFINE s == DS!CliSettings(r.args)
  <2>1. Settings_(r) = s
    BY <1>1 DEF Settings_
  <2>2. /\ s.certs_dir = r.args.certs_dir /\ s.cert_files = Unset
        /\ s.storage_backend = "local" /\ s.redis_port = Unset
        /\ s.advertised_host = r.args.advertised_host
    BY DEF DS!CliSettings, DS!DefaultTemplate
  <2>3. s.verify_client = r.args.verify_client
    BY DEF DS!CliSettings, DS!DefaultTemplate
  <2>4. r.args.certs_dir \in CertDirs
    BY RequestsAssumption
  <2>5. r.args.verify_client \in BOOLEAN /\ r.args.advertised_host # Unset
    BY <1>1, DatabaseLineAssumption
  <2> HIDE DEF s
  <2>6. CertSettings(s.certs_dir, s.cert_files)
    BY <2>2, <2>4 DEF CertSettings, Blank
  <2>7. s.verify_client \in BOOLEAN
    BY <2>3, <2>5, Zenon
  <2>8. /\ s.storage_backend \in {"local", "redis"}
        /\ (ValidPort(s.redis_port) \/ s.redis_port \in Blank)
        /\ s.advertised_host # Unset
    <3>1. r.args.advertised_host # Unset
      BY <2>5
    <3> QED
      BY <2>2, <3>1 DEF Blank
  <2> QED
    BY <2>1, <2>6, <2>7, <2>8, Zenon DEF DatabaseServerTyped
<1>2. ASSUME r.by = "merged" PROVE DatabaseServerTyped(Settings_(r))
  <2> DEFINE dir == Or(r.args.certs_dir, Or(r.env.CERTS_DIR, "mtls_certificates"))
             low == DS!DefaultTemplate(dir)
             middle == DS!EnvOverlay(r.env)
             s == DS!MergeSettings(low, middle, r.args)
  <2>1. Settings_(r) = s
    BY <1>2, SharedOr DEF Settings_, DS!MergedSettings
  <2>2. \A k \in DOMAIN low : s[k] = Or(r.args[k], Or(middle[k], low[k]))
    BY MergedField
  <2>3. /\ low.certs_dir = dir /\ low.cert_files = Cert(dir, "tree")
        /\ low.verify_client = TRUE
        /\ low.storage_backend = "local" /\ low.redis_port = Unset
        /\ low.advertised_host = "database-server"
        /\ {"certs_dir", "cert_files", "verify_client", "storage_backend", "redis_port",
            "advertised_host"} \subseteq DOMAIN low
    BY SharedCert DEF DS!DefaultTemplate
  <2>4. /\ middle.certs_dir = r.env.CERTS_DIR
        /\ middle.cert_files = CertIn(r.env.CERTS_DIR, "tree")
        /\ middle.verify_client = Unset
        /\ middle.storage_backend = Unset /\ middle.redis_port = Unset
    BY SharedCert DEF DS!EnvOverlay, DS!NoneOf, DS!DefaultTemplate
  <2>5. /\ r.args.certs_dir \in CertDirs /\ r.env.CERTS_DIR \in CertDirs
        /\ r.args.cert_files \in Blank \cup Certs
    BY <1>2, RequestsAssumption
  <2>6. /\ r.args.verify_client \in BOOLEAN \cup Blank
        /\ r.args.storage_backend \in {"local", "redis"} \cup Blank
        /\ (ValidPort(r.args.redis_port) \/ r.args.redis_port \in Blank)
    BY <1>2, DatabaseProgramAssumption
  <2> HIDE DEF s, low, middle, dir
  <2>7. CertSettings(s.certs_dir, s.cert_files)
    <3>1. /\ s.certs_dir = Or(r.args.certs_dir, Or(r.env.CERTS_DIR, dir))
          /\ s.cert_files = Or(r.args.cert_files, Or(middle.cert_files, Cert(dir, "tree")))
      BY <2>2, <2>3, <2>4
    <3> QED
      BY <3>1, <2>4, <2>5, MergedCerts, DefaultCertDir DEF dir
  <2>8. s.verify_client \in BOOLEAN
    <3>1. s.verify_client = Or(r.args.verify_client, Or(Unset, TRUE))
      BY <2>2, <2>3, <2>4
    <3> QED
      BY <3>1, <2>6, VerifyClientMerged, Zenon
  <2>9. s.storage_backend \in {"local", "redis"} /\ (ValidPort(s.redis_port) \/ s.redis_port \in Blank)
    <3>1. /\ s.storage_backend = Or(r.args.storage_backend, Or(Unset, "local"))
          /\ s.redis_port = Or(r.args.redis_port, Or(Unset, Unset))
      BY <2>2, <2>3, <2>4
    <3>2. /\ r.args.storage_backend \in {"local", "redis"} \cup Blank
          /\ (ValidPort(r.args.redis_port) \/ r.args.redis_port \in Blank)
      BY <2>6
    <3> QED
      BY <3>1, <3>2 DEF Or, Blank
  <2>10. s.advertised_host # Unset
    <3>1. s.advertised_host
            = Or(r.args.advertised_host, Or(middle.advertised_host, "database-server"))
      BY <2>2, <2>3
    <3>2. "database-server" # Unset
      BY CertsAssumption DEF Blank, Literals
    <3> QED
      BY <3>1, <3>2 DEF Or, Blank
  <2> QED
    BY <2>1, <2>7, <2>8, <2>9, <2>10, Zenon DEF DatabaseServerTyped
<1> QED
  <2>1. r.by \in {"cli", "merged"}
    BY RequestsAssumption
  <2> QED
    BY <1>1, <1>2, <2>1

LEMMA DatabaseServerAccepts ==
  ASSUME NEW s, DatabaseServerTyped(s), ValidPort(s.server_port),
         s.advertised_host # Empty, s.log_dir # Empty, s.verify_client,
         s.max_connections >= 1, s.request_timeout >= 1
  PROVE  DS!Accepts(DS!Generated(s))
<1> DEFINE f == DS!Generated(s)
<1>1. /\ f.cert = DS!Certificates(s) /\ f.verify_client = s.verify_client
      /\ f.port = s.server_port /\ f.advertised = s.advertised_host
      /\ f.log_dir = s.log_dir /\ f.sections = {"database_server"}
  BY DEF DS!Generated, DS!Base, DS!BaseFile
<1>2. /\ f.body.require_mtls = TRUE /\ f.body.backend = s.storage_backend
      /\ f.body.redis_host = IF s.storage_backend = "redis" THEN "localhost" ELSE Unset
      /\ f.body.redis_port = IF s.storage_backend = "redis"
                             THEN Or(s.redis_port, 6379) ELSE Unset
      /\ f.body.data_dir = s.log_dir /\ f.body.certs_dir = Or(s.certs_dir, ".")
      /\ f.body.max_connections = s.max_connections
      /\ f.body.request_timeout = s.request_timeout
      /\ f.body.server_id = Or(s.registration_server_id, s.advertised_host)
  BY SharedOr DEF DS!Generated, DS!Base, DS!BaseFile, DS!ServerId
<1> HIDE DEF f
<1>3. f.cert \notin DS!Blank
  BY <1>1, CertificateThere, SharedOr, SharedCert
     DEF DatabaseServerTyped, DS!Certificates, DS!Blank, Blank
<1>4. f.verify_client = TRUE
  <2>1. s.verify_client \in BOOLEAN /\ s.verify_client
    BY DEF DatabaseServerTyped
  <2> QED
    BY <1>1, <2>1, Zenon
<1>5. DS!ValidPort(f.port)
  BY <1>1, SharedPort
<1>6. f.advertised \notin DS!Blank /\ DS!SetOrAbsent(f.log_dir)
  <2>1. s.advertised_host # Unset
    BY DEF DatabaseServerTyped
  <2> QED
    BY <1>1, <2>1 DEF DS!Blank, DS!SetOrAbsent
<1>7. DS!StorageOk(f.body)
  <2>1. s.storage_backend \in {"local", "redis"}
    BY DEF DatabaseServerTyped
  <2>2. ValidPort(s.redis_port) \/ s.redis_port \in Blank
    BY DEF DatabaseServerTyped
  <2>3. DS!ValidPort(Or(s.redis_port, 6379))
    <3>1. DS!ValidPort(6379)
      BY DEF DS!ValidPort, DS!MaxPort
    <3>2. CASE s.redis_port \in Blank
      BY <3>1, <3>2 DEF Or
    <3>3. CASE s.redis_port \notin Blank
      <4>1. ValidPort(s.redis_port)
        BY <2>2, <3>3
      <4>2. DS!ValidPort(s.redis_port)
        BY <4>1, SharedPort
      <4> QED
        BY <3>3, <4>2 DEF Or
    <3> QED
      BY <3>2, <3>3
  <2>4. "localhost" \notin DS!Blank
    BY CertsAssumption DEF Literals, Blank, DS!Blank
  <2> QED
    BY <1>2, <2>1, <2>3, <2>4 DEF DS!StorageOk, DS!SetOrAbsent
<1>8. DS!SectionOk(f.body)
  <2>1. Or(s.certs_dir, ".") # Empty /\ Or(s.registration_server_id, s.advertised_host) # Empty
    BY CertsAssumption DEF Or, Blank, Literals
  <2> QED
    BY <1>2, <1>7, <2>1 DEF DS!SectionOk, DS!SetOrAbsent
<1> QED
  BY <1>1, <1>3, <1>4, <1>5, <1>6, <1>8 DEF DS!Accepts, f

(* The workspace server's settings.                                        *)
WorkspaceServerTyped(s) ==
  /\ CertSettings(s.certs_dir, s.cert_files)
  /\ s.transport_type = "ws" /\ s.fallback_policy \in {"allow", "deny"}
  /\ s.advertised_host # Unset /\ s.log_dir # Empty

LEMMA WorkspaceServerSettings ==
  ASSUME NEW r \in Requests, r.tool = "workspace_server"
  PROVE  WorkspaceServerTyped(Settings_(r))
<1>1. ASSUME r.by = "cli" PROVE WorkspaceServerTyped(Settings_(r))
  <2> DEFINE low == WS!DefaultTemplate(r.args.certs_dir)
             middle == WS!NoneOf(WS!DefaultTemplate(Unset))
             args == r.args
             high == [WS!NoneOf(WS!DefaultTemplate(Unset)) EXCEPT
                        !.certs_dir = args.certs_dir,
                        !.server_port = args.server_port,
                        !.mcp_proxy_url = args.mcp_proxy_url,
                        !.registration_host =
                          WS!UnlessUrl(args.mcp_proxy_url,
                                       WS!Or(args.mcp_proxy_host, "mcp-proxy")),
                        !.registration_port =
                          WS!UnlessUrl(args.mcp_proxy_url, args.mcp_proxy_port),
                        !.registration_server_id = args.registration_server_id,
                        !.advertised_host = args.advertised_host,
                        !.log_dir = args.log_dir,
                        !.fallback_policy = args.fallback_policy,
                        !.max_connections = args.max_connections,
                        !.request_timeout = args.request_timeout]
             s == WS!CliSettings(r.args)
  <2>1. Settings_(r) = s
    BY <1>1 DEF Settings_
  <2>2. /\ s = WS!MergeSettings(low, middle, high)
        /\ high.certs_dir = r.args.certs_dir /\ high.cert_files = Unset
        /\ high.transport_type = Unset
        /\ high.fallback_policy = r.args.fallback_policy
    BY DEF WS!CliSettings, WS!NoneOf, WS!DefaultTemplate
  <2> HIDE DEF s, low, middle, high
  <2>3. \A k \in DOMAIN low : s[k] = Or(high[k], Or(middle[k], low[k]))
    BY <2>2, MergedField
  <2>4. /\ low.certs_dir = r.args.certs_dir /\ low.cert_files = Cert(r.args.certs_dir, "tree")
        /\ low.transport_type = "ws" /\ low.fallback_policy = "deny"
        /\ low.advertised_host = "model-workspace-server" /\ low.log_dir = "/app/logs"
        /\ {"certs_dir", "cert_files", "transport_type", "fallback_policy",
            "advertised_host", "log_dir"} \subseteq DOMAIN low
    BY SharedCert DEF WS!DefaultTemplate, low
  <2>5. /\ middle.certs_dir = Unset /\ middle.cert_files = Unset
        /\ middle.transport_type = Unset /\ middle.fallback_policy = Unset
    BY DEF WS!NoneOf, WS!DefaultTemplate, middle
  <2>6. r.args.certs_dir \in CertDirs
    BY RequestsAssumption
  <2>7. r.args.fallback_policy \in {"allow", "deny"} \cup Blank
    BY WorkspaceRequestsAssumption
  <2>8. CertSettings(s.certs_dir, s.cert_files)
    <3>1. /\ s.certs_dir = r.args.certs_dir
          /\ s.cert_files = Cert(r.args.certs_dir, "tree")
      BY <2>2, <2>3, <2>4, <2>5 DEF Or, Blank
    <3> QED
      BY <3>1, <2>6 DEF CertSettings, Cert, Certs
  <2>9. s.transport_type = "ws" /\ s.fallback_policy \in {"allow", "deny"}
    BY <2>2, <2>3, <2>4, <2>5, <2>7 DEF Or, Blank
  <2>10. s.advertised_host # Unset /\ s.log_dir # Empty
    BY <2>3, <2>4, CertsAssumption DEF Or, Blank, Literals
  <2> QED
    BY <2>1, <2>8, <2>9, <2>10 DEF WorkspaceServerTyped
<1>2. ASSUME r.by = "merged" PROVE WorkspaceServerTyped(Settings_(r))
  <2> DEFINE dir == Or(r.args.certs_dir, Or(r.env.CERTS_DIR, "mtls_certificates"))
             low == WS!DefaultTemplate(dir)
             middle == WS!EnvOverlay(r.env)
             s == WS!MergeSettings(low, middle, r.args)
  <2>1. Settings_(r) = s
    BY <1>2, SharedOr DEF Settings_, WS!MergedSettings
  <2>2. \A k \in DOMAIN low : s[k] = Or(r.args[k], Or(middle[k], low[k]))
    BY MergedField
  <2>3. /\ low.certs_dir = dir /\ low.cert_files = Cert(dir, "tree")
        /\ low.transport_type = "ws" /\ low.fallback_policy = "deny"
        /\ low.advertised_host = "model-workspace-server" /\ low.log_dir = "/app/logs"
        /\ {"certs_dir", "cert_files", "transport_type", "fallback_policy",
            "advertised_host", "log_dir"} \subseteq DOMAIN low
    BY SharedCert DEF WS!DefaultTemplate
  <2>4. /\ middle.certs_dir = r.env.CERTS_DIR
        /\ middle.cert_files = CertIn(r.env.CERTS_DIR, "tree")
        /\ middle.transport_type = Unset /\ middle.fallback_policy = Unset
    BY SharedCert DEF WS!EnvOverlay, WS!NoneOf, WS!DefaultTemplate
  <2>5. /\ r.args.certs_dir \in CertDirs /\ r.env.CERTS_DIR \in CertDirs
        /\ r.args.cert_files \in Blank \cup Certs
    BY <1>2, RequestsAssumption
  <2>6. /\ r.args.fallback_policy \in {"allow", "deny"} \cup Blank
        /\ r.args.transport_type \in {"ws"} \cup Blank
    BY <1>2, WorkspaceRequestsAssumption
  <2> HIDE DEF s, low, middle, dir
  <2>7. CertSettings(s.certs_dir, s.cert_files)
    <3>1. /\ s.certs_dir = Or(r.args.certs_dir, Or(r.env.CERTS_DIR, dir))
          /\ s.cert_files = Or(r.args.cert_files, Or(middle.cert_files, Cert(dir, "tree")))
      BY <2>2, <2>3, <2>4
    <3> QED
      BY <3>1, <2>4, <2>5, MergedCerts, DefaultCertDir DEF dir
  <2>8. s.transport_type = "ws" /\ s.fallback_policy \in {"allow", "deny"}
    BY <2>2, <2>3, <2>4, <2>6 DEF Or, Blank
  <2>9. s.advertised_host # Unset /\ s.log_dir # Empty
    BY <2>2, <2>3, CertsAssumption DEF Or, Blank, Literals
  <2> QED
    BY <2>1, <2>7, <2>8, <2>9 DEF WorkspaceServerTyped
<1> QED
  <2>1. r.by \in {"cli", "merged"}
    BY RequestsAssumption
  <2> QED
    BY <1>1, <1>2, <2>1

LEMMA WorkspaceServerAccepts ==
  ASSUME NEW s, NEW d, WorkspaceServerTyped(s), ValidPort(s.server_port),
         s.advertised_host # Empty, WS!InLimits(s.max_connections, 100000),
         WS!InLimits(s.request_timeout, 86400), WS!Certificates(s).dir \in d
  PROVE  WS!Accepts(WS!Generated(s), d)
<1> DEFINE f == WS!Generated(s)
<1>1. /\ f.cert = WS!Certificates(s) /\ f.port = s.server_port
      /\ f.advertised = s.advertised_host /\ f.log_dir = s.log_dir
      /\ f.sections = {"model_workspace_server"}
      /\ f.transport = [type |-> s.transport_type, fallback |-> s.fallback_policy]
  BY DEF WS!Generated, WS!Base, WS!BaseFile
<1>2. /\ f.body.server_id = Or(s.registration_server_id, s.advertised_host)
      /\ f.body.max_connections = s.max_connections
      /\ f.body.request_timeout = s.request_timeout
      /\ f.body.log_dir = s.log_dir
  BY SharedOr DEF WS!Generated, WS!Base, WS!BaseFile, WS!ServerId
<1> HIDE DEF f
<1>3. WS!ServerOk(f)
  <2>1. WS!ValidPort(f.port)
    BY <1>1, SharedPort
  <2> QED
    BY <1>1, <2>1 DEF WorkspaceServerTyped, WS!ServerOk, WS!Blank
<1>4. WS!TransportOk(f, d)
  <2>1. f.cert # Unset
    BY <1>1, CertificateThere, SharedOr, SharedCert
       DEF WorkspaceServerTyped, WS!Certificates, Blank
  <2>2. f.transport \in Transports
    BY <1>1 DEF WorkspaceServerTyped, Transports
  <2>3. f.transport # Unset
    BY <2>2, CertsAssumption DEF Blank
  <2> QED
    BY <1>1, <2>1, <2>2, <2>3 DEF WS!TransportOk, WS!OnDisk, Transports
<1>5. WS!SectionOk(f.body)
  <2>1. Or(s.registration_server_id, s.advertised_host) # Empty
    BY DEF Or, Blank
  <2> QED
    BY <1>2, <2>1 DEF WorkspaceServerTyped, WS!SectionOk
<1> QED
  BY <1>1, <1>3, <1>4, <1>5 DEF WS!Accepts, f

(* The clients' settings.                                                  *)
LEMMA DatabaseClientSettings ==
  ASSUME NEW r \in Requests, r.tool = "database_client"
  PROVE  CertSettings(Settings_(r).certs_dir, Settings_(r).cert_files)
<1> DEFINE dir == Or(r.args.certs_dir, "mtls_certificates")
           low == DC!DefaultTemplate(dir)
           middle == DC!EnvOverlay(r.env)
           high == DC!ArgsOverlay(r.args)
           s == DC!MergeSettings(low, middle, high)
<1>1. high.certs_dir = dir /\ high.cert_files = Unset
  BY SharedOr DEF DC!ArgsOverlay, DC!NoneOf, DC!DefaultTemplate
<1>2. Settings_(r) = s
  <2>1. DC!CliSettings(r.args, r.env)
          = DC!MergeSettings(DC!DefaultTemplate(high.certs_dir), middle, high)
    BY DEF DC!CliSettings
  <2> HIDE DEF high
  <2> QED
    BY <1>1, <2>1 DEF Settings_
<1>3. /\ low.certs_dir = dir /\ low.cert_files = Cert(dir, "tree")
      /\ {"certs_dir", "cert_files"} \subseteq DOMAIN low
  BY SharedCert DEF DC!DefaultTemplate
<1>4. /\ middle.certs_dir = r.env.CERTS_DIR
      /\ middle.cert_files = CertIn(r.env.CERTS_DIR, "tree")
  BY SharedCert DEF DC!EnvOverlay, DC!NoneOf, DC!DefaultTemplate
<1>5. dir \in CertDirs /\ r.env.CERTS_DIR \in CertDirs
  BY RequestsAssumption, CertsAssumption DEF Or, CertDirs
<1> HIDE DEF low, middle, high, dir
<1>6. \A k \in DOMAIN low : s[k] = Or(high[k], Or(middle[k], low[k]))
  BY MergedField
<1> HIDE DEF s
<1>7. /\ s.certs_dir = Or(dir, Or(r.env.CERTS_DIR, dir))
      /\ s.cert_files = Or(Unset, Or(CertIn(r.env.CERTS_DIR, "tree"), Cert(dir, "tree")))
  BY <1>1, <1>3, <1>4, <1>6
<1> QED
  BY <1>2, <1>5, <1>7, MergedCerts DEF Blank

LEMMA WorkspaceClientSettings ==
  ASSUME NEW r \in Requests, r.tool = "workspace_client"
  PROVE  CertSettings(Settings_(r).certs_dir, Settings_(r).cert_files)
<1> DEFINE args == r.args
           env == r.env
           dir == WC!Or(args.certs_dir, WC!Or(env.CERTS_DIR, "mtls_certificates"))
           low == WC!DefaultTemplate(dir)
           middle == WC!EnvOverlay(env)
           high == [WC!NoneOf(low) EXCEPT
                      !.certs_dir = dir,
                      !.endpoint = WC!Or(args.endpoint, WC!Or(env.ENDPOINT, low.endpoint)),
                      !.connect_timeout = WC!Or(args.connect_timeout, 30),
                      !.request_timeout = WC!Or(args.request_timeout, 120),
                      !.retry_max = WC!Or(args.retry_max, 3),
                      !.metrics = WC!Or(args.metrics, FALSE)]
           s == WC!MergeSettings(low, middle, high)
<1>1. high.certs_dir = dir /\ high.cert_files = Unset
  BY DEF WC!NoneOf, WC!DefaultTemplate
<1>2. Settings_(r) = s
  <2>1. WC!CliSettings(args, env) = s
    BY DEF WC!CliSettings
  <2>2. Settings_(r) = WC!MergedSettings(WC!CliSettings(args, env), env)
    BY DEF Settings_
  <2> QED
    BY <2>1, <2>2, MergedOnce
<1>3. /\ low.certs_dir = dir /\ low.cert_files = Cert(dir, "tree")
      /\ {"certs_dir", "cert_files"} \subseteq DOMAIN low
  BY SharedCert DEF WC!DefaultTemplate
<1>4. /\ middle.certs_dir = env.CERTS_DIR
      /\ middle.cert_files = CertIn(env.CERTS_DIR, "tree")
  BY SharedCert DEF WC!EnvOverlay, WC!NoneOf, WC!DefaultTemplate
<1>5. dir \in CertDirs /\ env.CERTS_DIR \in CertDirs
  BY RequestsAssumption, DefaultCertDir, SharedOr
<1> HIDE DEF low, middle, high, dir
<1>6. \A k \in DOMAIN low : s[k] = Or(high[k], Or(middle[k], low[k]))
  BY MergedField
<1> HIDE DEF s
<1>7. /\ s.certs_dir = Or(dir, Or(env.CERTS_DIR, dir))
      /\ s.cert_files = Or(Unset, Or(CertIn(env.CERTS_DIR, "tree"), Cert(dir, "tree")))
  BY <1>1, <1>3, <1>4, <1>6
<1> QED
  BY <1>2, <1>5, <1>7, MergedCerts DEF Blank

(* With its certificates on disk, what a client's generator writes of      *)
(* settings in range passes.                                               *)
LEMMA DatabaseClientAccepts ==
  ASSUME NEW s, NEW d, CertSettings(s.certs_dir, s.cert_files),
         DC!ValidEndpoint(s.endpoint), s.connect_timeout >= 1, s.request_timeout >= 1,
         s.retry_max >= 0, DC!Certificates(s).dir \in d
  PROVE  DC!Accepts(DC!Generated(s), d)
<1> DEFINE f == DC!Generated(s)
<1>1. /\ f.sections = {"database_client"}
      /\ f.client = [mtls |-> TRUE, cert |-> DC!Certificates(s)]
      /\ f.body = [endpoint |-> s.endpoint, cert |-> DC!Certificates(s),
                   connect_timeout |-> s.connect_timeout,
                   request_timeout |-> s.request_timeout,
                   retry_max |-> s.retry_max, metrics |-> s.metrics]
  BY DEF DC!Generated, DC!Base, DC!BaseFile
<1>2. DC!OnDisk(DC!Certificates(s), d)
  BY CertificateThere, SharedOr, SharedCert DEF DC!Certificates, DC!OnDisk, Blank
<1> HIDE DEF f
<1>3. DC!SectionOk(f.body, d)
  BY <1>1, <1>2 DEF DC!SectionOk, DC!AtLeast
<1> QED
  BY <1>1, <1>2, <1>3 DEF DC!Accepts, DC!ClientOk, f

LEMMA WorkspaceClientAccepts ==
  ASSUME NEW s, NEW d, CertSettings(s.certs_dir, s.cert_files),
         WC!ValidEndpoint(s.endpoint), s.connect_timeout >= 1, s.request_timeout >= 1,
         s.retry_max >= 0, WC!Certificates(s).dir \in d
  PROVE  WC!Accepts(WC!Generated(s), d)
<1> DEFINE f == WC!Generated(s)
<1>1. /\ f.sections = {"model_workspace_client"}
      /\ f.client = [mtls |-> TRUE, cert |-> WC!Certificates(s)]
      /\ f.body = [endpoint |-> s.endpoint, cert |-> WC!Certificates(s),
                   connect_timeout |-> s.connect_timeout,
                   request_timeout |-> s.request_timeout,
                   retry_max |-> s.retry_max, metrics |-> s.metrics]
  BY DEF WC!Generated, WC!Base, WC!BaseFile
<1>2. WC!OnDisk(WC!Certificates(s), d)
  BY CertificateThere, SharedOr, SharedCert DEF WC!Certificates, WC!OnDisk, Blank
<1> HIDE DEF f
<1>3. WC!SectionOk(f.body, d)
  BY <1>1, <1>2 DEF WC!SectionOk, WC!AtLeast
<1> QED
  BY <1>1, <1>2, <1>3 DEF WC!Accepts, WC!ClientOk, f

(* Each of the four generators writes, of settings within the limits that  *)
(* its validator has, a file that the validator accepts: the two halves    *)
(* of a package agree, though neither calls the other.                     *)
THEOREM GeneratedAccepted == Spec => []GeneratedIsAccepted
<1>1. ASSUME NEW r \in Requests, r.tool = tool, InRange(r) PROVE Accepts(WholeOf(r))
  <2> DEFINE s == Settings_(r)
  <2>1. CASE r.tool = "database_server"
    <3>1. /\ ValidPort(s.server_port) /\ s.advertised_host # Empty
          /\ s.log_dir # Empty /\ s.verify_client
          /\ s.max_connections >= 1 /\ s.request_timeout >= 1
      BY <1>1, <2>1 DEF InRange
    <3>2. DatabaseServerTyped(s)
      BY <2>1, DatabaseServerSettings
    <3>3. DS!Accepts(DS!Generated(s))
      BY <3>1, <3>2, DatabaseServerAccepts
    <3> QED
      BY <1>1, <2>1, <3>3 DEF Accepts, WholeOf
  <2>2. CASE r.tool = "workspace_server"
    <3>1. /\ ValidPort(s.server_port) /\ s.advertised_host # Empty
          /\ WS!InLimits(s.max_connections, 100000)
          /\ WS!InLimits(s.request_timeout, 86400)
          /\ WS!Certificates(s).dir \in disk
      BY <1>1, <2>2 DEF InRange
    <3>2. WorkspaceServerTyped(s)
      BY <2>2, WorkspaceServerSettings
    <3>3. WS!Accepts(WS!Generated(s), disk)
      BY <3>1, <3>2, WorkspaceServerAccepts
    <3> QED
      BY <1>1, <2>2, <3>3 DEF Accepts, WholeOf
  <2>3. CASE r.tool = "database_client"
    <3>1. /\ DC!ValidEndpoint(s.endpoint)
          /\ s.connect_timeout >= 1 /\ s.request_timeout >= 1 /\ s.retry_max >= 0
          /\ DC!Certificates(s).dir \in disk
      BY <1>1, <2>3 DEF InRange
    <3>2. CertSettings(s.certs_dir, s.cert_files)
      BY <2>3, DatabaseClientSettings
    <3>3. DC!Accepts(DC!Generated(s), disk)
      BY <3>1, <3>2, DatabaseClientAccepts
    <3> QED
      BY <1>1, <2>3, <3>3 DEF Accepts, WholeOf
  <2>4. CASE r.tool = "workspace_client"
    <3>1. /\ WC!ValidEndpoint(s.endpoint)
          /\ s.connect_timeout >= 1 /\ s.request_timeout >= 1 /\ s.retry_max >= 0
          /\ WC!Certificates(s).dir \in disk
      BY <1>1, <2>4 DEF InRange
    <3>2. CertSettings(s.certs_dir, s.cert_files)
      BY <2>4, WorkspaceClientSettings
    <3>3. WC!Accepts(WC!Generated(s), disk)
      BY <3>1, <3>2, WorkspaceClientAccepts
    <3> QED
      BY <1>1, <2>4, <3>3 DEF Accepts, WholeOf
  <2>5. r.tool \in Tools
    BY RequestsAssumption
  <2> QED
    BY <2>1, <2>2, <2>3, <2>4, <2>5 DEF Tools, Clients
<1>2. ToolInv => GeneratedIsAccepted
  BY <1>1 DEF ToolInv, GeneratedIsAccepted
<1> QED
  BY <1>2, ToolInvHolds, PTL
=============================================================================
