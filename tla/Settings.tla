------------------------------ MODULE Settings ------------------------------
(***************************************************************************)
(* What the configuration tools of the packages share: layers of settings, *)
(* URLs, and the configuration file that the adapter library's generator   *)
(* writes and the packages' generators complete.                           *)
(*                                                                         *)
(* A file is a record.  Its field "sections" names the project's sections  *)
(* that are in it; the contents of a section that is not are Unset.        *)
(***************************************************************************)
EXTENDS Integers

CONSTANTS Unset,     \* a key that is absent or null
          Empty,     \* the empty string
          Dirs,      \* directories for certificates
          MtlsDirs   \* those that are, or are below, an "mtls_certificates"

Blank == {Unset, Empty}

ASSUME SettingsAssumption ==
  /\ MtlsDirs \subseteq Dirs
  /\ Blank \cap (Dirs \cup Int \cup BOOLEAN) = {}

(* Python's "v or w", for values of which only blank ones are false.       *)
Or(v, w) == IF v \in Blank THEN w ELSE v

(* One layer of settings over another, as each package's merge_settings    *)
(* puts them: a blank value leaves what is below it.                       *)
Overlay(low, high) == [k \in DOMAIN low |-> Or(high[k], low[k])]

NoneOf(layer) == [k \in DOMAIN layer |-> Unset]

-----------------------------------------------------------------------------
(* URLs: a scheme (or Unset), a host (or Unset), a port (or Unset).        *)

Url(scheme, host, port) == [scheme |-> scheme, host |-> host, port |-> port]

PortOr(url, secure) ==
  Or(url.port, IF url.scheme = secure THEN 443 ELSE 80)

MaxPort == 65535

ValidPort(p) == p \in 1..MaxPort

(* urlparse's .port raises for other numbers.                              *)
PortInRange(url) == url.port = Unset \/ url.port \in 0..MaxPort

(* A certificate file: its directory and how that is laid out (all files   *)
(* together, or in server/, client/ and ca/).  The certificate, the key    *)
(* and the CA of one configuration stand for each other.                   *)
Cert(dir, layout) == [dir |-> dir, layout |-> layout]

CertIn(dir, layout) == IF dir \in Blank THEN Unset ELSE Cert(dir, layout)

OnDisk(cert, disk) == cert # Unset /\ cert.dir \in disk

-----------------------------------------------------------------------------
(* Host and port of the proxy are only read where no URL is given.         *)
UnlessUrl(url, v) == IF url = Unset THEN v ELSE Unset

(* SimpleConfigGenerator.generate of the adapter library: the file with    *)
(* none of the project's sections.                                         *)
BaseFile(server_cert, client_cert, port, host, hostport, server_id) ==
  [protocol   |-> "mtls",
   cert       |-> server_cert,
   port       |-> port,
   advertised |-> Unset,
   log_dir    |-> Unset,
   verify_client |-> Unset,
   transport  |-> Unset,
   register   |-> Url("https", host, hostport),
   reg_cert   |-> client_cert,
   server_id  |-> server_id,
   client     |-> [mtls |-> FALSE, cert |-> Unset],
   sections   |-> {},
   body       |-> Unset,
   providers  |-> Unset]

(* The proxy endpoint of a server: the URL, or else host and port.         *)
ProxyHost(s) == IF s.mcp_proxy_url = Unset THEN s.registration_host
                                           ELSE s.mcp_proxy_url.host
ProxyPort(s) == IF s.mcp_proxy_url = Unset THEN s.registration_port
                                           ELSE PortOr(s.mcp_proxy_url, "https")
=============================================================================
