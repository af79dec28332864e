---------------------------- MODULE ProviderConfig ----------------------------
(***************************************************************************)
(* The provider_clients section: its validator and generator, the registry *)
(* of provider clients, the resolver of a model's endpoint and the client  *)
(* of Model Workplace Server (mwps/provider_*.py, mwps_provider_client.py, *)
(* model_provider_resolver.py).                                            *)
(*                                                                         *)
(* The section is a record: the name of the default provider, a function   *)
(* from names to providers' sections, and "known": no key that the schema  *)
(* does not have, at any level, and objects where it has objects.          *)
(***************************************************************************)
EXTENDS Settings

CONSTANT OtherNames   \* names that fit the naming rule, beside the canonical

Canonical == {"mwps", "openai", "anthropic", "google", "xai", "deepseek"}

RequiringAuth == {"openai", "anthropic", "google", "xai", "deepseek"}

(* tls: Unset, {} (an empty object) or an object that has verify off or on *)
(* ("on" where verify is not given).                                       *)
Section(url, timeout, key, tls) ==
  [known |-> TRUE, transport |-> TRUE, url |-> url, timeout |-> timeout,
   key |-> key, tls |-> tls]

Providers(default, sections) ==
  [known |-> TRUE, default |-> default, sections |-> sections]

-----------------------------------------------------------------------------
(* validate_provider_clients_structure: no error.                          *)

NameOk(name) == name \in Canonical \cup OtherNames

SectionOk(s) == s.known /\ s.transport

StructureOk(pc) ==
  /\ pc.known
  /\ pc.default \notin Blank
  /\ DOMAIN pc.sections # {}
  /\ \A name \in DOMAIN pc.sections : NameOk(name) /\ SectionOk(pc.sections[name])

-----------------------------------------------------------------------------
(* validate_provider_clients: no error.  The rules for the active provider *)
(* are those of every provider, so it needs none of its own.               *)

Secure(url) == url \notin Blank /\ url.scheme \in {"https", "wss"}

AuthTlsOk(name, s) ==
  /\ Secure(s.url) => s.tls = "on"
  /\ name \in RequiringAuth => s.key \notin Blank

ValidProviders(pc) ==
  /\ StructureOk(pc)
  /\ pc.default \in DOMAIN pc.sections
  /\ \A name \in DOMAIN pc.sections :
       pc.sections[name].url \notin Blank /\ AuthTlsOk(name, pc.sections[name])

(* The generator of a section: a section for mwps, and whether it makes    *)
(* one of the given sections (or raises).                                  *)
DefaultSection(url, timeout) == Section(url, timeout, Unset, "{}")

Generates(default, sections) ==
  default \in DOMAIN sections /\ ValidProviders(Providers(default, sections))

-----------------------------------------------------------------------------
\* Mutant: the client of Model Workplace Server is registered for OpenAI too.
BuildersForOpenAI == {"mwps", "openai"}

(* The registry: the providers that a client is implemented for, and       *)
(* whether it returns one (or raises).                                     *)
Builders == {"mwps"}

HasClient(name, pc) ==
  /\ name \in DOMAIN pc.sections
  /\ name \in Builders

HasDefaultClient(pc) == ValidProviders(pc) /\ HasClient(pc.default, pc)

(* A client of the section s: where it posts, and its timeout, which is 60 *)
(* seconds where the section has no number.                                *)
Client(s) == [url |-> s.url, timeout |-> IF s.timeout \in Int THEN s.timeout ELSE 60]

DefaultClient(pc) == Client(pc.sections[pc.default])

(* The resolver knows one provider, whatever the model is called.          *)
ProviderForModel(model) == "mwps"

Resolves(pc, model) ==
  /\ ProviderForModel(model) \in DOMAIN pc.sections
  /\ pc.sections[ProviderForModel(model)].url \notin Blank

Resolved(pc, model) == pc.sections[ProviderForModel(model)].url

-----------------------------------------------------------------------------
(* What a client makes of an answer to a request for a chat: a message, or *)
(* the class of the error it raises.  A redirect counts as an error of the *)
(* transport, as does a body that is no JSON.                              *)
Answers == {"message", "no message", "no object", "no json", "302", "401", "403",
            "429", "500", "timeout", "refused"}

Exchange(answer) ==
  CASE answer = "message"                            -> "message"
    [] answer \in {"401", "403"}                     -> "auth"
    [] answer = "429"                                -> "rate limit"
    [] answer \in {"no message", "no object", "500"} -> "protocol"
    [] answer = "timeout"                            -> "timeout"
    [] OTHER                                         -> "transport"
=============================================================================
