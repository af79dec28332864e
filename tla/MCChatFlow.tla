----------------------------- MODULE MCChatFlow -----------------------------
(***************************************************************************)
(* ChatFlow on a small instance: a session whose registry offers "echo",   *)
(* and a model that calls it, asks for its help, calls a name nobody       *)
(* registered, or writes the gateway names of the mode without a session.  *)
(***************************************************************************)
EXTENDS ChatFlow, TLC

MCTools == {"help", "call_server", "list_servers", "echo"}
MCTargets == {"echo.a", "echo.b"}
MCRegistry == "echo" :> "echo.a"

Call(t, a) == [tool |-> t, arg |-> a]

\* One call for every branch of the two dispatchers.
MCCalls == {Call("echo", "none"), Call("help", "echo"), Call("help", "none"),
            Call("call_server", "echo.b"), Call("list_servers", "none"),
            Call("echo", "malformed")}
\* A model that once writes arguments that are no object.
MCMalformedCalls == {Call("echo", "none"), Call("echo", "malformed")}
=============================================================================
