--------------------------- MODULE MCSessionTools ---------------------------
(***************************************************************************)
(* SessionTools on two servers that both offer "v1.echo", the preferred    *)
(* adapter "a" listed last, the embedding service, a server with a command *)
(* "help", and a server whose id is the host name "a.b".                   *)
(***************************************************************************)
EXTENDS SessionTools

EchoA == <<"v1", "echo", "a">>
EchoB == <<"v1", "echo", "b">>
Embed == <<"embed", "e">>

MCSegments == {"v1", "echo", "embed", "help", "a", "b", "e"}

MCPreferred == <<"a">>
MCNoServer == <<>>
MCVectorization == <<Embed>>

Cmd(name, server, available) ==
  [name |-> name, server |-> server, available |-> available]

MCDiscoveries ==
  {<<Cmd(<<"v1", "echo">>, <<"b">>, TRUE), Cmd(<<"v1", "echo">>, <<"a">>, up),
     Cmd(<<"embed">>, <<"e">>, TRUE)>> : up \in BOOLEAN}
    \cup {<<Cmd(<<"help">>, <<"b">>, TRUE)>>,
          <<Cmd(<<"embed">>, <<"a", "b">>, TRUE), Cmd(<<"v1", "echo">>, <<"b">>, TRUE)>>}

MCHelp == <<"help">>
MCGateway == {<<"help">>, <<"call_server">>, <<"list_servers">>}
MCNoName == <<>>

MCCommands == {EchoA, EchoB, Embed}

Lists2(a, f) == [allowed |-> a, forbidden |-> f]
Policy(m, a, f) == [mode |-> m, allowed |-> a, forbidden |-> f]

MCListInputs == {Lists2({}, {}), Lists2({EchoB}, {Embed})}
MCOpen == {Lists2({}, {})}

MCPolicies == {Policy("allow_by_default", {}, {}),
               Policy("deny_by_default", {EchoA, EchoB}, {EchoB})}
MCForbidEmbed == {Policy("allow_by_default", {}, {Embed})}
MCAllowAll == {Policy("allow_by_default", {}, {})}
=============================================================================
