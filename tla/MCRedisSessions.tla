--------------------------- MODULE MCRedisSessions ---------------------------
(***************************************************************************)
(* RedisSessions on one session, two commands and two models, with the     *)
(* calls that touch one field each, and one that touches two.              *)
(***************************************************************************)
EXTENDS RedisSessions

S(m, a, f) == [model |-> m, allowed |-> a, forbidden |-> f]
Provide(fields, m, a, f) == [given |-> fields, new |-> S(m, a, f)]

MCInputs ==
  [create |-> {S("none", {}, {}), S("m1", {"a"}, {})},
   update |-> {Provide({"model"}, "m1", {}, {}),
               Provide({"allowed"}, "none", {"b"}, {}),
               Provide({"forbidden"}, "none", {}, {"b"}),
               Provide({"model", "forbidden"}, "none", {}, {})},
   add    |-> {"a", "b"},
   remove |-> {"a", "b"}]
=============================================================================
