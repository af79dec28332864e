SPECIFICATION Spec
CONSTANTS
  Ids = {"s"}
  Models = {"none", "m1"}
  Commands = {"a", "b"}
  NoSession = NoSession
  NoRequest = NoRequest
  Procs = {"adapter", "database"}
  Inputs <- MCInputs

INVARIANT RevocationHolds
