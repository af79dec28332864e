SPECIFICATION Spec
CONSTANTS
  Ids = {"s"}
  Models = {"none", "m1"}
  Commands = {"a", "b"}
  NoSession = NoSession
  NoRequest = NoRequest
  Procs = {"adapter"}
  Inputs <- MCInputs
INVARIANTS TypeOK RevocationHolds
PROPERTY StoreRefined
