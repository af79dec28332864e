SPECIFICATION Spec
CONSTANTS
  Unset = Unset
  Empty = Empty
  Dirs <- MCDirs
  MtlsDirs = {"mtls_certificates"}
  Requests <- MCRequests
  BadPorts = {0}
  BadEndpoints <- MCBadEndpoints
  MaxChanges = 2
  MaxRequests = 1
INVARIANTS TypeOK GeneratedIsAccepted HalfWrittenRefused 
CHECK_DEADLOCK FALSE
