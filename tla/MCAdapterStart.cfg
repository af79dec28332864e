SPECIFICATION Spec
CONSTANTS
  Unset = Unset
  Empty = Empty
  Torn = Torn
  Dirs <- MCDirs
  MtlsDirs <- MCMtlsDirs
  OtherNames <- MCOtherNames
  Images = {"docker", "container"}
  Envs <- MCEnvs
  CliArgs <- MCCliArgs
  Edits <- MCEdits
  MaxChanges = 2
  MaxKills = 1
INVARIANTS TypeOK RunsComplete FreshConfig ProxyAgreed OneEndpoint GeneratedLoads ClearTimeout
PROPERTY Recovers
CHECK_DEADLOCK FALSE
