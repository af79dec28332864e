SPECIFICATION Spec
CONSTANTS
  Tools <- MCTools
  Help = "help"
  CallServer = "call_server"
  ListServers = "list_servers"
  Targets <- MCTargets
  Registry <- MCRegistry
  Calls <- MCMalformedCalls
  NoArg = "none"
  Malformed = "malformed"
  MaxCalls = 1
  MaxHistory = 3
  MaxRounds = {1}
  InputLens = {1}
  WsFirst = FALSE
INVARIANT ErrorsAnsweredInBand
CHECK_DEADLOCK FALSE
