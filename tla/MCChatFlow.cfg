SPECIFICATION FairSpec
CONSTANTS
  Tools <- MCTools
  Help = "help"
  CallServer = "call_server"
  ListServers = "list_servers"
  Targets <- MCTargets
  Registry <- MCRegistry
  Calls <- MCCalls
  NoArg = "none"
  Malformed = "malformed"
  MaxCalls = 2
  MaxHistory = 5
  MaxRounds = {0, 2}
  InputLens = {1}
  WsFirst = TRUE
INVARIANTS
  TypeOK
  AnsweredInOrder
  OnlyRegisteredCommandsRun
  RoundBudget
  EffectsRecorded
  DeliveredCallNotRepeated
PROPERTIES FlowEnds ConversationRefined
CHECK_DEADLOCK FALSE
