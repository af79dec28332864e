SPECIFICATION Spec
CONSTANTS
  Chats = {1, 2, 3}
  External = {0}
  LastN = 3
  ScanRanks <- MCStable
INVARIANTS
  TypeOK
  ReplyRecorded
  TurnsTogether
  ContextComplete
PROPERTY TurnsRecorded
CHECK_DEADLOCK FALSE
