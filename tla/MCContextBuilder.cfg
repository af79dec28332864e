SPECIFICATION Spec
CONSTANTS
  Sizes = {0, 5, 9}
  Scores = {0, 1}
  MaxSystem = 1
  MaxHistory = 3
  LastNs = {0, 1, 2}
  Limits = {2, 3, 4}
  Reserved = 3
  CharsPerToken = 4
  Tools = {"echo"}
  Help = "help"
INVARIANTS
  TypeOK
  FillsLimit
  HistoryOnce
CHECK_DEADLOCK FALSE
