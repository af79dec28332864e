SPECIFICATION Spec
CONSTANTS
  Servers = {"s", "t"}
  Names = {"echo"}
  Odd = "odd"
  Broken = "broken"
  MaxCommands = 2
  MaxServers = 2
  MaxCache = 3
INVARIANTS
  TypeOK
  AvailableIffServed
PROPERTY KnownCommandsKept
CHECK_DEADLOCK FALSE
