SPECIFICATION Spec
CONSTANTS
  Preferred <- MCPreferred
  NoServer <- MCNoServer
  Vectorization <- MCVectorization
  Segments <- MCSegments
  Commands <- MCCommands
  ListInputs <- MCListInputs
  Policies <- MCPolicies
  Discoveries <- MCDiscoveries
  Help <- MCHelp
  Gateway <- MCGateway
  NoName <- MCNoName
INVARIANTS
  TypeOK
  RevokedNeverRuns
  CallsGoHome
  PreferredServerWins
  OnlyPermittedOffered
