SPECIFICATION Spec
CONSTANTS
  Preferred <- MCPreferred
  NoServer <- MCNoServer
  Vectorization <- MCVectorization
  Segments <- MCSegments
  Commands <- MCCommands
  ListInputs <- MCListInputs
  Policies <- MCAllowAll
  Discoveries <- MCDiscoveries
  Help <- MCHelp
  Gateway <- MCGateway
  NoName <- MCNoName
PROPERTY RemovalNeverWidens
