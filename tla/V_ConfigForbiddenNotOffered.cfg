SPECIFICATION Spec
CONSTANTS
  Preferred <- MCPreferred
  NoServer <- MCNoServer
  Vectorization <- MCVectorization
  Segments <- MCSegments
  Commands <- MCCommands
  ListInputs <- MCOpen
  Policies <- MCForbidEmbed
  Discoveries <- MCDiscoveries
  Help <- MCHelp
  Gateway <- MCGateway
  NoName <- MCNoName
INVARIANT ConfigForbiddenNotOffered
