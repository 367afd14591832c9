CONSTANTS
  Parameters <- MCParameters
  Wildcards <- MCWildcards
  Queries <- MCQueries
  Authorities <- MCAuthorities
  HierarchyDepth = 4
  Upper <- MCUpper
  ServeEntryPoint <- MCServeEntryPoint
  HttpVerbs = {"get", "post"}
  TransportPackages = {"requests", "aiohttp"}
  SendingMembers = {"get", "post", "send"}
  Builders = {"Request"}
  ServerHalf <- MCServerHalf
  MaxProofSteps = 2
  MaxConstantEdges = 2
  MaxEmbedding = 3
  MajorVersions <- MCMajorVersions
  Units <- GoUnits
SPECIFICATION Spec
INVARIANT ConfigIsNamedByItsWriter
CHECK_DEADLOCK FALSE
