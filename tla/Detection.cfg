CONSTANTS
  Parameters <- MCParameters
  Wildcards <- MCWildcards
  Queries <- MCQueries
  Authorities <- MCAuthorities
  HierarchyDepth = 4
  Upper <- MCUpper
  ServeEntryPoint <- MCServeEntryPoint
  HttpVerbs = {"get", "post"}
  TransportPackages = {"requests", "aiohttp"}
  SendingMembers = {"get", "post", "send"}
  Builders = {"Request"}
  ServerHalf <- MCServerHalf
  MaxProofSteps = 2
  MaxConstantEdges = 2
  MaxEmbedding = 3
  MajorVersions <- MCMajorVersions
  Units <- MCUnits
SPECIFICATION Spec
INVARIANTS
  TypeOK
  DeclaredIsCountedOrReported
  ConflictIsDoubleDeclaration
  OrderOfDraftsIsIrrelevant
  UnprovenNeverMerge
  HeldRoutesAreAnchored
  VerbsAreThoseOfTheHierarchy
  EveryClaimIsEmitted
  VanishedSitesCollide
  SharedCallIsNested
  PublishedIsSent
  ComposedSendsArePublished
PROPERTY
  ImplementsInboundFacts
\* A unit that is reported stays reported.
CHECK_DEADLOCK FALSE
