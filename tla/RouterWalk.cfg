SPECIFICATION Spec
CONSTANTS
  Units <- AllUnits
  Statements <- AllStatements
  Longest <- AllLongest
INVARIANTS
  TypeOK
  FourthEdgeRefused
  NothingOpenTwice
  NearestWalkWins
  MountedTwiceHasNoPath
  ProvenChainIsServed
  NoSiteDropped
