SPECIFICATION Spec
CONSTANTS
  Units <- TwoWays
  Statements <- TwoWaysStatements
  Longest <- TwoWaysLongest
INVARIANT MountOncePerSite
