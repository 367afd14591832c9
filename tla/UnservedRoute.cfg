SPECIFICATION Spec
CONSTANTS
  Units <- Shadowing
  Statements <- ShadowingStatements
  Longest <- ShadowingLongest
INVARIANT PublishedIsServed
