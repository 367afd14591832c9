\* A strict build against a declared baseline that is absent or unreadable.
SPECIFICATION Spec
CONSTANTS
  Run = {r1}
  Invocation <- StrictCalls
  SourceFile = {1}
  SpecFile = {}
  Content = {"a", "b"}
  Gone = Gone
  NoFloor = NoFloor
  NoOne = NoOne
  ConfigText <- FloorConfigs
  FirstConfig <- OldFloor
  FirstSource <- OneTree
  DefaultConfig <- Fresh
  BadLocator = {}
  Baselines <- AnyBaseline
  Core = {"site", "selector"}
  Mandatory = {"selector"}
  Raises <- RaisesOf
  JsonOut = FALSE
  FactsOut = TRUE
  HasInput = TRUE
  DeclaresBaseline = TRUE
  Overlap = FALSE
  LiveEdits = FALSE
  MaxEdits = 0
  MaxFaults = 0
SYMMETRY Symmetry
INVARIANTS
  ConfigErrorWritesNothing
\* Every run may have ended: each Run value is used once.
CHECK_DEADLOCK FALSE
