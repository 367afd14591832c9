\* Two builds that overlap: each decides the raise on the floor it loaded.
SPECIFICATION Spec
CONSTANTS
  Run = {r1, r2}
  Invocation <- RaisingBuilds
  SourceFile = {1}
  SpecFile = {}
  Content = {"a"}
  Gone = Gone
  NoFloor = NoFloor
  NoOne = NoOne
  ConfigText <- FloorConfigs
  FirstConfig <- LowFloor
  FirstSource <- OneTree
  DefaultConfig <- Fresh
  BadLocator = {}
  Baselines <- NoBaseline
  Core = {"site", "selector"}
  Mandatory = {"selector"}
  Raises <- RaisesOf
  JsonOut = FALSE
  FactsOut = FALSE
  HasInput = FALSE
  DeclaresBaseline = FALSE
  Overlap = TRUE
  LiveEdits = FALSE
  MaxEdits = 0
  MaxFaults = 0
SYMMETRY Symmetry
PROPERTIES
  FloorNeverLowered
\* Every run may have ended: each Run value is used once.
CHECK_DEADLOCK FALSE
