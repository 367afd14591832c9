\* Three runs of every command and four releases, one a candidate, under floors
\* below, at and above them, plain and not, with the floor edited between runs.
SPECIFICATION Spec
CONSTANTS
  Run = {r1, r2, r3}
  Invocation <- FloorCalls
  SourceFile = {1}
  SpecFile = {}
  Content = {"a"}
  Gone = Gone
  NoFloor = NoFloor
  NoOne = NoOne
  ConfigText <- AnchoredConfigs
  FirstConfig <- AnyFile
  FirstSource <- OneTree
  DefaultConfig <- Fresh
  BadLocator = {}
  Baselines <- NoBaseline
  Core = {"site", "selector"}
  Mandatory = {"selector"}
  Raises <- RaisesOf
  JsonOut = FALSE
  FactsOut = FALSE
  HasInput = FALSE
  DeclaresBaseline = FALSE
  Overlap = FALSE
  LiveEdits = FALSE
  MaxEdits = 1
  MaxFaults = 0
SYMMETRY Symmetry
INVARIANTS
  RaiseIsPaid
PROPERTIES
  WritesClearTheFloor
  FloorNeverLowered
  KeepsPromise
\* Every run may have ended: each Run value is used once.
CHECK_DEADLOCK FALSE
