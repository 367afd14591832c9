\* Three runs of two releases, one after another: a run killed or failing on a
\* write at any step, a repair, a check, and one edit anywhere among them.
SPECIFICATION Spec
CONSTANTS
  Run = {r1, r2, r3}
  Invocation <- BuildsAndChecks
  SourceFile = {1}
  SpecFile = {}
  Content = {"a", "b"}
  Gone = Gone
  NoFloor = NoFloor
  NoOne = NoOne
  ConfigText <- FloorConfigs
  FirstConfig <- AnyFloor
  FirstSource <- OneTree
  DefaultConfig <- Fresh
  BadLocator = {}
  Baselines <- NoBaseline
  Core = {"site", "selector"}
  Mandatory = {"selector"}
  Raises <- RaisesOf
  JsonOut = FALSE
  FactsOut = TRUE
  HasInput = TRUE
  DeclaresBaseline = FALSE
  Overlap = FALSE
  LiveEdits = FALSE
  MaxEdits = 1
  MaxFaults = 1
SYMMETRY Symmetry
INVARIANTS
  TypeOK
  FixedPoint
  CheckAcceptsOnlyCurrent
  OneUnitRenderedTwice
  RaiseFollowsCompleteBuild
\* Every run may have ended: each Run value is used once.
CHECK_DEADLOCK FALSE
