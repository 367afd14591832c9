\* Two runs that overlap, strict builds and checks and a forced init among them,
\* with one edit of a source, a spec, the baseline or the configuration at any
\* await, and one kill or failed write.
SPECIFICATION Spec
CONSTANTS
  Run = {r1, r2}
  Invocation <- OverlapCalls
  SourceFile = {1}
  SpecFile = {2}
  Content = {"a", "b", "m"}
  Gone = Gone
  NoFloor = NoFloor
  NoOne = NoOne
  ConfigText <- EditedConfigs
  FirstConfig <- LowFloor
  FirstSource <- OneTree
  DefaultConfig <- Fresh
  BadLocator = {"unit2"}
  Baselines <- SomeBaseline
  Core = {"site", "selector"}
  Mandatory = {"selector"}
  Raises <- RaisesOf
  JsonOut = FALSE
  FactsOut = TRUE
  HasInput = TRUE
  DeclaresBaseline = TRUE
  Overlap = TRUE
  LiveEdits = TRUE
  MaxEdits = 1
  MaxFaults = 1
SYMMETRY Symmetry
INVARIANTS
  CheckAcceptsOnlyCurrent
  RatchetIsExact
\* Every run may have ended: each Run value is used once.
CHECK_DEADLOCK FALSE
