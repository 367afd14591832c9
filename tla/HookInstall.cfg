CONSTANTS
  Runs = {first, second}
  Calls <- MCCalls
  Keys = {"model"}
  Commands = {"format", "lint", "test"}
  Saves <- MCSaves
  Scenes <- MCScenes
  MaxEdits = 2
SPECIFICATION Spec
SYMMETRY Symmetry
INVARIANTS
  TypeOK
  HookAtMostOnce
  SavedSettingsSurvive
  SavedFilesSurvive
  GuardedCommitIsCurrent
\* Every run may have ended and the person may be done.
CHECK_DEADLOCK FALSE
