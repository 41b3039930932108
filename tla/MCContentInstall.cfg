SPECIFICATION InstallSpec
CONSTANTS
  Releases <- Mixed
  Catalogued = {6}
  Locked = {2}
  MaxAttempts = 3
  MaxEdits = 1
INVARIANTS
  SavedContentIsWhole
  PlannedSourcesSurvive
  UpdateLeavesTheRelease
PROPERTY LiveFilesChangeWhole
CHECK_DEADLOCK FALSE
