SPECIFICATION StorageSpec
CONSTANTS
  MaxRelease = 2
  MaxTorrents = 3
  MaxReads = 1
  MaxWrites = 1
  DrainGivesUp = TRUE
  MayAbort = TRUE
INVARIANTS LiveIsInstalled ServedIsTrue
PROPERTY BacklogDrains
CHECK_DEADLOCK FALSE
