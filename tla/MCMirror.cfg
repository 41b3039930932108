SPECIFICATION MirrorSpec
CONSTANTS
  Files <- MCFiles
  ChunksOf <- MCChunksOf
  MaxVersion = 2
  Counterparts <- MCCounterparts
  MaxEvents = 3
  Mods = {1}
  MaxRelease = 2
  Unseeded = {}
INVARIANT LocatedIsHeld
PROPERTIES WaitsEnd MirrorCatchesUp
CHECK_DEADLOCK FALSE
