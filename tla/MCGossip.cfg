SPECIFICATION FairGossipSpec
CONSTANTS
  p = p
  q = q
  Nodes = {p, q}
  Publisher = p
  Links <- Pair
  Mods = {1}
  MaxEntries = 1
  MaxWants = 1
  MaxRetained = 1
  Burst = 1
  Threshold = 2
  SavesTear = FALSE
  MaxReleases = 2
  MaxQueue = 2
  MaxEvents = 2
INVARIANTS GossipTypeOK AgreeOnVersion
PROPERTY ReleasesSpread
