SPECIFICATION FairSpec
CONSTANTS
  Chunks = {c1}
  ManifestPiece = m
  MaxAttempts = 2
  MaxJobs = 2
  Confirmations = 1
  Windows = {"route", "clear", "refresh"}
INVARIANTS TypeOK PendingClearHasRemoval LiveTorrentTracked NoLeakedDestinations
PROPERTY PendingClearResolves
