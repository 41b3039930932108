SPECIFICATION FairFlowSpec
CONSTANTS
  Chunks = {c1}
  ManifestPiece = m
  MaxAttempts = 2
  MaxJobs = 1
  Confirmations = 0
  Windows = {"route","clear","refresh"}
  Mods = {a}
  MaxStarts = 2
PROPERTIES CancelReturns AttemptsMoveOn
