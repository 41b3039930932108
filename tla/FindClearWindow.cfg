SPECIFICATION FlowSpec
CONSTANTS
  Chunks = {c1}
  ManifestPiece = m
  MaxAttempts = 2
  MaxJobs = 1
  Confirmations = 1
  Windows = {"clear"}
  Mods = {a}
  MaxStarts = 2
INVARIANT InstallsWholeContent
