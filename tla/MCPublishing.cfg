SPECIFICATION AnySpec
CONSTANTS
  a = a
  b = b
  NoKey = NoKey
  Keys = {a, b}
  MaxVersion = 2
  MaxEvents = 6
  LosesTails = FALSE
  Gear <- MCGear
  Width = 6
  Minimum = 2
  AverageBits = 2
  Maximum = 7
  ExtraBits = 1
  BlockBytes = 1
  PieceBytes = 4
  ChunkCount = 5
  ChunkLength = 7
  FileBytes = 14
  MinPackage = 2
  MaxPackage = 5
  EnvelopeBytes = 4
  Names <- MCNames
  Contents <- MCContents
  Says <- MCSays
  Approved <- MCApproved
  Publisher = author
  ModName = mod
  Arts <- MCArts
  MaxFiles = 2
  MaxEdits = 1
  Registries <- MCRegistries
  Signers = {author, other}
  MaxAnnounced = 2
  MaxTears = 1
  author = author
  other = other
  mod = mod
  Explored = {"document", "record"}
INVARIANTS TorrentIsTheManifests UsedIsAnnounced
INVARIANTS AnnouncedIsStored CatalogueIsAuthentic
CHECK_DEADLOCK FALSE
