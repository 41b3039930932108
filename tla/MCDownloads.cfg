SPECIFICATION AnySpec
CONSTANTS
  shipped = shipped
  own = own
  Keys = {shipped, own}
  Shipped = {shipped}
  ShippedRevoked = {}
  OwnKeys = {own}
  MaxEvents = 4
  MaxRelease = 3
  MaxUpsets = 4
  Withdraws = {"program"}
  Sized = TRUE
  HardLuck = FALSE
  Explored = {"registry", "updates"}
INVARIANTS MemoryMatchesDisk ProgramCanStart CurrentIsInstalled
PROPERTY RevocationTakesHold
CHECK_DEADLOCK FALSE
