SPECIFICATION LibrarySpec
CONSTANTS
  Folders = {1, 2}
  HistoryLimit = 1
  Unreadable = FALSE
  MaxCommands = 5
  MaxFaults = 1
  Names = {default, ladder}
  Default = default
  NoName = noname
  Windows = {}
  MaxPlays = 2
INVARIANTS ShownIsOnDisk OrdersAreKept GameProfilesAreKept
CHECK_DEADLOCK FALSE
