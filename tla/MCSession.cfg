SPECIFICATION AnySpec
CONSTANTS
  Explored = {"program", "seeding", "swarm", "throttle"}
  here = here
  there = there
  none = none
  Roots = {here, there}
  NoRoot = none
  MaxStarts = 2
  Judged = {"install", "updater", "patcher", "baseline", "updates"}
  Mods = {a}
  MaxVersion = 2
  MaxWrites = 3
  MaxRestarts = 1
  MaxToggles = 1
  Overlap = FALSE
  peer = peer
  other = other
  own = own
  port = port
  mod = mod
  mod2 = mod2
  Endpoints = {peer, other}
  Ports = {own, port}
  OwnPort = own
  Releases = {mod, mod2}
  Budgets = {0, 1, 5}
  Reserve = 2
  LeastRate = 1
  MaxNoted = 1
  MaxChanges = 5
  Races = FALSE
  alice = alice
  bob = bob
  carol = carol
  Peers = {alice, bob, carol}
  MaxTracked = 2
  Burst = 2
  RefillInterval = 1
  FirstBlock = 2
  Multiplier = 2
  MaxBlock = 4
  Threshold = 2
  CleanInterval = 1
  MaxTime = 3
  Crowded = FALSE
INVARIANTS SeedsAreServed SeedIsOfRecord MismatchIsWithdrawn
INVARIANT UsedIsAlive
INVARIANTS PeersAreDialled CeilingsFollowTheBudget
INVARIANT BlockIsServed
