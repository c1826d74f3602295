SPECIFICATION LongSpec
CONSTANTS
  MaxId = 4
  MaxTroubles = 2
  Page = 2
  Limits = {1, 3}
  Faults = {"network", "crash"}
  Fetches = {c1, c2}
  MaxFile = 2
  Quota = 3
  Sizes = {1, 2, 3}
  MaxMishaps = 1
  None = None
  HardDenied = {"service"}
  WatchConfig <- MCWatchConfig
  Peers <- MCPeers
  Calls <- MCCalls
  QueueSize = 2
  MaxTime = 4
  MaxArrivals = 3
  Parts = {"archive", "media", "watch"}
INVARIANTS
  TypeOK
  NoHole
  NoOrphans
  NothingLeftBehind
  BurstIsWhole
PROPERTIES
  CatchesUp
CHECK_DEADLOCK FALSE
