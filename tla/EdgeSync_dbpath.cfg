SPECIFICATION FairSpec
CONSTANTS
  Topics = {"a"}
  Times = {1, 2}
  Payloads = {"json"}
  Signals = {}
  SignalThreads = {}
  Faults = {}
  FlushLimit = 2
  DbPath = "edge.db"
  SyncDbPath = "default.db"
  OnePerSecond = TRUE
  MaxMessages = 2
  MaxBoots = 1
PROPERTY EventuallyStored
CHECK_DEADLOCK FALSE
