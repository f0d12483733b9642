SPECIFICATION Spec
CONSTANTS
  Topics = {"a"}
  Times = {1, 2}
  Payloads = {"json", "notjson"}
  Signals = {}
  SignalThreads = {}
  Faults = {}
  FlushLimit = 2
  DbPath = "edge.db"
  SyncDbPath = "edge.db"
  OnePerSecond = TRUE
  MaxMessages = 2
  MaxBoots = 1
INVARIANT FlushedKeyStored
CHECK_DEADLOCK FALSE
