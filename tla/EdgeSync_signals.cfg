SPECIFICATION FairSpec
CONSTANTS
  Topics = {"a"}
  Times = {1, 2}
  Payloads = {"json"}
  Signals = {"SIGINT", "SIGTERM"}
  SignalThreads = {"main"}
  Faults = {}
  FlushLimit = 2
  DbPath = "edge.db"
  SyncDbPath = "edge.db"
  OnePerSecond = TRUE
  MaxMessages = 1
  MaxBoots = 1
PROPERTY ShutdownCompletes
CHECK_DEADLOCK FALSE
