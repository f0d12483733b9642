SPECIFICATION FairSpec
CONSTANTS
  Topics = {"a"}
  Times = {1, 2, 3}
  Payloads = {"json"}
  Signals = {"SIGTERM"}
  SignalThreads = {"main"}
  Faults = {"connect", "broker"}
  FlushLimit = 2
  DbPath = "edge.db"
  SyncDbPath = "edge.db"
  OnePerSecond = TRUE
  MaxMessages = 3
  MaxBoots = 2
INVARIANT CleanExitStored
PROPERTIES EventuallyStored ShutdownCompletes
