SPECIFICATION Spec
CONSTANTS
  Topics = {"a"}
  Times = {1, 2}
  Payloads = {"json", "notjson", "empty"}
  Signals = {"SIGTERM"}
  SignalThreads = {"main", "sync"}
  Faults <- AllFaults
  FlushLimit = 2
  DbPath = "edge.db"
  SyncDbPath = "edge.db"
  OnePerSecond = FALSE
  MaxMessages = 2
  MaxBoots = 2
INVARIANTS TypeOK LossOnlyByRollback DeliveredOnce
CHECK_DEADLOCK FALSE
