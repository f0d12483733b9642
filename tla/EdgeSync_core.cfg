SPECIFICATION Spec
CONSTANTS
  Topics = {"a"}
  Times = {1, 2}
  Payloads = {"json"}
  Signals = {"SIGINT", "SIGTERM"}
  SignalThreads = {"main", "sync"}
  Faults <- PostgresSound
  FlushLimit = 2
  DbPath = "edge.db"
  SyncDbPath = "edge.db"
  OnePerSecond = TRUE
  MaxMessages = 2
  MaxBoots = 2
INVARIANTS FlushedStored NoUpsertDeadlock
PROPERTY ImplementsStoreForward
CHECK_DEADLOCK FALSE
