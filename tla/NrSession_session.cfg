SPECIFICATION FairSpec
CONSTANTS
  Ctxs = {c1, c2}
  None = None
  Faults = {"file", "refuse", "drop", "slow", "thread"}
  MaxConnects = 2
  MaxDrops = 1
INVARIANTS TypeOK KeyFileGone NoFileLeft SuccessIsAcknowledged
PROPERTY DisconnectReturns
CHECK_DEADLOCK FALSE
