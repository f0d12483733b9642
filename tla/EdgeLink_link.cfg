SPECIFICATION FairSpec
CONSTANTS
  Faults = {"drop", "restart", "refuse", "subscribe", "busy", "signal", "kill"}
  MaxMessages = 5
  MaxFaults = 3
  MaxBoots = 2
INVARIANTS TypeOK BufferedInOrder
PROPERTIES ImplementsFeed DropRecovers
CHECK_DEADLOCK FALSE
