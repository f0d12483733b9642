SPECIFICATION FairSpec
CONSTANTS
  Faults = {"restart"}
  MaxMessages = 1
  MaxFaults = 1
  MaxBoots = 1
PROPERTY LinkRecovers
CHECK_DEADLOCK FALSE
