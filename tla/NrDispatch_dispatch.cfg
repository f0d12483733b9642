SPECIFICATION FairSpec
CONSTANTS
  Threads = {"app"}
  Topics = {"a", "b"}
  Filters = {{"a"}, {"a", "b"}, {"b"}}
  Long = {{"b"}}
  Slots = 2
  MaxCalls = 3
  MaxMessages = 2
  MaxDrops = 1
INVARIANTS TypeOK RegistrationsHeld CalledAsRegistered
PROPERTIES NoneMissed CallsReturn
CHECK_DEADLOCK FALSE
