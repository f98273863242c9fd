CONSTANTS
  i1 = i1  i2 = i2  s1 = s1  s2 = s2
  Instance <- MCInstance
  Slot <- MCSlot
  Event = {e1}
  LockTTL = 2
  ProcessedTTL = 3
  HoldBound = 2
  Faults = {"redis", "stop", "crash"}
  NoInstance = NoInstance
  NoEvent = NoEvent
SYMMETRY Renamings
SPECIFICATION Spec
INVARIANTS TypeOK 
  
