CONSTANTS
  Instance = {i1, i2}
  Slot = {s1}
  Event = {e1, e2}
  LockTTL = 1
  ProcessedTTL = 2
  HoldBound = 3
  Faults = {}
  NoInstance = NoInstance
  NoEvent = NoEvent
SPECIFICATION FairSpec
PROPERTY TakenIsProcessed
