CONSTANTS
  c1 = c1
  c2 = c2
  i1 = i1
  i2 = i2
  Instance = {i1, i2}
  Caller = {c1, c2}
  InstanceOf <- TwoInstances
  Limit = 2
  Window = 5
  Skew = 1
  Delay = 0
  Distinct = FALSE
  Faults = {"error", "retry"}
  MaxTime = 8
  MaxSent = 3
SPECIFICATION RateSpec
INVARIANTS RateTypeOK CheckedWithinLimit
PROPERTY DeniedOnlyWhenFull
CHECK_DEADLOCK FALSE
