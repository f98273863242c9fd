CONSTANTS
  a1 = a1
  a2 = a2
  ta = ta
  Swap = {a1, a2}
  Tx = {ta}
  TxOf <- TwoHops
  GroupWindow = 1
  MaxSwaps = 2
  MaxAge = 1
  NoSwap = NoSwap
  Plain = {p1}
  Worker = {w1, w2}
  QueueSize = 1
  MayShutDown = TRUE
SPECIFICATION PipelineFairSpec
INVARIANTS PipelineTypeOK OnePlaceEach
PROPERTY QueuedIsReported
CHECK_DEADLOCK FALSE
