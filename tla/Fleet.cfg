CONSTANTS
  i1 = i1
  i2 = i2
  e1 = e1
  e2 = e2
  ta = ta
  Instance = {i1, i2}
  SwapEvent = {e1, e2}
  Swap <- TwoSwaps
  Tx <- TwoTx
  TxOf <- SameTx
  GroupWindow = 1
  MaxSwaps = 2
  MaxAge = 2
  MaxCrashes = 1
  NoSwap = NoSwap
SPECIFICATION FleetFairSpec
INVARIANTS FleetTypeOK ReportedOnce
PROPERTY ReceivedIsReported
