CONSTANTS
  a1 = a1
  a2 = a2
  a3 = a3
  a4 = a4
  b1 = b1
  ta = ta
  tb = tb
  Swap = {a1, a2, a3, a4, b1}
  Tx = {ta, tb}
  TxOf <- FourAndOne
  GroupWindow = 1
  MaxSwaps = 3
  MaxAge = 2
  NoSwap = NoSwap
SPECIFICATION GrouperFairSpec
INVARIANTS GrouperTypeOK EachSwapOnce BuiltWellFormed GroupHasTimer CleanupRemovesNothing
PROPERTY GroupCloses
