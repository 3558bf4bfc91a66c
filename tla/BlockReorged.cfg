\* A finalized block is reorganised away.
CONSTANTS
  f1 = f1
  f2 = f2
  f3 = f3
  Fps = {f1, f2, f3}
  MaxPower = 2
  Checks = {c1}
  MaxHeight = 1
  MaxReorgs = 1
  CacheMapCount = 1
  BtcHeights = {1}
  BtcHeightOf <- OneBtcBlock
  Power <- Even
  InitialFps = {f1, f2, f3}
  Byzantine = {}
  VotesInOrder = TRUE
SPECIFICATION Spec
PROPERTIES
  ChainBlockFinalized
CHECK_DEADLOCK TRUE
