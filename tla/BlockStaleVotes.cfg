\* The votes on a block arrive after it was first checked.
CONSTANTS
  f1 = f1
  f2 = f2
  f3 = f3
  Fps = {f1, f2, f3}
  MaxPower = 2
  Checks = {c1}
  MaxHeight = 1
  MaxReorgs = 0
  CacheMapCount = 1
  BtcHeights = {1}
  BtcHeightOf <- OneBtcBlock
  Power <- Even
  InitialFps = {f1, f2, f3}
  Byzantine = {}
  VotesInOrder = TRUE
SPECIFICATION Spec
PROPERTIES
  NoMeansNotFinal
CHECK_DEADLOCK TRUE
