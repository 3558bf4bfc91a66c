\* A provider registers after the powers at a BTC height were cached.
CONSTANTS
  f1 = f1
  f2 = f2
  f3 = f3
  Fps = {f1, f2, f3}
  MaxPower = 2
  Checks = {c1}
  MaxHeight = 1
  MaxReorgs = 0
  CacheMapCount = 1
  BtcHeights = {1}
  BtcHeightOf <- OneBtcBlock
  Power <- Heavy
  InitialFps = {f1, f3}
  Byzantine = {}
  VotesInOrder = TRUE
SPECIFICATION Spec
PROPERTIES
  AllProvidersWeighed
CHECK_DEADLOCK TRUE
