\* Two concurrent checks of one height, whose block may be reorganised into the
\* next BTC block, where the stake is spread otherwise; by a list of providers
\* that may grow, one of which votes for both versions of the block; and maps
\* that are wiped at every second entry.
CONSTANTS
  f1 = f1
  f2 = f2
  f3 = f3
  Fps = {f1, f2, f3}
  MaxPower = 4
  Checks = {c1, c2}
  MaxHeight = 1
  MaxReorgs = 1
  CacheMapCount = 0
  BtcHeights = {1, 2}
  BtcHeightOf <- NextBtcBlock
  Power <- Shifting
  InitialFps = {f1, f2}
  Byzantine = {f3}
  VotesInOrder = TRUE
SPECIFICATION Spec
SYMMETRY Symmetry
INVARIANTS
  TypeOK
  FinalizedSound
  Agreement
CHECK_DEADLOCK TRUE
