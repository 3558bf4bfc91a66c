\* Two concurrent requests over the caches and the shared height, in a chain
\* long enough for every probe of the search.
CONSTANTS
  Fps = {f1}
  MaxPower = 1
  Checks = {r1, r2}
  MaxHeight = 3
  FastCheckNumberCount = 1
  HeadLag = 0
  MaxReorgs = 0
  CacheMapCount = 0
  BtcHeights = {1, 2}
  BtcHeightOf <- TwoToOne
  Power <- Even
  InitialFps = {f1}
  Byzantine = {}
  VotesInOrder = TRUE
SPECIFICATION ProviderSpec
SYMMETRY Symmetry
VIEW WithoutHistory
INVARIANTS
  ConcurrentSound
CHECK_DEADLOCK TRUE
