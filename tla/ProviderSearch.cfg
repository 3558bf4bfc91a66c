\* One request after another over the caches, one provider with all the stake.
CONSTANTS
  Fps = {f1}
  MaxPower = 1
  Checks = {r1}
  MaxHeight = 4
  FastCheckNumberCount = 2
  HeadLag = 0
  MaxReorgs = 0
  CacheMapCount = 0
  BtcHeights = {1, 2}
  BtcHeightOf <- TwoToOne
  Power <- Even
  InitialFps = {f1}
  Byzantine = {}
  VotesInOrder = TRUE
SPECIFICATION FairSpec
INVARIANTS
  ProviderTypeOK
  DeliveredFinalized
  CacheBound
PROPERTIES
  ImplementsSearch
  ServeAdvances
  RequestsServed
CHECK_DEADLOCK TRUE
