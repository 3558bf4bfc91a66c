\* Boot, serve, submit and stop, with every failure.
CONSTANTS
  Recorders = {g1, g2}
  MaxBalance = 2
  Configured = {0}
  ChainIds = {1, 2}
  MaxInFlight = 1
SPECIFICATION FairSpec
INVARIANTS
  TypeOK
  OrderlyStop
  SameChain
  GaugeFollows
  MutexHeld
PROPERTIES
  GaugeInOrder
  SignalStops
  MutexFreed
\* The process ends.
CHECK_DEADLOCK FALSE
