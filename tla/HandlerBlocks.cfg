\* Two names, registered and replaced between blocks and failed ticks.
CONSTANTS
  Processers = {p1, p2}
  MaxHeight = 5
  FirstLatest = {0, 1, 2}
SPECIFICATION FairSpec
INVARIANTS
  TypeOK
  DeliveredOnce
  BelowHead
PROPERTIES
  CatchesUp
\* The handler may be stopped.
CHECK_DEADLOCK FALSE
