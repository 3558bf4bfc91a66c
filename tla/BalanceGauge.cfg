\* A query that fails, and the gauge after it.
CONSTANTS
  Recorders = {g1, g2}
  MaxBalance = 3
SPECIFICATION CtlSpec
INVARIANTS
  BalanceGauge
\* Nothing is left to do when the loop has ended and the account has changed
\* MaxBalance times.
CHECK_DEADLOCK FALSE
