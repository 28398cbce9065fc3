SPECIFICATION SnapFairSpec
CONSTANTS
  c1 = c1
  c2 = c2
  c3 = c3
  c4 = c4
  NoCaller = NoCaller
  Callers <- MCCallers
  Programs <- ServerAndWorker
\* The worker's one caller may have been refused.
CHECK_DEADLOCK FALSE
INVARIANTS
  EachWaiterIsKnown
PROPERTIES
  EveryCallReturns
