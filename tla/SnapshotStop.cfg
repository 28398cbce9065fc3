SPECIFICATION SnapFairSpec
CONSTANTS
  c1 = c1
  c2 = c2
  c3 = c3
  c4 = c4
  NoCaller = NoCaller
  Callers <- Worker
  Programs <- WorkerOnly
\* A caller may have been refused.
CHECK_DEADLOCK FALSE
PROPERTIES
  StoppedManagerDrawsNothing
