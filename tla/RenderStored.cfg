SPECIFICATION Spec
CONSTANTS
  worker = worker
  NoCaller = NoCaller
  Callers <- MCCallers
  Programs <- MCPrograms
  Stores <- PipeStores
  MaxTiles = 2
\* The process ends, or waits forever for a jammed pipe.
CHECK_DEADLOCK FALSE
INVARIANT CompletedIsStored
