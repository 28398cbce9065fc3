SPECIFICATION FairSpec
CONSTANTS
  worker = worker
  NoCaller = NoCaller
  Callers <- MCCallers
  Programs <- MCPrograms
  Stores <- AllStores
  MaxTiles = 2
\* The process ends, or waits forever for a jammed pipe.
CHECK_DEADLOCK FALSE
INVARIANTS
  TypeOK
  PostsFollowScripts
  ExitAgreesWithPosts
  CompletedWasRendered
  ShutdownIsHarmless
PROPERTIES
  WorkerEnds
