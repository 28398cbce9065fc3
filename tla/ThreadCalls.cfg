SPECIFICATION Spec
CONSTANTS
  m1 = m1
  m2 = m2
  w1 = w1
  NoTask = NoTask
  Messages = {m1, m2}
  Works = {w1}
INVARIANTS TypeOK PausedProcessesNothing CanceledNeverRuns LoopIsThere
PROPERTIES IsAnActor DestructorReturns PauseReturns AsksAreAnswered
\* The system stops once the thread is gone and every ask has its answer.
CHECK_DEADLOCK FALSE
