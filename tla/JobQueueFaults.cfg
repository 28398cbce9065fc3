SPECIFICATION Spec
CONSTANTS
  r1 = r1
  r2 = r2
  b1 = b1
  b2 = b2
  JobIDs <- MCRequests
  Cells = {c1}
  Extents <- MCBounds
  Whole = Whole
  Styles = {s1, s2}
  NoRow = NoRow
  NoAnswer = NoAnswer
  Refused = Refused
  Faults <- AllFaults
  MaxPosts = 2
SYMMETRY MCSymmetry
\* Every request may have been answered and every job be done.
CHECK_DEADLOCK FALSE
INVARIANTS
  TypeOK
  ShownJobWasQueued
  RequestedComesFirst
  RecordedInOrder
  AnswerFitsRequest
  RefusedStaysHidden
PROPERTIES
  NeverBackToRequested
  LifecycleSpec
