SPECIFICATION Spec
CONSTANTS
  r1 = r1
  r2 = r2
  b1 = b1
  b2 = b2
  JobIDs <- MCRequests
  Cells = {c1}
  Extents = {b1}
  Whole = Whole
  Styles = {s1}
  NoRow = NoRow
  NoAnswer = NoAnswer
  Refused = Refused
  Faults <- NoFaults
  MaxPosts = 4
\* Every request may have been answered and every job be done.
CHECK_DEADLOCK FALSE
INVARIANT SameJobQueuedOnce
