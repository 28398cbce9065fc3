SPECIFICATION Spec
CONSTANTS
  r1 = r1
  r2 = r2
  r3 = r3
  s1 = s1
  s2 = s2
  i1 = i1
  i2 = i2
  i3 = i3
  Nobody = Nobody
  Requests = {r1, r2, r3}
  Sheets = {s1, s2}
  SheetOf <- MCSheetOf
  MaxRunners = 2
  Infos = {i1, i2, i3}
INVARIANTS TypeOK RunsWhatWasSent PostsNameTheirJob
PROPERTIES EnqueueReturns EveryJobEnds
\* The system rests when every job was run, and stops when the process died.
CHECK_DEADLOCK FALSE
