---------------------------- MODULE JobLifecycle ----------------------------
(***************************************************************************)
(* What the server promises about a job to those who ask for it by its id, *)
(* whatever fails underneath: a job can be seen only once the queue has    *)
(* taken it, it is first seen as requested, it never stops being seen, and *)
(* from then on it shows what its worker reported and is never requested   *)
(* again.                                                                  *)
(***************************************************************************)
CONSTANTS JobIDs, WorkerStatus

VARIABLES
  queued,  \* the jobs the queue took
  shown    \* the status each job is seen with, "none" while it is not seen

Init ==
  /\ queued = {}
  /\ shown = [j \in JobIDs |-> "none"]

Submit(j) ==
  /\ queued' = queued \cup {j}
  /\ UNCHANGED shown

Publish(j) ==
  /\ j \in queued
  /\ shown[j] = "none"
  /\ shown' = [shown EXCEPT ![j] = "requested"]
  /\ UNCHANGED queued

Report(j) ==
  /\ shown[j] # "none"
  /\ \E s \in WorkerStatus : shown' = [shown EXCEPT ![j] = s]
  /\ UNCHANGED queued

Next == \E j \in JobIDs : Submit(j) \/ Publish(j) \/ Report(j)

Spec == Init /\ [][Next]_<<queued, shown>>
=============================================================================
