----------------------------- MODULE MCJobQueue -----------------------------
(* Model values and bounds for the runs of JobQueue. *)
EXTENDS JobQueueProps, TLC

CONSTANTS r1, r2, b1, b2

MCRequests == {r1, r2}
MCBounds == {b1, b2}
MCSymmetry == Permutations(MCRequests) \cup Permutations(MCBounds)
AllFaults == FaultKinds
NoFaults == {}
EnqueueFaults == {"enqueue"}
=============================================================================
