----------------------------- MODULE MCSnapshot -----------------------------
(* Model values for the runs of Snapshot. *)
EXTENDS Snapshot

CONSTANTS c1, c2, c3, c4

MCCallers == {c1, c2, c3, c4}
Worker == {c1}
ServerAndWorker == {MCCallers, Worker}
WorkerOnly == {Worker}
=============================================================================
