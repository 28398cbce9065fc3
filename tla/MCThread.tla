------------------------------ MODULE MCThread ------------------------------
(* A thread, two asks from two threads and one work that may be cancelled. *)
EXTENDS ThreadProps, TLC

CONSTANTS m1, m2, w1
MCMessages == {m1, m2}
MCWorks == {w1}
=============================================================================
