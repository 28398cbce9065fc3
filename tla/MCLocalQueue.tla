---------------------------- MODULE MCLocalQueue ----------------------------
(* Three requests, two of them for one sheet, and one or two runners. *)
EXTENDS LocalQueue

CONSTANTS r1, r2, r3, s1, s2, i1, i2, i3
MCSheetOf == [r \in Requests |-> IF r = r3 THEN s2 ELSE s1]
=============================================================================
