------------------------------ MODULE Progress ------------------------------
(***************************************************************************)
(* The statuses a run of generatePDF posts, from the first to the last. A  *)
(* run of Processing counts as one post here, and so do the Failed posts   *)
(* after the second. Render shows that the worker follows these scripts,   *)
(* JobQueue takes them for granted.                                        *)
(***************************************************************************)
EXTENDS Naturals, Sequences

\* generatePDF posts the end of a run after the GeneratePDF it calls has done
\* so, except that GeneratePDF says nothing when the store wants no PDF.
Scripts ==
  {<<"started", "failed", "failed">>,
   <<"started", "processing", "failed", "failed">>,
   <<"started", "processing", "completed", "completed">>,
   <<"started", "processing", "completed">>}

\* sent is the beginning of script.
Begins(sent, script) ==
  Len(sent) <= Len(script) /\ sent = SubSeq(script, 1, Len(sent))
=============================================================================
