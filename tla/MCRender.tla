------------------------------ MODULE MCRender ------------------------------
(* Model values and bounds for the runs of Render. *)
EXTENDS RenderProps

CONSTANT worker

MCCallers == {worker}
MCPrograms == {MCCallers}

\* intermediate makes a difference to the pipes only.
AllStores ==
  {s \in Store : s.intermediate => "pipe" \in Range(s.parts)}
PipeStores == {[parts |-> <<"pipe">>, intermediate |-> FALSE]}
=============================================================================
