------------------------------ MODULE MCClient ------------------------------
(***************************************************************************)
(* A script and a control page that add and remove two flows and set the   *)
(* value of one of them (the default link, a target like it, is only sent  *)
(* and read); sliders have every other value for a step.                   *)
(***************************************************************************)
EXTENDS Page

MCSnap == [v \in Value |-> v - (v % 2)]
=============================================================================
