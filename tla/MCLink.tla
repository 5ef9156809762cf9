------------------------------- MODULE MCLink -------------------------------
(***************************************************************************)
(* Link on a ring small enough to wrap around several times.               *)
(***************************************************************************)
EXTENDS Link, TLC

Symmetry == Permutations(Packet)
=============================================================================
