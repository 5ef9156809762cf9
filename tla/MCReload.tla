------------------------------ MODULE MCReload ------------------------------
(***************************************************************************)
(* Reload with a short and a long spec, and one that is rejected.          *)
(***************************************************************************)
EXTENDS Reload

MCConf == {"short", "long", "bad"}
MCBadConf == {"bad"}
MCSize == [c \in MCConf |-> IF c = "long" THEN 2 ELSE 1]
=============================================================================
