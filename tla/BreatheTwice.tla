---------------------------- MODULE BreatheTwice ----------------------------
(***************************************************************************)
(* engine::configure called twice with one configuration: the breathe      *)
(* order is computed from scratch each time, from HashMaps that need not   *)
(* iterate the same way.                                                   *)
(***************************************************************************)
EXTENDS BreatheOrder

VARIABLE first   \* exhale after the first computation, or "none"

NoOrder == <<"none">>
twiceVars == <<orderVars, first>>

TwiceInit == OrderInit /\ first = NoOrder

\* compute_breathe_order is called again: both lists are cleared.
Again == /\ pc = "done" /\ first = NoOrder
         /\ first' = exhale
         /\ pc' = "collect"
         /\ exhale' = << >>
         /\ successors' = Successors
         /\ selected' = {}
         /\ dependents' = << >>
         /\ names' = inhale
         /\ todo' = FirstTodo(inhale, Successors)
         /\ UNCHANGED <<config, inhale>>

TwiceNext == \/ OrderNext /\ UNCHANGED first
             \/ Again

TwiceSpec == TwiceInit /\ [][TwiceNext]_twiceVars /\ WF_twiceVars(TwiceNext)

\* "is deterministic with regard to the configuration": the same configuration
\* gives the same order.
Deterministic == pc = "done" /\ first # NoOrder => exhale = first
=============================================================================
