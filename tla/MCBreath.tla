------------------------------ MODULE MCBreath ------------------------------
(***************************************************************************)
(* Breath in the network                                                   *)
(*                                                                         *)
(*   rx -> loss -> join -> tx,    src -> tee -> join,    tee -> sink       *)
(*                                                                         *)
(* with the order that compute_breathe_order gives it.  The pool grows     *)
(* from 1 to 3 packets, and no further.                                    *)
(***************************************************************************)
EXTENDS Breath

CONSTANTS rxApp, src, tee, loss, sink, join, tx

MCApp == {rxApp, src, tee, loss, sink, join, tx}
MCKind == [a \in MCApp |-> CASE a \in {rxApp, tx} -> "RawSocket" [] a = src -> "Source"
                             [] a = tee -> "Tee" [] a = loss -> "Loss"
                             [] a = sink -> "Sink" [] a = join -> "Join"]
MCLinks == {<<rxApp, "rx->loss", loss>>, <<loss, "loss->join", join>>, <<tee, "tee->join", join>>,
            <<join, "join->tx", tx>>, <<src, "src->tee", tee>>,
            <<tee, "tee->sink", sink>>}
MCLinkName == {x[2] : x \in MCLinks}
MCOut == [a \in MCApp |-> {x[2] : x \in {y \in MCLinks : y[1] = a}}]
MCIn == [a \in MCApp |-> {x[2] : x \in {y \in MCLinks : y[3] = a}}]
MCInhale == <<rxApp, src, tx>>
MCExhale == <<loss, tee, join, sink, tx>>
MCArrivals == [a \in MCApp |-> IF a = rxApp THEN <<1, 2, 3>> ELSE << >>]
=============================================================================
