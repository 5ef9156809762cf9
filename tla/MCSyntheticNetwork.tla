------------------------- MODULE MCSyntheticNetwork -------------------------
(***************************************************************************)
(* SyntheticNetwork with up to three flows, labels that are refused among  *)
(* them, and QoS values in and out of range.                               *)
(***************************************************************************)
EXTENDS SyntheticNetwork

Q(r, l, s) == [rate |-> r, loss |-> l, latency |-> r, jitter |-> r,
               jitter_strength |-> s, reorder_packets |-> r = 1]
Q1 == Q(1, 0, 120)
Q2 == Q(2, 250, 50)
Links == [ingress : {Q1, Q2}, egress : {Q1, Q2}]
Plain == [ingress |-> Q1, egress |-> Q2]

Flow(l, f, k) == [label |-> l, flow |-> f, link |-> k]

\* A few flows, to reload from one set of them to another ...
Some == {Flow("a", 1, Plain), Flow("a", 2, Plain), Flow("b", 1, Plain),
         Flow("a", 1, [Plain EXCEPT !.egress = Q1]),
         Flow("a", 1, [Plain EXCEPT !.ingress.rate = 3])}
Valid == [default_link : Links, flows : {<< >>}]
         \cup [default_link : {Plain}, flows : {<<f>> : f \in Some}]
         \cup [default_link : {Plain}, flows : {<<Flow("b", 1, Plain), f>> : f \in Some}]
\* ... and lists with labels that are refused.
Refused == [default_link : {Plain},
            flows : {<<Flow("default", 1, Plain)>>, <<Flow("a-b", 1, Plain)>>,
                     <<Flow("a", 1, Plain), Flow("b", 1, Plain),
                       Flow("a", 2, [Plain EXCEPT !.egress = Q1])>>}]
MCSpecs == Valid \cup Refused
MCMalformed == {"a-b"}
=============================================================================
