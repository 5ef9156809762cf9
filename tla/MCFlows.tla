------------------------------ MODULE MCFlows ------------------------------
(***************************************************************************)
(* Two hosts (1, 2) talking to the container (9) over TCP, UDP and ICMP    *)
(* (1) with ports 1 and 3 of 0..3, and lists of overlapping flows.         *)
(***************************************************************************)
EXTENDS FlowText

F(label, ip, protocol, port_min, port_max) ==
  [label |-> label, ip |-> ip, protocol |-> protocol,
   port_min |-> port_min, port_max |-> port_max]

\* The last list has a port and any protocol.
FlowLists ==
  {<< >>,
   <<F("web", 0, TCP, 1, 1), F("host", 1, 0, 0, 3), F("tcp", 0, TCP, 0, 3)>>,
   <<F("host", 1, 0, 0, 3), F("odd", 0, UDP, 3, 1), F("high", 0, UDP, 2, 3), F("zero", 0, UDP, 0, 0)>>,
   <<F("all", 0, 0, 0, 3), F("host", 2, TCP, 0, 2)>>,
   <<F("any", 1, 0, 1, 1), F("tcp", 0, TCP, 0, 3)>>}

Ipv4(src, protocol, sport, options) ==
  [ipv4 |-> TRUE, options |-> options, src |-> src, dst |-> 9,
   protocol |-> protocol, sport |-> sport, dport |-> 2, bits |-> sport + 1]
Arp == [Ipv4(1, TCP, 1, FALSE) EXCEPT !.ipv4 = FALSE]

\* Packets that have ports ...
PortPackets ==
  {Ipv4(src, protocol, sport, FALSE) :
     src \in {1, 2}, protocol \in {TCP, UDP}, sport \in {1, 3}}

\* ... and ICMP, the address and the port 0, one with IP options and one that is
\* not IPv4.
Packets == PortPackets \cup {Ipv4(1, 1, 0, FALSE), Ipv4(0, UDP, 3, FALSE), Ipv4(2, UDP, 0, FALSE),
                            Ipv4(1, TCP, 1, TRUE), Arp}

\* A packet and its answer, while the flows change.
In(p) == [dir |-> "ingress", p |-> p]
Out(p) == [dir |-> "egress", p |-> Reply(p)]
Exchanges == [lists : {FlowLists}, traffic : {<<In(p), Out(p)>> : p \in Packets},
              refreshes : {0}]

\* Longer streams of packets: of a flow that has a slot to itself, of two that
\* share one, and among packets that are not IPv4.
A == In(Ipv4(1, TCP, 1, FALSE))
B == In(Ipv4(1, UDP, 3, FALSE))
Streams == [lists : {{<< >>}}, refreshes : {2},
            traffic : {<<A, A, A>>, <<A, B, A>>, <<In(Arp), A, A>>}]

MCScenarios == Exchanges \cup Streams
MCflow_slot(t) == t.ip % 2
=============================================================================
