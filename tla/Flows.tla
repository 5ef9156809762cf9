------------------------------- MODULE Flows -------------------------------
(***************************************************************************)
(* How packets are told apart by flow: rush/src/flow.rs Split, one app for *)
(* each direction of the network with the flows of the current spec, and   *)
(* what the traffic profile (module Profile) makes of the same packets:    *)
(* the tuple that Top counts a packet under and the flow that matchFlow    *)
(* puts the tuple down to, in the list that a page (frontend/client/       *)
(* client.js) makes of the same spec.                                      *)
(* Addresses, protocols and ports are numbers; 0 is the wildcard for the   *)
(* first two.                                                              *)
(***************************************************************************)
EXTENDS Naturals, Sequences, SequencesExt

CONSTANTS Scenarios,   \* bound: [lists, traffic, refreshes], the lists of flows to
                       \* configure, the packets to come (a sequence of [dir, p]) and
                       \* how often the profile is looked at
          MaxPort,     \* 65535
          Capacity     \* packets a link holds

TCP == 6
UDP == 17

Flow == [label : STRING, ip : Nat, protocol : Nat,
         port_min : 0..MaxPort, port_max : 0..MaxPort]

Directions == {"ingress", "egress"}
Packet == [ipv4 : BOOLEAN, options : BOOLEAN, src : Nat, dst : Nat, protocol : Nat,
           sport : 0..MaxPort, dport : 0..MaxPort, bits : Nat \ {0}]

ASSUME PortsAssumption == MaxPort \in Nat /\ Capacity \in Nat
ASSUME FlowsAssumption ==
  \A fl \in UNION {s.lists : s \in Scenarios} :
                        /\ fl \in Seq(Flow)
                        /\ \A i, j \in DOMAIN fl : fl[i].label = fl[j].label => i = j
                        /\ \A i \in DOMAIN fl : fl[i].label # "default"
ASSUME TrafficAssumption ==
  \A s \in Scenarios : s.traffic \in Seq([dir : Directions, p : Packet]) /\ s.refreshes \in Nat

VARIABLES flows,      \* the flows both Split apps are configured with
          input,      \* direction -> packets on the link to its Split
          scenario,   \* the scenario at hand
          traffic,    \* the packets still to come
          sorted      \* history: what the Splits did, [dir, p, flows, label]

flowVars == <<flows, input, scenario, traffic, sorted>>

\* The packet that answers p.
Reply(p) == [p EXCEPT !.src = p.dst, !.dst = p.src, !.sport = p.dport, !.dport = p.sport]

\* Mutant: the source address is looked at in both directions.
Addr_Src(p, dir) == p.src
\* Dir::Src for the ingress path, Dir::Dst for the egress path.
Addr(p, dir) == IF dir = "ingress" THEN p.src ELSE p.dst
Port(p, dir) == IF dir = "ingress" THEN p.sport ELSE p.dport

flow_match(p, f, dir) ==
  /\ p.ipv4 /\ ~p.options
  /\ f.ip > 0 => Addr(p, dir) = f.ip
  /\ f.protocol > 0 => p.protocol = f.protocol
  /\ f.protocol \in {TCP, UDP} => Port(p, dir) \in f.port_min..f.port_max

LabelAt(fl, i) == IF i = 0 THEN "default" ELSE fl[i].label

\* Mutant: a later flow that matches overrides an earlier one (no break).
Class_Last(p, fl, dir) == LabelAt(fl, SelectLastInSeq(fl, LAMBDA f : flow_match(p, f, dir)))
\* The output that Split puts p on.
Class(p, fl, dir) == LabelAt(fl, SelectInSeq(fl, LAMBDA f : flow_match(p, f, dir)))

FlowsInit == /\ scenario \in Scenarios
             /\ traffic = scenario.traffic
             /\ flows \in scenario.lists
             /\ input = [dir \in Directions |-> << >>]
             /\ sorted = {}

\* A packet comes in and is transmitted to the link to Split.
Receive ==
  /\ traffic # << >>
  /\ traffic' = Tail(traffic)
  /\ input' = [input EXCEPT ![Head(traffic).dir] =
                 IF Len(@) < Capacity THEN Append(@, Head(traffic).p) ELSE @]
  /\ UNCHANGED <<flows, scenario, sorted>>

\* One round of the loop of push.
Push(dir) ==
  /\ input[dir] # << >>
  /\ LET p == Head(input[dir]) IN
     sorted' = sorted \cup {[dir |-> dir, p |-> p, flows |-> flows,
                             label |-> Class(p, flows, dir)]}
  /\ input' = [input EXCEPT ![dir] = Tail(@)]
  /\ UNCHANGED <<flows, scenario, traffic>>

\* A new spec: both Splits are restarted, the links to them stay.
Reload(fl) == /\ fl # flows
              /\ flows' = fl
              /\ UNCHANGED <<input, scenario, traffic, sorted>>

-----------------------------------------------------------------------------
(* What the traffic profile makes of a packet.                             *)

\* Mutant: the source port is counted in both directions.
flow_count_Src(p, dir) ==
  IF ~p.ipv4 THEN [ip |-> 0, protocol |-> 0, port |-> 0]
  ELSE [ip |-> Addr(p, dir), protocol |-> p.protocol,
        port |-> IF ~p.options /\ p.protocol \in {TCP, UDP} THEN p.sport ELSE 0]
\* The tuple that Top counts p under.
flow_count(p, dir) ==
  IF ~p.ipv4 THEN [ip |-> 0, protocol |-> 0, port |-> 0]
  ELSE [ip |-> Addr(p, dir), protocol |-> p.protocol,
        port |-> IF ~p.options /\ p.protocol \in {TCP, UDP} THEN Port(p, dir) ELSE 0]

\* The flow of a SyntheticFlow: the port_max 0 is taken for none.
SyntheticFlow(label, f) ==
  [label |-> label, ip |-> f.ip, protocol |-> f.protocol, port_min |-> f.port_min,
   port_max |-> IF f.port_max = 0 THEN MaxPort ELSE f.port_max]

\* SyntheticNetwork.update: the page's list, made of the flows of the spec.
ClientFlows(fl) == [i \in DOMAIN fl |-> SyntheticFlow(fl[i].label, fl[i])]

\* Profile._parse and matchFlow: the flow of the page's list that a tuple is put
\* down to.
matchFlow(t, fl) ==
  LET port_max == IF t.port > 0 THEN t.port ELSE MaxPort
  IN LabelAt(fl, SelectInSeq(fl, LAMBDA r : /\ r.ip \in {0, t.ip}
                                            /\ r.protocol \in {0, t.protocol}
                                            /\ r.port_min <= t.port
                                            /\ r.port_max >= port_max))

-----------------------------------------------------------------------------

\* The tuple (address, protocol, portrange) of doc/report3/README.md:8-15, on
\* the far end's address and port; "Any field in the tuple can be a wildcard".
Wildcard(f) == f.port_min = 0 /\ f.port_max = MaxPort
FarEnd(p, dir) == IF dir = "ingress" THEN <<p.src, p.sport>> ELSE <<p.dst, p.dport>>
InTuple(f, p, dir) ==
  /\ f.ip = 0 \/ f.ip = FarEnd(p, dir)[1]
  /\ f.protocol = 0 \/ f.protocol = p.protocol
  /\ \/ Wildcard(f)
     \/ p.protocol \in {TCP, UDP} /\ FarEnd(p, dir)[2] \in f.port_min..f.port_max

\* Every flow with a port range names TCP or UDP; flow_match ignores the ports of
\* one with any protocol.
NamesProtocols(fl) ==
  \A i \in DOMAIN fl : Wildcard(fl[i]) \/ fl[i].protocol \in {TCP, UDP}

\* "The userspace proxy attempts to match a packet each flow in order and
\* chooses the first one that matches" (doc/report3/README.md:49), with the
\* tuples as the same page defines them, and packets that cannot be matched
\* (not IPv4, IP options) on the default flow, as long as flows with ports name
\* their protocol.  One Split looks at the sources and the other at the
\* destinations, so that a packet and its answer are in one flow.
ClassifiedAsDocumented ==
  \A s \in {t \in sorted : NamesProtocols(t.flows)} :
    IF s.label = "default"
    THEN s.p.ipv4 /\ ~s.p.options =>
           \A i \in DOMAIN s.flows : ~InTuple(s.flows[i], s.p, s.dir)
    ELSE \E i \in DOMAIN s.flows :
           /\ s.flows[i].label = s.label
           /\ s.p.ipv4 /\ ~s.p.options
           /\ InTuple(s.flows[i], s.p, s.dir)
           /\ \A j \in 1..(i - 1) : ~InTuple(s.flows[j], s.p, s.dir)

\* The profile tells the truth: the flow that a page with the same spec shows a
\* packet under is the one whose QoS it met, for IPv4 packets without options and
\* flows that name their protocol if they have ports.  Only a flow that ends at
\* port 0 is shown traffic that it does not get: the page has it end at 65535
\* (client.js:208).  (The port 0 of TCP or UDP is left out: to matchFlow it stands
\* for all ports.)
ProfileAgrees ==
  \A s \in {t \in sorted : NamesProtocols(t.flows)} :
    /\ s.p.ipv4 /\ ~s.p.options
    /\ s.p.protocol \in {TCP, UDP} => Port(s.p, s.dir) > 0
    => LET label == matchFlow(flow_count(s.p, s.dir), ClientFlows(s.flows))
       IN \/ label = s.label
          \/ \E i \in DOMAIN s.flows : s.flows[i].label = label /\ s.flows[i].port_max = 0
=============================================================================
