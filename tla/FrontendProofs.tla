--------------------------- MODULE FrontendProofs ---------------------------
(***************************************************************************)
(* What the user is shown and does, for every list of flows, every traffic *)
(* and every interleaving: packets are put into the flows that the         *)
(* documentation says, the traffic profile names the flow whose QoS a      *)
(* packet met and shows no traffic that was not there, and the text of a   *)
(* flow means that flow (modules Flows, Profile and FlowText).  Then, of   *)
(* the clients that edit the spec (modules Client and Page): their two     *)
(* views of the flows agree, and no edit is lost but by a race.            *)
(***************************************************************************)
EXTENDS Page, FlowText, WellFoundedInduction, TLAPS

-----------------------------------------------------------------------------
(* The first element of a list.                                            *)

LEMMA LeastExists ==
  ASSUME NEW I, I \subseteq Nat, I # {}
  PROVE  Min(I) \in I /\ \A i \in I : Min(I) <= i
<1>1. PICK x \in I : \A y \in I : ~(<<y, x>> \in OpToRel(<, Nat))
  BY NatLessThanWellFounded, WFMin, Zenon
<1>2. \A y \in I : x <= y
  <2> SUFFICES ASSUME NEW y \in I, y < x PROVE FALSE
    BY SMT
  <2> <<y, x>> \in OpToRel(<, Nat)
    BY Zenon DEF OpToRel
  <2> QED BY <1>1
<1>3. \E z \in I : \A y \in I : z =< y
  BY <1>2
<1> QED BY <1>3, Zenon DEF Min

\* Where an element of a list is that passes a test.
LEMMA FirstInSeq ==
  ASSUME NEW n \in Nat, NEW I, I \subseteq 1..n,
         NEW k, k = (IF I # {} THEN Min(I) ELSE 0)
  PROVE  \/ k = 0 /\ I = {}
         \/ k \in I /\ k # 0 /\ \A j \in 1..(k - 1) : j \notin I
<1>1. CASE I = {}
  BY <1>1
<1>2. CASE I # {}
  <2>1. I \subseteq Nat
    BY SMT
  <2>2. k \in I /\ \A i \in I : k <= i
    BY <1>2, <2>1, LeastExists
  <2> QED BY <2>2, SMT
<1> QED BY <1>1, <1>2

-----------------------------------------------------------------------------
(* Split and matchFlow.                                                    *)

LEMMA ClassIsFirst ==
  ASSUME NEW p, NEW fl \in Seq(Flow), NEW dir
  PROVE  \/ /\ Class(p, fl, dir) = "default"
            /\ \A i \in DOMAIN fl : ~flow_match(p, fl[i], dir)
         \/ \E i \in DOMAIN fl :
              /\ Class(p, fl, dir) = fl[i].label
              /\ flow_match(p, fl[i], dir)
              /\ \A j \in 1..(i - 1) : ~flow_match(p, fl[j], dir)
<1> DEFINE I == {i \in 1..Len(fl) : flow_match(p, fl[i], dir)}
           k == IF I # {} THEN Min(I) ELSE 0
<1>1. Class(p, fl, dir) = LabelAt(fl, k)
  BY DEF Class, SelectInSeq
<1>2. Len(fl) \in Nat /\ DOMAIN fl = 1..Len(fl)
  BY SMT
<1>3. \/ k = 0 /\ I = {}
      \/ k \in I /\ k # 0 /\ \A j \in 1..(k - 1) : j \notin I
  <2> I \subseteq 1..Len(fl)
    OBVIOUS
  <2> HIDE DEF I
  <2> QED BY <1>2, FirstInSeq
<1>4. CASE k = 0 /\ I = {}
  BY <1>1, <1>2, <1>4 DEF LabelAt
<1>5. CASE k \in I /\ k # 0 /\ \A j \in 1..(k - 1) : j \notin I
  <2>1. k \in DOMAIN fl /\ flow_match(p, fl[k], dir)
    BY <1>2, <1>5
  <2>2. \A j \in 1..(k - 1) : j \in 1..Len(fl)
    BY <1>2, <2>1, SMT
  <2>3. \A j \in 1..(k - 1) : ~flow_match(p, fl[j], dir)
    BY <1>5, <2>2
  <2>4. Class(p, fl, dir) = fl[k].label
    BY <1>1, <1>5 DEF LabelAt
  <2> HIDE DEF k
  <2> QED BY <2>1, <2>3, <2>4
<1> QED BY <1>3, <1>4, <1>5

\* Whether matchFlow puts the tuple t into the flow r.
Fits(t, r) == /\ r.ip \in {0, t.ip}
              /\ r.protocol \in {0, t.protocol}
              /\ r.port_min <= t.port
              /\ r.port_max >= (IF t.port > 0 THEN t.port ELSE MaxPort)

LEMMA MatchIsFirst ==
  ASSUME NEW t, NEW fl \in Seq(Flow)
  PROVE  \/ /\ matchFlow(t, fl) = "default"
            /\ \A i \in DOMAIN fl : ~Fits(t, fl[i])
         \/ \E i \in DOMAIN fl :
              /\ matchFlow(t, fl) = fl[i].label
              /\ Fits(t, fl[i])
              /\ \A j \in 1..(i - 1) : ~Fits(t, fl[j])
<1> DEFINE I == {i \in 1..Len(fl) : Fits(t, fl[i])}
           k == IF I # {} THEN Min(I) ELSE 0
<1>1. matchFlow(t, fl) = LabelAt(fl, k)
  BY DEF matchFlow, SelectInSeq, Fits
<1>2. Len(fl) \in Nat /\ DOMAIN fl = 1..Len(fl)
  BY SMT
<1>3. \/ k = 0 /\ I = {}
      \/ k \in I /\ k # 0 /\ \A j \in 1..(k - 1) : j \notin I
  <2> I \subseteq 1..Len(fl)
    OBVIOUS
  <2> HIDE DEF I
  <2> QED BY <1>2, FirstInSeq
<1>4. CASE k = 0 /\ I = {}
  BY <1>1, <1>2, <1>4 DEF LabelAt
<1>5. CASE k \in I /\ k # 0 /\ \A j \in 1..(k - 1) : j \notin I
  <2>1. k \in DOMAIN fl /\ Fits(t, fl[k])
    BY <1>2, <1>5
  <2>2. \A j \in 1..(k - 1) : j \in 1..Len(fl)
    BY <1>2, <2>1, SMT
  <2>3. \A j \in 1..(k - 1) : ~Fits(t, fl[j])
    BY <1>5, <2>2
  <2>4. matchFlow(t, fl) = fl[k].label
    BY <1>1, <1>5 DEF LabelAt
  <2> HIDE DEF k
  <2> QED BY <2>1, <2>3, <2>4
<1> QED BY <1>3, <1>4, <1>5

\* For flows that name their protocol and packets that can be matched, the code's
\* test is the documentation's.
LEMMA MatchAsDocumented ==
  ASSUME NEW p \in Packet, NEW f \in Flow, NEW dir \in Directions,
         p.ipv4, ~p.options, Wildcard(f) \/ f.protocol \in {TCP, UDP}
  PROVE  flow_match(p, f, dir) <=> InTuple(f, p, dir)
<1>1. Addr(p, dir) = FarEnd(p, dir)[1] /\ Port(p, dir) = FarEnd(p, dir)[2]
  BY DEF Addr, Port, FarEnd, Directions
<1>2. Port(p, dir) \in 0..MaxPort /\ Addr(p, dir) \in Nat
  BY DEF Addr, Port, Packet
<1>3. f.ip \in Nat /\ f.protocol \in Nat /\ f.port_min \in Nat /\ f.port_max \in Nat /\ p.protocol \in Nat
  BY PortsAssumption DEF Flow, Packet
<1> QED BY <1>1, <1>2, <1>3, PortsAssumption DEF flow_match, InTuple, Wildcard, TCP, UDP

\* ... and so is that of the client, on the tuple that Top counts.
LEMMA FitsAsMatched ==
  ASSUME NEW p \in Packet, NEW f \in Flow, NEW dir \in Directions,
         p.ipv4, ~p.options, Wildcard(f) \/ f.protocol \in {TCP, UDP},
         p.protocol \in {TCP, UDP} => Port(p, dir) > 0
  PROVE  Fits(flow_count(p, dir), f) <=> flow_match(p, f, dir)
<1> DEFINE t == flow_count(p, dir)
<1>1. /\ t.ip = Addr(p, dir) /\ t.protocol = p.protocol
      /\ t.port = (IF p.protocol \in {TCP, UDP} THEN Port(p, dir) ELSE 0)
  BY DEF flow_count
<1>2. Port(p, dir) \in 0..MaxPort /\ Addr(p, dir) \in Nat
  BY DEF Addr, Port, Packet
<1>3. f.ip \in Nat /\ f.protocol \in Nat /\ f.port_min \in Nat /\ f.port_max \in Nat /\ p.protocol \in Nat
      /\ f.port_max <= MaxPort
  BY PortsAssumption DEF Flow, Packet
<1> HIDE DEF t
<1> SUFFICES Fits(t, f) <=> flow_match(p, f, dir)
  BY DEF t
<1>4. CASE p.protocol \in {TCP, UDP}
  BY <1>1, <1>2, <1>3, <1>4, PortsAssumption DEF flow_match, Wildcard, Fits, TCP, UDP
<1>5. CASE p.protocol \notin {TCP, UDP}
  BY <1>1, <1>2, <1>3, <1>5, PortsAssumption DEF flow_match, Wildcard, Fits, TCP, UDP
<1> QED BY <1>4, <1>5

\* The page's list has the flows of the spec in their places; one that does not end
\* at port 0 is as it was.
LEMMA ClientList ==
  ASSUME NEW fl \in Seq(Flow), NEW c, c = ClientFlows(fl)
  PROVE  /\ c \in Seq(Flow) /\ DOMAIN c = DOMAIN fl
         /\ \A i \in DOMAIN fl : c[i] = SyntheticFlow(fl[i].label, fl[i])
<1>1. Len(fl) \in Nat /\ DOMAIN fl = 1..Len(fl) /\ \A i \in DOMAIN fl : fl[i] \in Flow
  OBVIOUS
<1>2. DOMAIN c = DOMAIN fl /\ \A i \in DOMAIN fl : c[i] = SyntheticFlow(fl[i].label, fl[i])
  BY DEF ClientFlows
<1>3. \A f \in Flow : SyntheticFlow(f.label, f) \in Flow
  BY PortsAssumption DEF SyntheticFlow, Flow
<1>4. c \in [1..Len(fl) -> Flow]
  BY <1>1, <1>2, <1>3 DEF ClientFlows
<1> QED BY <1>1, <1>2, <1>4

\* A flow takes at least as many packets on the page as it gets, and no others
\* unless it ends at port 0.
LEMMA ShownAsMatched ==
  ASSUME NEW p \in Packet, NEW f \in Flow, NEW dir \in Directions,
         p.ipv4, ~p.options, Wildcard(f) \/ f.protocol \in {TCP, UDP},
         p.protocol \in {TCP, UDP} => Port(p, dir) > 0,
         NEW t, t = flow_count(p, dir), NEW g, g = SyntheticFlow(f.label, f)
  PROVE  /\ flow_match(p, f, dir) => Fits(t, g)
         /\ Fits(t, g) => flow_match(p, f, dir) \/ f.port_max = 0
<1>1. /\ g.ip = f.ip /\ g.protocol = f.protocol /\ g.port_min = f.port_min
      /\ g.port_max = (IF f.port_max = 0 THEN MaxPort ELSE f.port_max)
  BY DEF SyntheticFlow
<1>2. Fits(t, f) <=> flow_match(p, f, dir)
  BY FitsAsMatched
<1>3. f.port_max # 0 => (Fits(t, g) <=> Fits(t, f))
  BY <1>1 DEF Fits
<1>4. ASSUME f.port_max = 0, Fits(t, f) PROVE Fits(t, g)
  <2>1. t.port \in 0..MaxPort
    BY PortsAssumption DEF flow_count, Port, Packet
  <2> QED BY <1>1, <1>4, <2>1, PortsAssumption DEF Fits
<1> QED BY <1>2, <1>3, <1>4

-----------------------------------------------------------------------------
(* What the Splits did.                                                    *)

AllLists == UNION {s.lists : s \in Scenarios}
Sent == {scenario.traffic[i] : i \in DOMAIN scenario.traffic}
SentPackets == {q.p : q \in Sent}

FlowsInv ==
  /\ scenario \in Scenarios /\ flows \in scenario.lists
  /\ traffic \in Seq(Sent)
  /\ input \in [Directions -> Seq(SentPackets)]
  /\ \A s \in sorted : /\ s.dir \in Directions /\ s.p \in Packet /\ s.flows \in AllLists
                       /\ s.label = Class(s.p, s.flows, s.dir)

LEMMA SentTypes ==
  ASSUME scenario \in Scenarios
  PROVE  /\ Sent \subseteq [dir : Directions, p : Packet]
         /\ SentPackets \subseteq Packet
         /\ scenario.traffic \in Seq(Sent)
<1>1. scenario.traffic \in Seq([dir : Directions, p : Packet])
  BY TrafficAssumption
<1>2. Sent \subseteq [dir : Directions, p : Packet]
  <2> DEFINE s == scenario.traffic
             P == [dir : Directions, p : Packet]
  <2>1. s \in Seq(P)
    BY <1>1
  <2> HIDE DEF s, P
  <2>2. \A i \in DOMAIN s : s[i] \in P
    BY <2>1
  <2> QED BY <2>2, Zenon DEF Sent, s, P
<1>3. SentPackets \subseteq Packet
  BY <1>2 DEF SentPackets
<1>4. scenario.traffic \in Seq(Sent)
  <2> DEFINE s == scenario.traffic
  <2>1. s \in [1..Len(s) -> Sent] /\ Len(s) \in Nat
    BY <1>1 DEF Sent
  <2> HIDE DEF s
  <2>2. s \in Seq(Sent)
    BY <2>1
  <2> QED BY <2>2 DEF s
<1> QED BY <1>2, <1>3, <1>4

LEMMA FlowsInvStep == FlowsInv /\ ProfileNext => FlowsInv'
<1> SUFFICES ASSUME FlowsInv, ProfileNext PROVE FlowsInv'
  OBVIOUS
<1>1. CASE Receive
  <2> DEFINE h == Head(traffic)
  <2>1. h \in Sent /\ traffic' \in Seq(Sent) /\ traffic' = Tail(traffic)
    BY <1>1 DEF Receive, FlowsInv
  <2>2. h.dir \in Directions /\ h.p \in SentPackets
    BY <2>1, SentTypes DEF FlowsInv, SentPackets
  <2> HIDE DEF h
  <2>3. input' = [input EXCEPT ![h.dir] = IF Len(@) < Capacity THEN Append(@, h.p) ELSE @]
    BY <1>1 DEF Receive, h
  <2>4. input' \in [Directions -> Seq(SentPackets)]
    BY <2>2, <2>3 DEF FlowsInv
  <2>5. Sent' = Sent /\ SentPackets' = SentPackets
    BY <1>1 DEF Receive, Sent, SentPackets
  <2> QED BY <1>1, <2>1, <2>4, <2>5 DEF Receive, FlowsInv
<1>2. ASSUME NEW dir \in Directions, Push(dir) PROVE FlowsInv'
  <2> DEFINE q == Head(input[dir])
  <2>1. q \in SentPackets /\ input' = [input EXCEPT ![dir] = Tail(@)] /\ input' \in [Directions -> Seq(SentPackets)]
    BY <1>2 DEF Push, FlowsInv
  <2>2. q \in Packet
    BY <2>1, SentTypes DEF FlowsInv
  <2>3. sorted' = sorted \cup {[dir |-> dir, p |-> q, flows |-> flows, label |-> Class(q, flows, dir)]}
    BY <1>2 DEF Push
  <2> HIDE DEF q
  <2>4. flows \in AllLists
    BY DEF FlowsInv, AllLists
  <2>5. \A s \in sorted' : s.dir \in Directions /\ s.p \in Packet /\ s.flows \in AllLists
                           /\ s.label = Class(s.p, s.flows, s.dir)
    BY <2>2, <2>3, <2>4 DEF FlowsInv
  <2>6. Sent' = Sent /\ SentPackets' = SentPackets
    BY <1>2 DEF Push, Sent, SentPackets
  <2> QED BY <1>2, <2>1, <2>5, <2>6 DEF Push, FlowsInv
<1>3. ASSUME NEW fl \in scenario.lists, Reload(fl) PROVE FlowsInv'
  BY <1>3 DEF Reload, FlowsInv, Sent, SentPackets
<1>4. CASE UNCHANGED flowVars
  BY <1>4 DEF flowVars, FlowsInv, Sent, SentPackets
<1> QED BY <1>1, <1>2, <1>3, <1>4 DEF ProfileNext, FlowsStep, SplitPush

LEMMA FlowsInvariant == ProfileSpec => []FlowsInv
<1>1. ProfileInit => FlowsInv
  <2> SUFFICES ASSUME ProfileInit PROVE FlowsInv
    OBVIOUS
  <2>1. traffic \in Seq(Sent)
    BY SentTypes DEF ProfileInit, FlowsInit
  <2> QED BY <2>1 DEF ProfileInit, FlowsInit, FlowsInv
<1>2. FlowsInv /\ [ProfileNext]_profileVars => FlowsInv'
  <2>1. FlowsInv /\ UNCHANGED profileVars => FlowsInv'
    BY DEF profileVars, flowVars, FlowsInv, Sent, SentPackets
  <2> QED BY <2>1, FlowsInvStep
<1> QED BY <1>1, <1>2, PTL DEF ProfileSpec

\* What the lists of a scenario are.
LEMMA ListTypes ==
  ASSUME NEW fl \in AllLists
  PROVE  /\ fl \in Seq(Flow)
         /\ \A i, j \in DOMAIN fl : fl[i].label = fl[j].label => i = j
         /\ \A i \in DOMAIN fl : fl[i].label # "default"
BY FlowsAssumption DEF AllLists

\* Split puts a packet on the first flow that the documentation says it is in,
\* and on the default output if there is none (flow.rs: push, flow_match).
THEOREM PacketsClassifiedAsDocumented == ProfileSpec => []ClassifiedAsDocumented
<1>1. FlowsInv => ClassifiedAsDocumented
  <2> SUFFICES ASSUME FlowsInv, NEW s \in sorted, NamesProtocols(s.flows)
               PROVE  IF s.label = "default"
                      THEN s.p.ipv4 /\ ~s.p.options =>
                             \A i \in DOMAIN s.flows : ~InTuple(s.flows[i], s.p, s.dir)
                      ELSE \E i \in DOMAIN s.flows :
                             /\ s.flows[i].label = s.label
                             /\ s.p.ipv4 /\ ~s.p.options
                             /\ InTuple(s.flows[i], s.p, s.dir)
                             /\ \A j \in 1..(i - 1) : ~InTuple(s.flows[j], s.p, s.dir)
    BY DEF ClassifiedAsDocumented
  <2> DEFINE fl == s.flows
             p == s.p
             dir == s.dir
  <2>1. dir \in Directions /\ p \in Packet /\ fl \in AllLists /\ s.label = Class(p, fl, dir)
    BY DEF FlowsInv
  <2>2. fl \in Seq(Flow) /\ \A i \in DOMAIN fl : fl[i] \in Flow /\ fl[i].label # "default"
    BY <2>1, ListTypes
  <2>3. \A i \in DOMAIN fl : Wildcard(fl[i]) \/ fl[i].protocol \in {TCP, UDP}
    BY DEF NamesProtocols
  <2> HIDE DEF fl, p, dir
  <2>4. p.ipv4 /\ ~p.options => \A i \in DOMAIN fl : flow_match(p, fl[i], dir) <=> InTuple(fl[i], p, dir)
    BY <2>1, <2>2, <2>3, MatchAsDocumented
  <2>5. CASE s.label = "default"
    <3>0. Class(p, fl, dir) = "default"
      BY <2>1, <2>5
    <3>1. \A i \in DOMAIN fl : ~flow_match(p, fl[i], dir)
      <4>1. \A i \in DOMAIN fl : Class(p, fl, dir) # fl[i].label
        BY <2>2, <3>0, Zenon
      <4>2. fl \in Seq(Flow)
        BY <2>2
      <4> QED BY <4>1, <4>2, ClassIsFirst, Zenon
    <3>2. p.ipv4 /\ ~p.options => \A i \in DOMAIN fl : ~InTuple(fl[i], p, dir)
      BY <2>4, <3>1
    <3> QED BY <2>5, <3>2 DEF fl, p, dir
  <2>6. CASE s.label # "default"
    <3>1. PICK i \in DOMAIN fl : /\ s.label = fl[i].label
                                 /\ flow_match(p, fl[i], dir)
                                 /\ \A j \in 1..(i - 1) : ~flow_match(p, fl[j], dir)
      <4>1. Class(p, fl, dir) = s.label
        BY <2>1
      <4>2. fl \in Seq(Flow)
        BY <2>2
      <4>3. Class(p, fl, dir) # "default"
        BY <2>6, <4>1
      <4>4. PICK i \in DOMAIN fl : /\ Class(p, fl, dir) = fl[i].label
                                   /\ flow_match(p, fl[i], dir)
                                   /\ \A j \in 1..(i - 1) : ~flow_match(p, fl[j], dir)
        BY <4>2, <4>3, ClassIsFirst, Zenon
      <4>5. s.label = fl[i].label
        BY <4>1, <4>4
      <4> QED BY <4>4, <4>5, Zenon
    <3>2. p.ipv4 /\ ~p.options
      BY <3>1 DEF flow_match
    <3>3. \A j \in 1..(i - 1) : j \in DOMAIN fl
      BY <2>2, SMT
    <3>4. InTuple(fl[i], p, dir) /\ \A j \in 1..(i - 1) : ~InTuple(fl[j], p, dir)
      BY <2>4, <3>1, <3>2, <3>3
    <3> QED BY <2>6, <3>1, <3>2, <3>4 DEF fl, p, dir
  <2> QED BY <2>5, <2>6
<1> QED BY <1>1, FlowsInvariant, PTL

\* The flow that a page shows a packet's tuple under is the one whose QoS the
\* packet met, or one that ends at port 0 and that the page has end at 65535
\* (flow.rs: flow_count and flow_match, client.js: update, SyntheticFlow, matchFlow).
THEOREM ProfileNamesItsFlow == ProfileSpec => []ProfileAgrees
<1>1. FlowsInv => ProfileAgrees
  <2> SUFFICES ASSUME FlowsInv, NEW s \in sorted, NamesProtocols(s.flows),
                      s.p.ipv4, ~s.p.options,
                      s.p.protocol \in {TCP, UDP} => Port(s.p, s.dir) > 0
               PROVE  LET label == matchFlow(flow_count(s.p, s.dir), ClientFlows(s.flows))
                      IN \/ label = s.label
                         \/ \E i \in DOMAIN s.flows :
                              s.flows[i].label = label /\ s.flows[i].port_max = 0
    BY DEF ProfileAgrees
  <2> DEFINE fl == s.flows
             p == s.p
             dir == s.dir
             t == flow_count(p, dir)
             c == ClientFlows(fl)
  <2>1. dir \in Directions /\ p \in Packet /\ fl \in AllLists /\ s.label = Class(p, fl, dir)
    BY DEF FlowsInv
  <2>2. fl \in Seq(Flow) /\ \A i \in DOMAIN fl : fl[i] \in Flow
    BY <2>1, ListTypes
  <2>3. \A i \in DOMAIN fl : Wildcard(fl[i]) \/ fl[i].protocol \in {TCP, UDP}
    BY DEF NamesProtocols
  <2>4. p.ipv4 /\ ~p.options /\ (p.protocol \in {TCP, UDP} => Port(p, dir) > 0)
    OBVIOUS
  <2> HIDE DEF fl, p, dir
  <2>5. /\ c \in Seq(Flow) /\ DOMAIN c = DOMAIN fl
        /\ \A i \in DOMAIN fl : c[i] = SyntheticFlow(fl[i].label, fl[i])
    BY <2>2, ClientList
  <2>6. \A i \in DOMAIN fl : /\ flow_match(p, fl[i], dir) => Fits(t, c[i])
                             /\ Fits(t, c[i]) => flow_match(p, fl[i], dir) \/ fl[i].port_max = 0
    BY <2>1, <2>2, <2>3, <2>4, <2>5, ShownAsMatched
  <2> HIDE DEF t, c
  <2>7. SUFFICES \/ matchFlow(t, c) = Class(p, fl, dir)
                 \/ \E i \in DOMAIN fl : fl[i].label = matchFlow(t, c) /\ fl[i].port_max = 0
    BY <2>1 DEF t, c, fl, p, dir
  <2>8. CASE \A i \in DOMAIN c : ~Fits(t, c[i])
    <3>1. \A i \in DOMAIN fl : ~flow_match(p, fl[i], dir)
      BY <2>5, <2>6, <2>8, Zenon
    <3>2. Class(p, fl, dir) = "default"
      BY <2>2, <3>1, ClassIsFirst, Zenon
    <3>3. matchFlow(t, c) = "default"
      BY <2>5, <2>8, MatchIsFirst, Zenon
    <3> QED BY <3>2, <3>3
  <2>9. CASE \E i \in DOMAIN c : Fits(t, c[i])
    <3>1. PICK k \in DOMAIN c : /\ matchFlow(t, c) = c[k].label
                                /\ Fits(t, c[k])
                                /\ \A j \in 1..(k - 1) : ~Fits(t, c[j])
      BY <2>5, <2>9, MatchIsFirst
    <3>2. k \in DOMAIN fl /\ matchFlow(t, c) = fl[k].label
      BY <2>5, <3>1 DEF SyntheticFlow
    <3>3. CASE fl[k].port_max = 0
      BY <3>2, <3>3
    <3>4. CASE fl[k].port_max # 0
      <4>1. flow_match(p, fl[k], dir)
        BY <2>6, <3>1, <3>2, <3>4, Zenon
      <4>2. PICK i \in DOMAIN fl : /\ Class(p, fl, dir) = fl[i].label
                                   /\ flow_match(p, fl[i], dir)
                                   /\ \A j \in 1..(i - 1) : ~flow_match(p, fl[j], dir)
        BY <2>2, <3>2, <4>1, ClassIsFirst
      <4>3. i \in Nat \ {0} /\ k \in Nat \ {0}
        BY <2>2, <3>2, SMT
      <4>4. ~(k \in 1..(i - 1)) /\ ~(i \in 1..(k - 1))
        <5>1. Fits(t, c[i])
          BY <2>6, <4>2, Zenon
        <5> QED BY <3>1, <4>1, <4>2, <5>1, Zenon
      <4>5. i = k
        BY <4>3, <4>4, SMT
      <4> QED BY <3>2, <4>2, <4>5
    <3> QED BY <3>3, <3>4
  <2> QED BY <2>8, <2>9
<1> QED BY <1>1, FlowsInvariant, PTL

-----------------------------------------------------------------------------
(* Flow expressions.                                                       *)

\* What comes of a flow that is shown and typed.
LEMMA RetypedIs ==
  ASSUME NEW f, f.ip \in Nat, f.protocol \in Nat, f.port_min \in 0..MaxPort, f.port_max \in 0..MaxPort
  PROVE  LET lo == IF f.port_min = f.port_max \/ f.port_min > 0
                   THEN (IF f.port_min <= f.port_max THEN f.port_min ELSE f.port_max) ELSE 0
             hi == IF f.port_min = f.port_max \/ f.port_min > 0
                   THEN (IF f.port_min <= f.port_max THEN f.port_max ELSE f.port_min) ELSE MaxPort
         IN Retyped(f) = [label |-> "new", ip |-> f.ip, protocol |-> f.protocol, port_min |-> lo,
                          port_max |-> IF hi = 0 THEN MaxPort ELSE hi]
<1> DEFINE t == flowString(f)
           g == parseFlow(t)
<1>1. Number(Text(f.ip)) = f.ip /\ Number(Text(f.protocol)) = f.protocol
  BY DEF Number, Text
<1>2. /\ t.ip = Text(f.ip) /\ t.protocol = Text(f.protocol)
      /\ f.port_min = f.port_max => t.ports = <<f.port_min>>
      /\ f.port_min # f.port_max /\ f.port_min > 0 => t.ports = <<f.port_min, f.port_max>>
      /\ f.port_min # f.port_max /\ ~(f.port_min > 0) => t.ports = << >>
  BY DEF flowString
<1> HIDE DEF t
<1>3. g.ip = f.ip /\ g.protocol = f.protocol
  BY <1>1, <1>2 DEF parseFlow
<1>4. Retyped(f) = [label |-> "new", ip |-> f.ip, protocol |-> f.protocol, port_min |-> g.port_min,
                    port_max |-> IF g.port_max = 0 THEN MaxPort ELSE g.port_max]
  BY <1>3 DEF Retyped, SyntheticFlow, t
<1>5. CASE f.port_min = f.port_max
  <2>1. parsePortRange(t.ports) = <<f.port_min, f.port_min>> /\ t.ports # << >>
    BY <1>2, <1>5 DEF parsePortRange, Last
  <2>2. g.port_min = f.port_min /\ g.port_max = f.port_min
    BY <2>1 DEF parseFlow
  <2> QED BY <1>4, <1>5, <2>2
<1>6. CASE f.port_min # f.port_max /\ f.port_min > 0
  <2>0. ASSUME NEW a, NEW b PROVE Head(<<a, b>>) = a /\ Last(<<a, b>>) = b /\ <<a, b>> # << >>
    BY DEF Last
  <2>1. Head(t.ports) = f.port_min /\ Last(t.ports) = f.port_max /\ t.ports # << >>
    BY <1>2, <1>6, <2>0
  <2>2. g.port_min = (IF f.port_min <= f.port_max THEN f.port_min ELSE f.port_max)
        /\ g.port_max = (IF f.port_min <= f.port_max THEN f.port_max ELSE f.port_min)
    BY <2>1 DEF parseFlow, parsePortRange
  <2> QED BY <1>4, <1>6, <2>2
<1>7. CASE f.port_min # f.port_max /\ ~(f.port_min > 0)
  <2>1. g.port_min = 0 /\ g.port_max = MaxPort
    BY <1>2, <1>7 DEF parseFlow
  <2> QED BY <1>4, <1>7, <2>1
<1> QED BY <1>5, <1>6, <1>7

\* The row of a packet comes back as the flow of its tuple.
LEMMA RetypedRow ==
  ASSUME NEW p \in Packet, NEW dir \in Directions, p.ipv4, ~p.options
  PROVE  LET t == flow_count(p, dir)
         IN Retyped(RowFlow(t)) = [label |-> "new", ip |-> Addr(p, dir), protocol |-> p.protocol,
                                   port_min |-> t.port,
                                   port_max |-> IF t.port > 0 THEN t.port ELSE MaxPort]
<1> DEFINE t == flow_count(p, dir)
           f == RowFlow(t)
<1>1. /\ t.ip = Addr(p, dir) /\ t.protocol = p.protocol
      /\ t.port = (IF p.protocol \in {TCP, UDP} THEN Port(p, dir) ELSE 0)
  BY DEF flow_count
<1>2. Port(p, dir) \in 0..MaxPort /\ Addr(p, dir) \in Nat /\ p.protocol \in Nat
  BY DEF Addr, Port, Packet
<1>3. f.ip = Addr(p, dir) /\ f.protocol = p.protocol /\ f.port_min = t.port
      /\ f.port_max = (IF t.port > 0 THEN t.port ELSE MaxPort)
  BY <1>1 DEF RowFlow
<1>4. t.port \in 0..MaxPort
  BY <1>1, <1>2, PortsAssumption
<1> HIDE DEF t, f
<1>5. f.port_max \in 0..MaxPort /\ f.port_min \in 0..MaxPort /\ f.port_min <= f.port_max
  BY <1>3, <1>4, PortsAssumption
<1>6. Retyped(f) = [label |-> "new", ip |-> f.ip, protocol |-> f.protocol,
                    port_min |-> f.port_min, port_max |-> f.port_max]
  <2>1. f.ip \in Nat /\ f.protocol \in Nat
    BY <1>2, <1>3
  <2> QED BY <1>3, <1>4, <1>5, <2>1, RetypedIs, PortsAssumption
<1> QED BY <1>3, <1>6 DEF t, f

\* The text of a row or of a flow is read back as what it was shown for, and the
\* flow added from a row has the row's packets and no others (flow.js, ui.js: Top).
THEOREM FlowTextMeansItsFlow == ProfileSpec => []TextMeansItsFlow
<1>1. FlowsInv => TextMeansItsFlow
  <2> SUFFICES ASSUME FlowsInv PROVE TextMeansItsFlow
    OBVIOUS
  <2>1. ASSUME NEW s \in sorted, s.p.ipv4, ~s.p.options
        PROVE  LET f == Retyped(RowFlow(flow_count(s.p, s.dir)))
               IN /\ flow_match(s.p, f, s.dir)
                  /\ f.port_min > 0 /\ f.ip > 0 =>
                       \A q \in Scenarios : \A i \in DOMAIN q.traffic :
                         LET o == q.traffic[i]
                         IN flow_match(o.p, f, o.dir) =>
                              flow_count(o.p, o.dir) = flow_count(s.p, s.dir)
    <3> DEFINE t == flow_count(s.p, s.dir)
               f == Retyped(RowFlow(t))
               p == s.p
               dir == s.dir
    <3>1. dir \in Directions /\ p \in Packet /\ p.ipv4 /\ ~p.options
      BY <2>1 DEF FlowsInv
    <3>2. f = [label |-> "new", ip |-> Addr(p, dir), protocol |-> p.protocol, port_min |-> t.port,
               port_max |-> IF t.port > 0 THEN t.port ELSE MaxPort]
      BY <3>1, RetypedRow
    <3>3. t = [ip |-> Addr(p, dir), protocol |-> p.protocol,
               port |-> IF p.protocol \in {TCP, UDP} THEN Port(p, dir) ELSE 0]
      BY <3>1 DEF flow_count
    <3> HIDE DEF p, dir, t, f
    <3>4. Port(p, dir) \in 0..MaxPort /\ Addr(p, dir) \in Nat /\ p.protocol \in Nat
      BY <3>1 DEF Addr, Port, Packet
    <3>5. flow_match(p, f, dir)
      BY <3>1, <3>2, <3>3, <3>4, PortsAssumption DEF flow_match
    <3>6. ASSUME f.port_min > 0, f.ip > 0, NEW o, flow_match(o.p, f, o.dir)
          PROVE  flow_count(o.p, o.dir) = t
      <4>1. p.protocol \in {TCP, UDP} /\ t.port = Port(p, dir) /\ t.port > 0
        BY <3>2, <3>3, <3>6
      <4>2. Addr(o.p, o.dir) = Addr(p, dir) /\ o.p.protocol = p.protocol /\ o.p.ipv4 /\ ~o.p.options
            /\ Port(o.p, o.dir) \in t.port..t.port
        <5>1. /\ o.p.ipv4 /\ ~o.p.options
              /\ f.ip > 0 => Addr(o.p, o.dir) = f.ip
              /\ f.protocol > 0 => o.p.protocol = f.protocol
              /\ f.protocol \in {TCP, UDP} => Port(o.p, o.dir) \in f.port_min..f.port_max
          BY <3>6, Zenon DEF flow_match
        <5>2. f.ip = Addr(p, dir) /\ f.protocol = p.protocol /\ f.port_min = t.port /\ f.port_max = t.port
          BY <3>2, <4>1
        <5>3. f.protocol > 0
          BY <4>1, <5>2 DEF TCP, UDP
        <5> QED BY <3>6, <4>1, <5>1, <5>2, <5>3, Zenon
      <4>3. Port(o.p, o.dir) = Port(p, dir)
        BY <3>4, <4>1, <4>2
      <4> QED BY <3>3, <4>1, <4>2, <4>3 DEF flow_count
    <3> QED BY <3>5, <3>6 DEF p, dir, t, f
  <2>2. ASSUME NEW i \in DOMAIN flows
        PROVE  LET f == flows[i]
               IN (/\ f.port_min <= f.port_max
                   /\ f.port_min > 0 \/ f.port_max = MaxPort)
                  <=> Retyped(f) = [f EXCEPT !.label = "new"]
    <3> DEFINE f == flows[i]
    <3>1. f \in Flow
      BY ListTypes DEF FlowsInv, AllLists
    <3> SUFFICES (f.port_min <= f.port_max /\ (f.port_min > 0 \/ f.port_max = MaxPort))
                 <=> Retyped(f) = [f EXCEPT !.label = "new"]
      OBVIOUS
    <3> HIDE DEF f
    <3>2. f.ip \in Nat /\ f.protocol \in Nat /\ f.port_min \in 0..MaxPort /\ f.port_max \in 0..MaxPort
      BY <3>1 DEF Flow
    <3>3. [f EXCEPT !.label = "new"] = [label |-> "new", ip |-> f.ip, protocol |-> f.protocol,
                                        port_min |-> f.port_min, port_max |-> f.port_max]
      BY <3>1 DEF Flow
    <3>4. CASE f.port_min <= f.port_max /\ (f.port_min > 0 \/ f.port_max = MaxPort)
      <4> DEFINE lo == IF f.port_min = f.port_max \/ f.port_min > 0
                       THEN (IF f.port_min <= f.port_max THEN f.port_min ELSE f.port_max) ELSE 0
                 hi == IF f.port_min = f.port_max \/ f.port_min > 0
                       THEN (IF f.port_min <= f.port_max THEN f.port_max ELSE f.port_min) ELSE MaxPort
                 top == IF hi = 0 THEN MaxPort ELSE hi
      <4>1. Retyped(f) = [label |-> "new", ip |-> f.ip, protocol |-> f.protocol, port_min |-> lo, port_max |-> top]
        BY <3>2, RetypedIs, Zenon
      <4>2. lo = f.port_min /\ top = f.port_max
        BY <3>2, <3>4, PortsAssumption
      <4> HIDE DEF lo, top
      <4>3. Retyped(f) = [f EXCEPT !.label = "new"]
        BY <3>3, <4>1, <4>2
      <4> QED BY <3>4, <4>3, Zenon
    <3>5. CASE ~(f.port_min <= f.port_max /\ (f.port_min > 0 \/ f.port_max = MaxPort))
      <4>1. Retyped(f).port_min # f.port_min \/ Retyped(f).port_max # f.port_max
        BY <3>2, <3>5, RetypedIs, PortsAssumption
      <4>2. [f EXCEPT !.label = "new"].port_min = f.port_min /\ [f EXCEPT !.label = "new"].port_max = f.port_max
        BY <3>3
      <4>3. Retyped(f) # [f EXCEPT !.label = "new"]
        BY <4>1, <4>2, Zenon
      <4> QED BY <3>5, <4>3, Zenon
    <3> QED BY <3>4, <3>5
  <2> QED BY <2>1, <2>2 DEF TextMeansItsFlow
<1> QED BY <1>1, FlowsInvariant, PTL

-----------------------------------------------------------------------------
(* The traffic profile.                                                    *)

Ids == [ip : Nat, protocol : Nat, port : Nat]
SlotType == [packets : Nat, bits : Nat, id : Ids]
N == Len(counted)

CountedInv ==
  /\ watched \in Directions
  /\ path \in Seq(SentPackets)
  /\ counted \in Seq([id : Ids, bits : Nat \ {0}])
  /\ \A k \in DOMAIN counted : flow_slot(counted[k].id) \in Slots
  /\ pending \subseteq Words
  /\ pending # {} => N > 0

\* What atomic counting would have counted, packet by packet.
TallyInv ==
  /\ tally \in [0..N -> [Slots -> [packets : Nat, bits : Nat]]]
  /\ \A k \in 1..N, s \in Slots :
       LET mine == s = flow_slot(counted[k].id)
       IN /\ tally[k][s].packets = tally[k - 1][s].packets + (IF mine THEN 1 ELSE 0)
          /\ tally[k][s].bits = tally[k - 1][s].bits + (IF mine THEN counted[k].bits ELSE 0)
  /\ \A i, j \in 0..N, s \in Slots :
       /\ i <= j => tally[i][s].packets <= tally[j][s].packets /\ tally[i][s].bits <= tally[j][s].bits
       /\ tally[i][s].packets < tally[j][s].packets => tally[i][s].bits < tally[j][s].bits

\* The packets that the word w of a slot has counted.
Stored(w) == IF w \in pending THEN N - 1 ELSE N
\* An ID that the slot s may have, k packets into the traffic or later, with the
\* history of the packets co and the tally ta.
MayHave(id, s, k, ta, co) == \/ id = NoTuple /\ ta[k][s].packets = 0
                             \/ \E i \in DOMAIN co : id = co[i].id /\ s = flow_slot(id)

SlotsInv ==
  /\ slots \in [Slots -> SlotType]
  /\ \A s \in Slots : /\ slots[s].packets = tally[Stored("packets")][s].packets
                      /\ slots[s].bits = tally[Stored("bits")][s].bits
                      /\ MayHave(slots[s].id, s, Stored("id"), tally, counted)

\* What a request has read was in the file at some time since the request was made.
ReadInv(q, ta, co) ==
  \A s \in Slots :
    /\ 3 * s < q.read => /\ ta[q.began][s].packets <= q.file[s].packets
                         /\ q.file[s].packets <= ta[q.ended][s].packets
    /\ 3 * s + 1 < q.read => /\ ta[q.began][s].bits <= q.file[s].bits
                             /\ q.file[s].bits <= ta[q.ended][s].bits
    /\ 3 * s + 2 < q.read => MayHave(q.file[s].id, s, q.began, ta, co)

Request == [answered : BOOLEAN, read : 0..(3 * NSLOTS), file : [Slots -> SlotType], began : Nat, ended : Nat]

RequestsInv ==
  /\ requests \in Seq(Request)
  /\ \A r \in DOMAIN requests : /\ requests[r].began <= Complete
                                /\ requests[r].ended <= N
                                /\ ReadInv(requests[r], tally, counted)

AllRead(r) == r \in DOMAIN requests /\ requests[r].read = 3 * NSLOTS

ShownInv ==
  /\ prev # 0 => AllRead(prev)
  /\ \A t \in shown : /\ AllRead(t.prev) /\ AllRead(t.cur)
                      /\ t.rows = diff(requests[t.cur].file, requests[t.prev].file)

ProfileInv == FlowsInv /\ CountedInv /\ TallyInv /\ SlotsInv /\ RequestsInv /\ ShownInv

LEMMA InSeq == ASSUME NEW S, NEW e \in Seq(S), NEW i \in DOMAIN e PROVE e[i] \in S
OBVIOUS

LEMMA WordsAre == Words = {"packets", "bits", "id"} /\ Layout[1] = "packets" /\ Layout[2] = "bits" /\ Layout[3] = "id"
BY DEF Words, Layout, Range

\* Top counts a packet of the traffic, in a slot that there is.
LEMMA CountedPacket ==
  ASSUME FlowsInv, CountedInv, path # << >>
  PROVE  LET c == [id |-> flow_count(Head(path), watched), bits |-> Head(path).bits]
         IN c \in [id : Ids, bits : Nat \ {0}] /\ flow_slot(c.id) \in Slots
<1> DEFINE p == Head(path)
<1>1. p \in SentPackets
  BY DEF CountedInv
<1>2. p \in Packet
  BY <1>1, SentTypes DEF FlowsInv
<1>3. PICK i \in DOMAIN scenario.traffic : p = scenario.traffic[i].p
  BY <1>1 DEF SentPackets, Sent
<1>4. flow_slot(flow_count(scenario.traffic[i].p, watched)) \in 0..(NSLOTS - 1)
  BY HashAssumption DEF FlowsInv, CountedInv
<1>5. flow_slot(flow_count(p, watched)) \in Slots
  BY <1>3, <1>4 DEF Slots
<1> HIDE DEF p
<1>6. flow_count(p, watched) \in Ids
  <2>1. Addr(p, watched) \in Nat /\ Port(p, watched) \in Nat /\ p.protocol \in Nat
    BY <1>2, PortsAssumption DEF Packet, Addr, Port
  <2> QED BY <2>1 DEF flow_count, Ids
<1>7. p.bits \in Nat \ {0}
  BY <1>2 DEF Packet
<1> QED BY <1>5, <1>6, <1>7 DEF p

\* A packet more in the history.
LEMMA TallyMore ==
  ASSUME CountedInv, TallyInv, NEW c, c \in [id : Ids, bits : Nat \ {0}], flow_slot(c.id) \in Slots,
         counted' = Append(counted, c), Tally(c)
  PROVE  TallyInv' /\ N' = N + 1 /\ \A k \in 0..N : tally'[k] = tally[k]
<1> DEFINE n == Len(counted)
           x == flow_slot(c.id)
<1>1. n \in Nat /\ N = n /\ DOMAIN counted = 1..n
  BY DEF CountedInv, N
<1>2. N' = n + 1 /\ \A k \in 1..n : counted'[k] = counted[k]
  BY DEF CountedInv, N
<1>3. counted'[n + 1] = c
  BY DEF CountedInv
<1>4. tally \in [0..n -> [Slots -> [packets : Nat, bits : Nat]]]
  BY <1>1 DEF TallyInv
<1>5. tally' = [k \in 0..(n + 1) |->
                 IF k <= n THEN tally[k]
                 ELSE [tally[n] EXCEPT ![x] = [packets |-> tally[n][x].packets + 1,
                                               bits |-> tally[n][x].bits + c.bits]]]
  BY DEF Tally
<1> DEFINE new == tally'[n + 1]
<1>6. \A k \in 0..n : tally'[k] = tally[k]
  BY <1>1, <1>5
<1>7. new = [tally[n] EXCEPT ![x] = [packets |-> tally[n][x].packets + 1,
                                     bits |-> tally[n][x].bits + c.bits]]
  BY <1>1, <1>5
<1>8. tally[n] \in [Slots -> [packets : Nat, bits : Nat]]
  BY <1>1, <1>4
<1>9. c.bits \in Nat \ {0}
  OBVIOUS
<1>10. \A s \in Slots :
         /\ new[s].packets = tally[n][s].packets + (IF s = x THEN 1 ELSE 0)
         /\ new[s].bits = tally[n][s].bits + (IF s = x THEN c.bits ELSE 0)
  BY <1>7, <1>8, <1>9
<1>11. new \in [Slots -> [packets : Nat, bits : Nat]]
  BY <1>7, <1>8, <1>9
<1>12. tally' \in [0..(n + 1) -> [Slots -> [packets : Nat, bits : Nat]]]
  <2>1. \A k \in 0..(n + 1) : tally'[k] \in [Slots -> [packets : Nat, bits : Nat]]
    <3> TAKE k \in 0..(n + 1)
    <3>1. CASE k = n + 1
      BY <1>11, <3>1
    <3>2. CASE k \in 0..n
      BY <1>4, <1>6, <3>2
    <3> QED BY <1>1, <3>1, <3>2
  <2> QED BY <1>5, <2>1
<1>13. ASSUME NEW k \in 1..(n + 1), NEW s \in Slots
       PROVE  LET mine == s = flow_slot(counted'[k].id)
              IN /\ tally'[k][s].packets = tally'[k - 1][s].packets + (IF mine THEN 1 ELSE 0)
                 /\ tally'[k][s].bits = tally'[k - 1][s].bits + (IF mine THEN counted'[k].bits ELSE 0)
  <2>1. CASE k = n + 1
    <3>1. tally'[k - 1] = tally[n] /\ counted'[k] = c
      BY <1>1, <1>3, <1>6, <2>1
    <3> HIDE DEF new
    <3> QED BY <1>10, <2>1, <3>1 DEF new
  <2>2. CASE k \in 1..n
    <3>1. tally'[k - 1] = tally[k - 1] /\ tally'[k] = tally[k] /\ counted'[k] = counted[k]
      BY <1>1, <1>2, <1>6, <2>2
    <3>2. LET mine == s = flow_slot(counted[k].id)
          IN /\ tally[k][s].packets = tally[k - 1][s].packets + (IF mine THEN 1 ELSE 0)
             /\ tally[k][s].bits = tally[k - 1][s].bits + (IF mine THEN counted[k].bits ELSE 0)
      BY <1>1, <2>2 DEF TallyInv
    <3> QED BY <3>1, <3>2
  <2> QED BY <1>1, <2>1, <2>2
<1> HIDE DEF new
<1>14. ASSUME NEW i \in 0..(n + 1), NEW j \in 0..(n + 1), NEW s \in Slots
       PROVE  /\ i <= j => tally'[i][s].packets <= tally'[j][s].packets /\ tally'[i][s].bits <= tally'[j][s].bits
              /\ tally'[i][s].packets < tally'[j][s].packets => tally'[i][s].bits < tally'[j][s].bits
  <2>1. \A a, b \in 0..n :
          /\ a <= b => tally[a][s].packets <= tally[b][s].packets /\ tally[a][s].bits <= tally[b][s].bits
          /\ tally[a][s].packets < tally[b][s].packets => tally[a][s].bits < tally[b][s].bits
    BY <1>1 DEF TallyInv
  <2>2. \A a \in 0..n : tally[a][s].packets \in Nat /\ tally[a][s].bits \in Nat
    BY <1>4
  <2>3. new[s].packets = tally[n][s].packets + (IF s = x THEN 1 ELSE 0)
        /\ new[s].bits = tally[n][s].bits + (IF s = x THEN c.bits ELSE 0)
    BY <1>10
  <2>4. CASE i \in 0..n /\ j \in 0..n
    BY <1>6, <2>1, <2>4
  <2>5. CASE i \in 0..n /\ j = n + 1
    <3>1. tally'[i] = tally[i] /\ tally'[j] = new
      BY <1>6, <2>5 DEF new
    <3>2. tally[i][s].packets <= tally[n][s].packets /\ tally[i][s].bits <= tally[n][s].bits
          /\ (tally[i][s].packets < tally[n][s].packets => tally[i][s].bits < tally[n][s].bits)
      BY <1>1, <2>1, <2>5
    <3> QED BY <1>1, <1>9, <2>2, <2>3, <2>5, <3>1, <3>2
  <2>6. CASE i = n + 1 /\ j \in 0..n
    <3>1. tally'[i] = new /\ tally'[j] = tally[j]
      BY <1>6, <2>6 DEF new
    <3>2. tally[j][s].packets <= tally[n][s].packets
      BY <1>1, <2>1, <2>6
    <3> QED BY <1>1, <1>9, <2>2, <2>3, <2>6, <3>1, <3>2
  <2>7. CASE i = n + 1 /\ j = n + 1
    <3>1. tally'[i] = new /\ tally'[j] = new
      BY <2>7 DEF new
    <3>2. new[s].packets \in Nat /\ new[s].bits \in Nat
      BY <1>9, <2>2, <2>3, <1>1
    <3> QED BY <3>1, <3>2
  <2> QED BY <1>1, <2>4, <2>5, <2>6, <2>7
<1> QED BY <1>1, <1>2, <1>6, <1>12, <1>13, <1>14 DEF TallyInv

-----------------------------------------------------------------------------

LEMMA MayHaveKept ==
  ASSUME NEW id, NEW s, NEW k, NEW ta, NEW co, NEW ta2, NEW co2,
         ta2[k] = ta[k], \A i \in DOMAIN co : i \in DOMAIN co2 /\ co2[i] = co[i],
         MayHave(id, s, k, ta, co)
  PROVE  MayHave(id, s, k, ta2, co2)
BY DEF MayHave

\* More traffic does not change what a request has read.
LEMMA ReadKept ==
  ASSUME NEW q, NEW ta, NEW co, NEW ta2, NEW co2,
         ta2[q.began] = ta[q.began], ta2[q.ended] = ta[q.ended],
         \A i \in DOMAIN co : i \in DOMAIN co2 /\ co2[i] = co[i],
         ReadInv(q, ta, co)
  PROVE  ReadInv(q, ta2, co2)
<1> SUFFICES ASSUME NEW s \in Slots
             PROVE  /\ 3 * s < q.read => /\ ta[q.began][s].packets <= q.file[s].packets
                                         /\ q.file[s].packets <= ta[q.ended][s].packets
                    /\ 3 * s + 1 < q.read => /\ ta[q.began][s].bits <= q.file[s].bits
                                             /\ q.file[s].bits <= ta[q.ended][s].bits
                    /\ 3 * s + 2 < q.read => MayHave(q.file[s].id, s, q.began, ta2, co2)
  BY Zenon DEF ReadInv
<1>1. MayHave(q.file[s].id, s, q.began, ta, co) => MayHave(q.file[s].id, s, q.began, ta2, co2)
  BY MayHaveKept, Zenon
<1> QED BY <1>1, Zenon DEF ReadInv

LEMMA TypesOfN ==
  ASSUME CountedInv
  PROVE  /\ N \in Nat /\ DOMAIN counted = 1..N
         /\ Complete = N - (IF pending = {} THEN 0 ELSE 1)
         /\ Complete \in 0..N
         /\ \A w \in Words : Stored(w) \in Complete..N
<1>1. N \in Nat /\ DOMAIN counted = 1..N
  BY DEF CountedInv, N
<1>2. Complete = N - (IF pending = {} THEN 0 ELSE 1)
  BY DEF Complete, N
<1>3. Complete \in 0..N
  BY <1>1, <1>2 DEF CountedInv
<1>4. \A w \in Words : Stored(w) \in Complete..N
  <2> TAKE w \in Words
  <2>1. CASE pending = {}
    BY <1>1, <1>2, <2>1 DEF Stored
  <2>2. CASE pending # {}
    BY <1>1, <1>2, <2>2 DEF Stored
  <2> QED BY <2>1, <2>2
<1> QED BY <1>1, <1>2, <1>3, <1>4

\* A step that leaves what was counted and what was read alone.
LEMMA RequestsKept ==
  ASSUME CountedInv, TallyInv, RequestsInv, requests' = requests,
         N <= N', N' \in Nat, Complete <= Complete', Complete' \in Int,
         \A k \in 0..N : tally'[k] = tally[k],
         \A i \in DOMAIN counted : i \in DOMAIN counted' /\ counted'[i] = counted[i]
  PROVE  RequestsInv'
<1> SUFFICES ASSUME NEW r \in DOMAIN requests
             PROVE  /\ requests[r].began <= Complete'
                    /\ requests[r].ended <= N'
                    /\ ReadInv(requests[r], tally', counted')
  BY DEF RequestsInv
<1>1. N \in Nat /\ Complete \in 0..N
  BY TypesOfN
<1>2. requests[r] \in Request
  BY DEF RequestsInv
<1>3. requests[r].began \in Nat /\ requests[r].ended \in Nat
  BY <1>2 DEF Request
<1>4. requests[r].began <= Complete /\ requests[r].ended <= N /\ ReadInv(requests[r], tally, counted)
  BY DEF RequestsInv
<1>5. requests[r].began \in 0..N /\ requests[r].ended \in 0..N
  BY <1>1, <1>3, <1>4
<1>6. ReadInv(requests[r], tally', counted')
  BY <1>4, <1>5, ReadKept
<1> QED BY <1>1, <1>3, <1>4, <1>6

LEMMA TopPushStep ==
  ASSUME ProfileInv, TopPush, UNCHANGED <<flowVars, tableVars, watched>>
  PROVE  CountedInv' /\ TallyInv' /\ SlotsInv' /\ RequestsInv'
<1> DEFINE c == [id |-> flow_count(Head(path), watched), bits |-> Head(path).bits]
<1>1. /\ pending = {} /\ path # << >> /\ path' = Tail(path)
      /\ counted' = Append(counted, c) /\ Tally(c)
      /\ pending' = Words /\ slots' = slots
  BY DEF TopPush
<1>2. c \in [id : Ids, bits : Nat \ {0}] /\ flow_slot(c.id) \in Slots
  BY <1>1, CountedPacket DEF ProfileInv
<1> HIDE DEF c
<1>3. TallyInv' /\ N' = N + 1 /\ \A k \in 0..N : tally'[k] = tally[k]
  BY <1>1, <1>2, TallyMore DEF ProfileInv
<1>4. N \in Nat /\ DOMAIN counted = 1..N /\ Complete = N
  BY <1>1, TypesOfN DEF ProfileInv
<1>5. /\ counted' \in Seq([id : Ids, bits : Nat \ {0}])
      /\ DOMAIN counted' = 1..(N + 1)
      /\ \A i \in 1..N : counted'[i] = counted[i]
      /\ counted'[N + 1] = c
  BY <1>1, <1>2 DEF ProfileInv, CountedInv, N
<1>6. CountedInv'
  <2>1. path' \in Seq(SentPackets) /\ SentPackets' = SentPackets /\ watched' = watched
    BY <1>1 DEF ProfileInv, CountedInv, SentPackets, Sent, flowVars
  <2>2. \A k \in DOMAIN counted' : flow_slot(counted'[k].id) \in Slots
    BY <1>2, <1>4, <1>5 DEF ProfileInv, CountedInv
  <2>3. N' > 0
    BY <1>3, <1>4
  <2> QED BY <1>1, <1>5, <2>1, <2>2, <2>3 DEF ProfileInv, CountedInv
<1>7. \A w \in Words : Stored(w) = N /\ Stored(w)' = N
  BY <1>1, <1>3, <1>4 DEF Stored
<1>8. SlotsInv'
  <2>1. Stored("packets") = N /\ Stored("bits") = N /\ Stored("id") = N
        /\ Stored("packets")' = N /\ Stored("bits")' = N /\ Stored("id")' = N
    BY <1>7, WordsAre
  <2>2. tally'[N] = tally[N]
    BY <1>3, <1>4
  <2>3. ASSUME NEW s \in Slots PROVE MayHave(slots[s].id, s, N, tally', counted')
    <3>1. MayHave(slots[s].id, s, N, tally, counted)
      BY <2>1 DEF ProfileInv, SlotsInv
    <3>2. \A i \in DOMAIN counted : i \in DOMAIN counted' /\ counted'[i] = counted[i]
      BY <1>4, <1>5
    <3> QED BY <2>2, <3>1, <3>2, MayHaveKept
  <2> QED BY <1>1, <2>1, <2>2, <2>3 DEF ProfileInv, SlotsInv
<1>9. RequestsInv'
  <2>1. Complete' = N
    <3>1. pending' # {}
      BY <1>1, WordsAre
    <3>2. N \in Nat /\ Len(counted') = N + 1
      BY <1>3, <1>4 DEF N
    <3>3. Complete' = Len(counted') - 1
      BY <3>1 DEF Complete
    <3> QED BY <3>2, <3>3
  <2>2. N <= N' /\ N' \in Nat /\ Complete <= Complete' /\ Complete' \in Int
    BY <1>3, <1>4, <2>1
  <2>3. requests' = requests
    BY DEF tableVars
  <2>4. \A i \in DOMAIN counted : i \in DOMAIN counted' /\ counted'[i] = counted[i]
    BY <1>4, <1>5
  <2>5. \A k \in 0..N : tally'[k] = tally[k]
    BY <1>3
  <2> QED BY <2>2, <2>3, <2>4, <2>5, RequestsKept DEF ProfileInv
<1> QED BY <1>3, <1>6, <1>8, <1>9

LEMMA StoreStep ==
  ASSUME ProfileInv, NEW w \in Words, flowtop_inc(w), UNCHANGED <<flowVars, tableVars, watched>>
  PROVE  CountedInv' /\ TallyInv' /\ SlotsInv' /\ RequestsInv'
<1> DEFINE c == Last(counted)
           x == flow_slot(c.id)
           new == [slots[x] EXCEPT !.packets = @ + 1, !.bits = @ + c.bits, !.id = c.id]
<1>1. /\ w \in pending /\ pending' = pending \ {w}
      /\ slots' = [slots EXCEPT ![x] = [slots[x] EXCEPT ![w] = new[w]]]
      /\ path' = path /\ counted' = counted /\ tally' = tally
  BY DEF flowtop_inc
<1>2. N \in Nat /\ N > 0 /\ DOMAIN counted = 1..N /\ Complete = N - 1
  BY <1>1, TypesOfN DEF ProfileInv, CountedInv
<1>3. c = counted[N] /\ N \in DOMAIN counted
  BY <1>2 DEF Last, N
<1>4. c \in [id : Ids, bits : Nat \ {0}] /\ x \in Slots
  <2>1. counted[N] \in [id : Ids, bits : Nat \ {0}]
    <3>1. counted \in Seq([id : Ids, bits : Nat \ {0}])
      BY DEF ProfileInv, CountedInv
    <3> QED BY <1>3, <3>1, InSeq
  <2>2. flow_slot(counted[N].id) \in Slots
    BY <1>3 DEF ProfileInv, CountedInv
  <2> HIDE DEF c
  <2> QED BY <1>3, <2>1, <2>2
<1>5. slots \in [Slots -> SlotType]
  BY DEF ProfileInv, SlotsInv
<1>6. slots[x] \in SlotType
  BY <1>4, <1>5
<1>7. new.packets = slots[x].packets + 1 /\ new.bits = slots[x].bits + c.bits /\ new.id = c.id
  BY <1>6 DEF SlotType
<1> HIDE DEF c, x, new
<1>8. N' = N
  BY <1>1 DEF N
<1>9. CountedInv'
  <2>1. SentPackets' = SentPackets
    BY DEF SentPackets, Sent, flowVars
  <2> QED BY <1>1, <1>8, <2>1 DEF ProfileInv, CountedInv
<1>10. TallyInv'
  BY <1>1, <1>8 DEF ProfileInv, TallyInv
<1>11. RequestsInv'
  <2>1. Complete' \in (N - 1)..N
    BY <1>1, <1>2, <1>8 DEF Complete, N
  <2> QED BY <1>1, <1>2, <1>8, <2>1, RequestsKept DEF ProfileInv, tableVars
\* The other slots.
<1>12. ASSUME NEW s \in Slots, s # x
       PROVE  tally[N][s].packets = tally[N - 1][s].packets /\ tally[N][s].bits = tally[N - 1][s].bits
  <2>1. N \in 1..N /\ N - 1 \in 0..N
    BY <1>2
  <2>2. tally[N - 1][s].packets \in Nat /\ tally[N - 1][s].bits \in Nat
    BY <2>1 DEF ProfileInv, TallyInv
  <2>3. s # flow_slot(counted[N].id)
    BY <1>3, <1>12 DEF x
  <2>4. tally[N][s].packets = tally[N - 1][s].packets + 0 /\ tally[N][s].bits = tally[N - 1][s].bits + 0
    BY <2>1, <2>3 DEF ProfileInv, TallyInv
  <2> QED BY <2>2, <2>4
<1>13. tally[N][x].packets = tally[N - 1][x].packets + 1 /\ tally[N][x].bits = tally[N - 1][x].bits + c.bits
  <2>1. N \in 1..N
    BY <1>2
  <2>2. x = flow_slot(counted[N].id) /\ c.bits = counted[N].bits
    BY <1>3 DEF x
  <2> QED BY <1>4, <2>1, <2>2 DEF ProfileInv, TallyInv
<1>14. \A s \in Slots : s # x => slots'[s] = slots[s]
  BY <1>1, <1>5
<1>15. \A v \in Words : Stored(v)' = (IF v = w THEN N ELSE Stored(v))
  BY <1>1, <1>8 DEF Stored
<1>16. Stored(w) = N - 1
  BY <1>1 DEF Stored
<1>17. \A s \in Slots : /\ slots[s].packets = tally[Stored("packets")][s].packets
                        /\ slots[s].bits = tally[Stored("bits")][s].bits
                        /\ MayHave(slots[s].id, s, Stored("id"), tally, counted)
  BY DEF ProfileInv, SlotsInv
<1>18. CASE w = "packets"
  <2>1. slots'[x] = [slots[x] EXCEPT !.packets = slots[x].packets + 1]
    BY <1>1, <1>4, <1>5, <1>7, <1>18
  <2>2. slots'[x] \in SlotType /\ slots'[x].packets = slots[x].packets + 1
        /\ slots'[x].bits = slots[x].bits /\ slots'[x].id = slots[x].id
    BY <1>6, <2>1 DEF SlotType
  <2>3. slots' \in [Slots -> SlotType]
    BY <1>1, <1>5, <2>2
  <2>4. Stored("packets")' = N /\ Stored("bits")' = Stored("bits") /\ Stored("id")' = Stored("id")
        /\ Stored("packets") = N - 1
    BY <1>15, <1>16, <1>18, WordsAre
  <2>5. ASSUME NEW s \in Slots
        PROVE  /\ slots'[s].packets = tally[N][s].packets
               /\ slots'[s].bits = tally[Stored("bits")][s].bits
               /\ MayHave(slots'[s].id, s, Stored("id"), tally, counted)
    <3>1. CASE s = x
      BY <1>13, <1>17, <2>2, <2>4, <3>1
    <3>2. CASE s # x
      BY <1>12, <1>14, <1>17, <2>4, <3>2
    <3> QED BY <3>1, <3>2
  <2> QED BY <1>1, <1>9, <1>10, <1>11, <2>3, <2>4, <2>5 DEF SlotsInv
<1>19. CASE w = "bits"
  <2>1. slots'[x] = [slots[x] EXCEPT !.bits = slots[x].bits + c.bits]
    BY <1>1, <1>4, <1>5, <1>7, <1>19
  <2>2. slots'[x] \in SlotType /\ slots'[x].packets = slots[x].packets
        /\ slots'[x].bits = slots[x].bits + c.bits /\ slots'[x].id = slots[x].id
    BY <1>4, <1>6, <2>1 DEF SlotType
  <2>3. slots' \in [Slots -> SlotType]
    BY <1>1, <1>5, <2>2
  <2>4. Stored("bits")' = N /\ Stored("packets")' = Stored("packets") /\ Stored("id")' = Stored("id")
        /\ Stored("bits") = N - 1
    BY <1>15, <1>16, <1>19, WordsAre
  <2>5. ASSUME NEW s \in Slots
        PROVE  /\ slots'[s].packets = tally[Stored("packets")][s].packets
               /\ slots'[s].bits = tally[N][s].bits
               /\ MayHave(slots'[s].id, s, Stored("id"), tally, counted)
    <3>1. CASE s = x
      BY <1>13, <1>17, <2>2, <2>4, <3>1
    <3>2. CASE s # x
      BY <1>12, <1>14, <1>17, <2>4, <3>2
    <3> QED BY <3>1, <3>2
  <2> QED BY <1>1, <1>9, <1>10, <1>11, <2>3, <2>4, <2>5 DEF SlotsInv
<1>20. CASE w = "id"
  <2>1. slots'[x] = [slots[x] EXCEPT !.id = c.id]
    BY <1>1, <1>4, <1>5, <1>7, <1>20
  <2>2. slots'[x] \in SlotType /\ slots'[x].packets = slots[x].packets
        /\ slots'[x].bits = slots[x].bits /\ slots'[x].id = c.id
    BY <1>4, <1>6, <2>1 DEF SlotType
  <2>3. slots' \in [Slots -> SlotType]
    BY <1>1, <1>5, <2>2
  <2>4. Stored("id")' = N /\ Stored("packets")' = Stored("packets") /\ Stored("bits")' = Stored("bits")
        /\ Stored("id") = N - 1
    BY <1>15, <1>16, <1>20, WordsAre
  <2>5. ASSUME NEW s \in Slots
        PROVE  /\ slots'[s].packets = tally[Stored("packets")][s].packets
               /\ slots'[s].bits = tally[Stored("bits")][s].bits
               /\ MayHave(slots'[s].id, s, N, tally, counted)
    <3>1. CASE s = x
      <4>1. slots'[s].id = counted[N].id /\ s = flow_slot(counted[N].id)
        BY <1>3, <2>2, <3>1 DEF x
      <4>2. MayHave(slots'[s].id, s, N, tally, counted)
        BY <1>3, <4>1 DEF MayHave
      <4> QED BY <1>17, <2>2, <3>1, <4>2
    <3>2. CASE s # x
      <4>1. MayHave(slots[s].id, s, N - 1, tally, counted)
        BY <1>17, <2>4
      <4>2. MayHave(slots[s].id, s, N, tally, counted)
        BY <1>12, <3>2, <4>1 DEF MayHave
      <4> QED BY <1>14, <1>17, <3>2, <4>2
    <3> QED BY <3>1, <3>2
  <2> QED BY <1>1, <1>9, <1>10, <1>11, <2>3, <2>4, <2>5 DEF SlotsInv
<1> QED BY <1>18, <1>19, <1>20, WordsAre

LEMMA RefreshStep ==
  ASSUME ProfileInv, refreshTable, UNCHANGED <<flowVars, topVars, watched>>
  PROVE  RequestsInv' /\ ShownInv'
<1> DEFINE q == NewRequest
<1>1. requests' = Append(requests, q) /\ prev' = prev /\ shown' = shown
  BY DEF refreshTable
<1>2. N \in Nat /\ Complete \in 0..N
  BY TypesOfN DEF ProfileInv
<1>3. q \in Request
  <2>1. Unused \in SlotType
    BY DEF Unused, SlotType, NoTuple, Ids
  <2>2. [s \in Slots |-> Unused] \in [Slots -> SlotType]
    BY <2>1
  <2>3. 0 \in 0..(3 * NSLOTS)
    BY SlotsAssumption
  <2>4. Complete \in Nat
    BY <1>2
  <2> QED BY <2>2, <2>3, <2>4 DEF NewRequest, Request
<1>4. q.began = Complete /\ q.ended = 0 /\ q.read = 0
  BY DEF NewRequest
<1>5. ReadInv(q, tally, counted)
  <2>1. \A s \in Slots : ~(3 * s < 0) /\ ~(3 * s + 1 < 0) /\ ~(3 * s + 2 < 0)
    BY DEF Slots
  <2> QED BY <1>4, <2>1 DEF ReadInv
<1> HIDE DEF q
<1>6. N' = N /\ Complete' = Complete /\ tally' = tally /\ counted' = counted
  BY DEF topVars, N, Complete
<1>7. requests \in Seq(Request)
  BY DEF ProfileInv, RequestsInv
<1>8. /\ requests' \in Seq(Request)
      /\ DOMAIN requests' = DOMAIN requests \cup {Len(requests) + 1}
      /\ \A r \in DOMAIN requests : requests'[r] = requests[r]
      /\ requests'[Len(requests) + 1] = q
  BY <1>1, <1>3, <1>7
<1>9. RequestsInv'
  <2> SUFFICES ASSUME NEW r \in DOMAIN requests'
               PROVE  /\ requests'[r].began <= Complete
                      /\ requests'[r].ended <= N
                      /\ ReadInv(requests'[r], tally, counted)
    BY <1>6, <1>8 DEF RequestsInv
  <2>1. CASE r \in DOMAIN requests
    BY <1>8, <2>1 DEF ProfileInv, RequestsInv
  <2>2. CASE r = Len(requests) + 1
    <3>1. requests'[r] = q
      BY <1>8, <2>2
    <3> QED BY <1>2, <1>4, <1>5, <3>1
  <2> QED BY <1>8, <2>1, <2>2
<1>10. \A r : AllRead(r) => requests'[r] = requests[r] /\ AllRead(r)'
  BY <1>8 DEF AllRead
<1>11. ShownInv'
  BY <1>1, <1>10 DEF ProfileInv, ShownInv
<1> QED BY <1>9, <1>11

\* The words of the file, by their place in it.
LEMMA NextWord ==
  ASSUME NEW n \in Nat, n < 3 * NSLOTS
  PROVE  /\ n \div 3 \in Slots /\ n % 3 \in 0..2
         /\ n = 3 * (n \div 3) + (n % 3)
BY SlotsAssumption DEF Slots

LEMMA ReadStep ==
  ASSUME ProfileInv, NEW r \in DOMAIN requests, sendFile(r), UNCHANGED <<flowVars, topVars, watched>>
  PROVE  RequestsInv' /\ ShownInv'
<1> DEFINE q == requests[r]
           s == q.read \div 3
           m == q.read % 3
           w == Layout[1 + m]
           row == [q.file[s] EXCEPT ![w] = slots[s][w]]
           f == [q.file EXCEPT ![s] = row]
           q2 == requests'[r]
<1>1. requests \in Seq(Request) /\ q \in Request
  BY DEF ProfileInv, RequestsInv
<1>2. q.read \in Nat /\ q.read < 3 * NSLOTS /\ q.began \in Nat /\ q.ended \in Nat /\ q.file \in [Slots -> SlotType]
  BY <1>1 DEF Request, sendFile
<1>3. s \in Slots /\ m \in 0..2 /\ q.read = 3 * s + m
  BY <1>2, NextWord, Zenon
<1>4. requests' = [requests EXCEPT ![r] = [q EXCEPT !.read = q.read + 1, !.file = f, !.ended = Len(counted)]]
      /\ prev' = prev /\ shown' = shown
  BY Zenon DEF sendFile
<1>5. N \in Nat /\ Complete \in 0..N /\ \A v \in Words : Stored(v) \in Complete..N
  BY TypesOfN DEF ProfileInv
<1>6. q.began <= Complete /\ q.ended <= N /\ ReadInv(q, tally, counted)
  BY DEF ProfileInv, RequestsInv
<1>7. q2 = [q EXCEPT !.read = q.read + 1, !.file = f, !.ended = Len(counted)]
  BY <1>1, <1>4
<1>8. slots[s] \in SlotType /\ q.file[s] \in SlotType
  BY <1>2, <1>3 DEF ProfileInv, SlotsInv
<1>9. \/ m = 0 /\ w = "packets" /\ row = [q.file[s] EXCEPT !.packets = slots[s].packets]
      \/ m = 1 /\ w = "bits" /\ row = [q.file[s] EXCEPT !.bits = slots[s].bits]
      \/ m = 2 /\ w = "id" /\ row = [q.file[s] EXCEPT !.id = slots[s].id]
  <2> HIDE DEF m, s, q
  <2>1. m = 0 \/ m = 1 \/ m = 2
    BY <1>3
  <2>2. CASE m = 0
    BY <2>2, WordsAre
  <2>3. CASE m = 1
    BY <2>3, WordsAre
  <2>4. CASE m = 2
    BY <2>4, WordsAre
  <2> QED BY <2>1, <2>2, <2>3, <2>4
<1> HIDE DEF q, s, m, w, row
<1>10. row \in SlotType
  BY <1>8, <1>9 DEF SlotType
<1>11. f \in [Slots -> SlotType] /\ f[s] = row /\ \A x \in Slots : x # s => f[x] = q.file[x]
  BY <1>2, <1>3, <1>10
<1> HIDE DEF f
<1>12. /\ q2 \in Request /\ q2.read = q.read + 1 /\ q2.file = f
       /\ q2.began = q.began /\ q2.ended = N
  <2>1. q.read + 1 \in 0..(3 * NSLOTS) /\ Len(counted) = N
    BY <1>2, SlotsAssumption DEF N
  <2> QED BY <1>1, <1>5, <1>7, <1>11, <2>1 DEF Request
<1> HIDE DEF q2
\* The history between the beginning of the request and now.
<1>13. ASSUME NEW x \in Slots
       PROVE  /\ tally[q.began][x].packets <= slots[x].packets /\ slots[x].packets <= tally[N][x].packets
              /\ tally[q.began][x].bits <= slots[x].bits /\ slots[x].bits <= tally[N][x].bits
              /\ MayHave(slots[x].id, x, q.began, tally, counted)
              /\ tally[q.ended][x].packets <= tally[N][x].packets
              /\ tally[q.ended][x].bits <= tally[N][x].bits
              /\ tally[q.ended][x].packets \in Nat /\ tally[q.ended][x].bits \in Nat
              /\ tally[N][x].packets \in Nat /\ tally[N][x].bits \in Nat
  <2>1. q.began \in 0..N /\ q.ended \in 0..N /\ N \in 0..N
    BY <1>2, <1>5, <1>6
  <2>2. \A v \in Words : Stored(v) \in 0..N /\ q.began <= Stored(v) /\ Stored(v) <= N
    BY <1>2, <1>5, <1>6
  <2>3. {"packets", "bits", "id"} \subseteq Words
    BY WordsAre
  <2>4. \A i, j \in 0..N : i <= j => tally[i][x].packets <= tally[j][x].packets /\ tally[i][x].bits <= tally[j][x].bits
    BY DEF ProfileInv, TallyInv
  <2>5. \A i \in 0..N : tally[i][x].packets \in Nat /\ tally[i][x].bits \in Nat
    BY DEF ProfileInv, TallyInv
  <2>6. /\ slots[x].packets = tally[Stored("packets")][x].packets
        /\ slots[x].bits = tally[Stored("bits")][x].bits
        /\ MayHave(slots[x].id, x, Stored("id"), tally, counted)
    BY DEF ProfileInv, SlotsInv
  <2>7. MayHave(slots[x].id, x, q.began, tally, counted)
    <3>1. tally[Stored("id")][x].packets = 0 => tally[q.began][x].packets = 0
      BY <2>1, <2>2, <2>3, <2>4, <2>5
    <3> QED BY <2>6, <3>1 DEF MayHave
  <2>8. /\ tally[q.began][x].packets <= slots[x].packets /\ slots[x].packets <= tally[N][x].packets
        /\ tally[q.began][x].bits <= slots[x].bits /\ slots[x].bits <= tally[N][x].bits
    BY <2>1, <2>2, <2>3, <2>4, <2>6
  <2>9. q.ended <= N
    BY <1>6
  <2> QED BY <2>1, <2>4, <2>5, <2>7, <2>8, <2>9
<1>14. ReadInv(q2, tally, counted)
  <2> SUFFICES ASSUME NEW x \in Slots
               PROVE  /\ 3 * x < q.read + 1 => /\ tally[q.began][x].packets <= f[x].packets
                                               /\ f[x].packets <= tally[N][x].packets
                      /\ 3 * x + 1 < q.read + 1 => /\ tally[q.began][x].bits <= f[x].bits
                                                   /\ f[x].bits <= tally[N][x].bits
                      /\ 3 * x + 2 < q.read + 1 => MayHave(f[x].id, x, q.began, tally, counted)
    BY <1>12 DEF ReadInv
  <2>1. x \in Nat /\ s \in Nat
    BY <1>3 DEF Slots
  <2>2. /\ 3 * x < q.read => /\ tally[q.began][x].packets <= q.file[x].packets
                             /\ q.file[x].packets <= tally[q.ended][x].packets
        /\ 3 * x + 1 < q.read => /\ tally[q.began][x].bits <= q.file[x].bits
                                 /\ q.file[x].bits <= tally[q.ended][x].bits
        /\ 3 * x + 2 < q.read => MayHave(q.file[x].id, x, q.began, tally, counted)
    BY <1>6 DEF ReadInv
  <2>3. q.file[x].packets \in Nat /\ q.file[x].bits \in Nat
    BY <1>2 DEF SlotType
  <2>4. CASE x # s
    <3>1. (3 * x < q.read + 1 => 3 * x < q.read) /\ (3 * x + 1 < q.read + 1 => 3 * x + 1 < q.read)
          /\ (3 * x + 2 < q.read + 1 => 3 * x + 2 < q.read)
      BY <1>3, <2>1, <2>4
    <3>2. f[x] = q.file[x]
      BY <1>11, <2>4
    <3> QED BY <1>13, <2>2, <2>3, <3>1, <3>2
  <2>5. CASE x = s /\ m = 0
    <3>1. f[x].packets = slots[x].packets /\ ~(3 * x + 1 < q.read + 1) /\ ~(3 * x + 2 < q.read + 1)
      <4>1. row = [q.file[s] EXCEPT !.packets = slots[s].packets]
        BY <1>9, <2>5
      <4>2. row.packets = slots[s].packets
        BY <1>8, <4>1 DEF SlotType
      <4> QED BY <1>3, <1>11, <2>1, <2>5, <4>2
    <3> QED BY <1>13, <3>1
  <2>6. CASE x = s /\ m = 1
    <3>1. f[x].packets = q.file[x].packets /\ f[x].bits = slots[x].bits /\ 3 * x < q.read /\ ~(3 * x + 2 < q.read + 1)
      <4>1. row = [q.file[s] EXCEPT !.bits = slots[s].bits]
        BY <1>9, <2>6
      <4>2. row.bits = slots[s].bits /\ row.packets = q.file[s].packets
        BY <1>8, <4>1 DEF SlotType
      <4> QED BY <1>3, <1>11, <2>1, <2>6, <4>2
    <3> QED BY <1>13, <2>2, <2>3, <3>1
  <2>7. CASE x = s /\ m = 2
    <3>1. f[x].packets = q.file[x].packets /\ f[x].bits = q.file[x].bits /\ f[x].id = slots[x].id
          /\ 3 * x < q.read /\ 3 * x + 1 < q.read
      <4>1. row = [q.file[s] EXCEPT !.id = slots[s].id]
        BY <1>9, <2>7
      <4>2. row.bits = q.file[s].bits /\ row.packets = q.file[s].packets /\ row.id = slots[s].id
        BY <1>8, <4>1 DEF SlotType
      <4> QED BY <1>3, <1>11, <2>1, <2>7, <4>2
    <3> QED BY <1>13, <2>2, <2>3, <3>1
  <2> QED BY <1>3, <2>4, <2>5, <2>6, <2>7
<1>15. N' = N /\ Complete' = Complete /\ tally' = tally /\ counted' = counted
  BY DEF topVars, N, Complete
<1>16. /\ requests' \in Seq(Request) /\ DOMAIN requests' = DOMAIN requests
       /\ \A i \in DOMAIN requests : i # r => requests'[i] = requests[i]
  <2>1. requests' = [requests EXCEPT ![r] = q2]
    BY <1>1, <1>4 DEF q2
  <2> QED BY <1>1, <1>12, <2>1
<1>17. RequestsInv'
  <2> SUFFICES ASSUME NEW i \in DOMAIN requests
               PROVE  /\ requests'[i].began <= Complete
                      /\ requests'[i].ended <= N
                      /\ ReadInv(requests'[i], tally, counted)
    BY <1>15, <1>16 DEF RequestsInv
  <2>1. CASE i = r
    <3>1. requests'[i] = q2
      BY <2>1 DEF q2
    <3> QED BY <1>5, <1>6, <1>12, <1>14, <3>1
  <2>2. CASE i # r
    BY <1>16, <2>2 DEF ProfileInv, RequestsInv
  <2> QED BY <2>1, <2>2
<1>18. \A i : AllRead(i) => requests'[i] = requests[i] /\ AllRead(i)'
  <2>1. ~AllRead(r)
    BY <1>2, SlotsAssumption DEF AllRead, q
  <2> QED BY <1>16, <2>1 DEF AllRead
<1>19. ShownInv'
  BY <1>4, <1>18 DEF ProfileInv, ShownInv
<1> QED BY <1>17, <1>19

LEMMA AnsweredStep ==
  ASSUME ProfileInv, NEW r \in DOMAIN requests, Answered(r), UNCHANGED <<flowVars, topVars, watched>>
  PROVE  RequestsInv' /\ ShownInv'
<1>1. /\ requests[r].read = 3 * NSLOTS
      /\ requests' = [requests EXCEPT ![r] = [requests[r] EXCEPT !.answered = TRUE]]
      /\ prev' = r
      /\ shown' = IF prev = 0 THEN shown
                  ELSE {[rows |-> diff(requests[r].file, requests[prev].file), prev |-> prev, cur |-> r]}
  BY DEF Answered
<1>2. requests \in Seq(Request) /\ \A i \in DOMAIN requests : requests[i] \in Request
  BY DEF ProfileInv, RequestsInv
<1>3. N' = N /\ Complete' = Complete /\ tally' = tally /\ counted' = counted
  BY DEF topVars, N, Complete
<1>4. /\ requests' \in Seq(Request) /\ DOMAIN requests' = DOMAIN requests
      /\ \A i \in DOMAIN requests : /\ requests'[i].read = requests[i].read
                                    /\ requests'[i].file = requests[i].file
                                    /\ requests'[i].began = requests[i].began
                                    /\ requests'[i].ended = requests[i].ended
  <2> DEFINE q == [requests[r] EXCEPT !.answered = TRUE]
  <2>1. q \in Request /\ q.read = requests[r].read /\ q.file = requests[r].file
        /\ q.began = requests[r].began /\ q.ended = requests[r].ended
    BY <1>2 DEF Request
  <2> HIDE DEF q
  <2>2. requests' = [requests EXCEPT ![r] = q]
    BY <1>1 DEF q
  <2> QED BY <1>2, <2>1, <2>2
<1>5. RequestsInv'
  <2> SUFFICES ASSUME NEW i \in DOMAIN requests
               PROVE  /\ requests'[i].began <= Complete
                      /\ requests'[i].ended <= N
                      /\ ReadInv(requests'[i], tally, counted)
    BY <1>3, <1>4 DEF RequestsInv
  <2>1. requests[i].began <= Complete /\ requests[i].ended <= N /\ ReadInv(requests[i], tally, counted)
    BY DEF ProfileInv, RequestsInv
  <2> QED BY <1>4, <2>1, Zenon DEF ReadInv
<1>6. AllRead(r) /\ \A i : AllRead(i) => requests'[i].file = requests[i].file /\ AllRead(i)'
  BY <1>1, <1>4 DEF AllRead
<1>7. prev' # 0 => AllRead(prev)'
  BY <1>1, <1>6 DEF AllRead
<1>8. ASSUME NEW t \in shown'
      PROVE  AllRead(t.prev)' /\ AllRead(t.cur)' /\ t.rows = diff(requests'[t.cur].file, requests'[t.prev].file)
  <2>1. AllRead(t.prev) /\ AllRead(t.cur) /\ t.rows = diff(requests[t.cur].file, requests[t.prev].file)
    <3>1. CASE prev = 0
      BY <1>1, <1>8, <3>1 DEF ProfileInv, ShownInv
    <3>2. CASE prev # 0
      <4>1. t = [rows |-> diff(requests[r].file, requests[prev].file), prev |-> prev, cur |-> r]
        BY <1>1, <1>8, <3>2
      <4>2. t.prev = prev /\ t.cur = r /\ t.rows = diff(requests[r].file, requests[prev].file)
        BY <4>1
      <4>3. AllRead(prev)
        BY <3>2 DEF ProfileInv, ShownInv
      <4> QED BY <1>6, <4>2, <4>3
    <3> QED BY <3>1, <3>2
  <2> QED BY <1>6, <2>1
<1> QED BY <1>5, <1>7, <1>8 DEF ShownInv

LEMMA ProfileInvStep == ProfileInv /\ ProfileNext => ProfileInv'
<1> SUFFICES ASSUME ProfileInv, ProfileNext PROVE ProfileInv'
  OBVIOUS
<1>0. FlowsInv'
  BY FlowsInvStep DEF ProfileInv
<1>1. ASSUME UNCHANGED tableVars, UNCHANGED <<counted, tally, slots, pending>>
      PROVE  TallyInv' /\ SlotsInv' /\ RequestsInv' /\ ShownInv'
  <2>1. N' = N /\ Complete' = Complete /\ \A w : Stored(w)' = Stored(w)
    BY <1>1 DEF N, Complete, Stored
  <2>2. TallyInv' /\ SlotsInv'
    BY <1>1, <2>1 DEF ProfileInv, TallyInv, SlotsInv
  <2>3. RequestsInv' /\ ShownInv'
    BY <1>1, <2>1 DEF ProfileInv, RequestsInv, ShownInv, AllRead, tableVars
  <2> QED BY <2>2, <2>3
<1>2. CASE FlowsStep /\ UNCHANGED <<tableVars, watched>>
  <2>1. UNCHANGED <<counted, tally, slots, pending>>
    BY <1>2 DEF FlowsStep, SplitPush, topVars
  <2>2. scenario' = scenario /\ SentPackets' = SentPackets
    BY <1>2 DEF FlowsStep, SplitPush, Receive, Push, Reload, SentPackets, Sent
  <2>3. path' \in Seq(SentPackets)
    <3>1. ASSUME NEW dir \in Directions, SplitPush(dir) PROVE path' \in Seq(SentPackets)
      <4>1. Head(input[dir]) \in SentPackets
        BY <3>1 DEF SplitPush, Push, ProfileInv, FlowsInv
      <4> QED BY <3>1, <4>1 DEF SplitPush, ProfileInv, CountedInv
    <3>2. CASE UNCHANGED topVars
      BY <3>2 DEF topVars, ProfileInv, CountedInv
    <3> QED BY <1>2, <3>1, <3>2 DEF FlowsStep
  <2>4. CountedInv'
    BY <1>2, <2>1, <2>2, <2>3 DEF ProfileInv, CountedInv, N
  <2> QED BY <1>0, <1>1, <1>2, <2>1, <2>4 DEF ProfileInv
<1>3. CASE TopStep /\ UNCHANGED <<flowVars, tableVars, watched>>
  <2>1. CountedInv' /\ TallyInv' /\ SlotsInv' /\ RequestsInv'
    BY <1>3, TopPushStep, StoreStep DEF TopStep
  <2>2. ShownInv'
    BY <1>3 DEF ProfileInv, ShownInv, AllRead, tableVars
  <2> QED BY <1>0, <2>1, <2>2 DEF ProfileInv
<1>4. CASE PageStep /\ UNCHANGED <<flowVars, topVars, watched>>
  <2>1. RequestsInv' /\ ShownInv'
    BY <1>4, RefreshStep, ReadStep, AnsweredStep DEF PageStep
  <2>2. N' = N /\ \A w : Stored(w)' = Stored(w)
    BY <1>4 DEF topVars, N, Stored
  <2>3. SentPackets' = SentPackets
    BY <1>4 DEF flowVars, SentPackets, Sent
  <2>4. CountedInv'
    <3>1. watched' = watched /\ path' = path /\ counted' = counted /\ pending' = pending
      BY <1>4 DEF topVars
    <3>2. CountedInv
      BY DEF ProfileInv
    <3> QED BY <2>2, <2>3, <3>1, <3>2, Zenon DEF CountedInv
  <2>5. TallyInv'
    BY <1>4, <2>2, <2>3 DEF topVars, flowVars, ProfileInv, TallyInv
  <2>6. SlotsInv'
    BY <1>4, <2>2, <2>3 DEF topVars, flowVars, ProfileInv, SlotsInv
  <2> QED BY <1>0, <2>1, <2>4, <2>5, <2>6 DEF ProfileInv
<1> QED BY <1>2, <1>3, <1>4 DEF ProfileNext

LEMMA ProfileInvariant == ProfileSpec => []ProfileInv
<1>1. ProfileInit => ProfileInv
  <2> SUFFICES ASSUME ProfileInit PROVE ProfileInv
    OBVIOUS
  <2>1. FlowsInv
    <3>1. traffic \in Seq(Sent)
      BY SentTypes DEF ProfileInit, FlowsInit
    <3> QED BY <3>1 DEF ProfileInit, FlowsInit, FlowsInv
  <2>2. N = 0 /\ DOMAIN counted = {}
    BY DEF ProfileInit, N
  <2>3. CountedInv
    BY <2>2 DEF ProfileInit, CountedInv
  <2>4. TallyInv
    <3>1. tally = [k \in 0..0 |-> [s \in Slots |-> [packets |-> 0, bits |-> 0]]]
      BY DEF ProfileInit
    <3> QED BY <2>2, <3>1 DEF TallyInv
  <2>5. SlotsInv
    <3>1. \A w : Stored(w) = 0
      BY <2>2 DEF Stored, ProfileInit
    <3>2. tally[0] = [s \in Slots |-> [packets |-> 0, bits |-> 0]]
      BY DEF ProfileInit
    <3>3. slots = [s \in Slots |-> Unused] /\ Unused \in SlotType
      BY DEF ProfileInit, Unused, SlotType, NoTuple, Ids
    <3> QED BY <3>1, <3>2, <3>3 DEF SlotsInv, MayHave, Unused
  <2>6. RequestsInv /\ ShownInv
    BY DEF ProfileInit, RequestsInv, ShownInv
  <2> QED BY <2>1, <2>3, <2>4, <2>5, <2>6 DEF ProfileInv
<1>2. ProfileInv /\ [ProfileNext]_profileVars => ProfileInv'
  <2> SUFFICES ASSUME ProfileInv, UNCHANGED profileVars PROVE ProfileInv'
    BY ProfileInvStep
  <2>1. FlowsInv'
    BY DEF profileVars, flowVars, ProfileInv, FlowsInv, Sent, SentPackets
  <2>2. N' = N /\ Complete' = Complete /\ \A w : Stored(w)' = Stored(w)
    BY DEF profileVars, topVars, N, Complete, Stored
  <2>3. CountedInv' /\ TallyInv' /\ SlotsInv'
    BY <2>2 DEF profileVars, topVars, flowVars, ProfileInv, CountedInv, TallyInv, SlotsInv, SentPackets, Sent
  <2>4. RequestsInv' /\ ShownInv'
    BY <2>2 DEF profileVars, topVars, tableVars, ProfileInv, RequestsInv, ShownInv, AllRead
  <2> QED BY <2>1, <2>3, <2>4 DEF ProfileInv
<1> QED BY <1>1, <1>2, PTL DEF ProfileSpec

LEMMA MaxOfOne == ASSUME NEW i \in Int PROVE Max({i}) = i
<1>1. i \in {i} /\ \A y \in {i} : i >= y
  BY SMT
<1> QED BY <1>1, Zenon DEF Max

\* What a snapshot says, slot by slot.
LEMMA Snapshot ==
  ASSUME ProfileInv, NEW r, AllRead(r), NEW s \in Slots
  PROVE  LET q == requests[r]
         IN /\ q.began \in 0..N /\ q.ended \in 0..N
            /\ q.file[s].packets \in Nat /\ q.file[s].bits \in Nat
            /\ tally[q.began][s].packets <= q.file[s].packets /\ q.file[s].packets <= tally[q.ended][s].packets
            /\ tally[q.began][s].bits <= q.file[s].bits /\ q.file[s].bits <= tally[q.ended][s].bits
            /\ MayHave(q.file[s].id, s, q.began, tally, counted)
<1> DEFINE q == requests[r]
<1>1. q \in Request /\ q.began <= Complete /\ q.ended <= N /\ ReadInv(q, tally, counted) /\ q.read = 3 * NSLOTS
  BY DEF ProfileInv, RequestsInv, AllRead
<1> HIDE DEF q
<1>2. Complete \in 0..N /\ N \in Nat
  BY TypesOfN DEF ProfileInv
<1>3. q.began \in 0..N /\ q.ended \in 0..N
  BY <1>1, <1>2 DEF Request
<1>4. 3 * s < q.read /\ 3 * s + 1 < q.read /\ 3 * s + 2 < q.read
  BY <1>1, SlotsAssumption DEF Slots
<1>5. q.file[s].packets \in Nat /\ q.file[s].bits \in Nat
  BY <1>1 DEF Request, SlotType
<1> QED BY <1>1, <1>3, <1>4, <1>5 DEF ReadInv, q

\* A flow is only ever in its slot.
LEMMA ParsedIs ==
  ASSUME ProfileInv, NEW r, AllRead(r), NEW id, id # NoTuple, flow_slot(id) \in Slots
  PROVE  LET f == requests[r].file
             x == flow_slot(id)
         IN /\ id \in ParsedIds(f) <=> f[x].id = id /\ f[x].packets > 0
            /\ id \in ParsedIds(f) => Parsed(f, id) = f[x]
<1> DEFINE f == requests[r].file
           x == flow_slot(id)
           S == {s \in ParsedSlots(f) : f[s].id = id}
<1>1. \A s \in Slots : f[s].id = id => s = x
  <2> TAKE s \in Slots
  <2>1. MayHave(f[s].id, s, requests[r].began, tally, counted)
    BY Snapshot
  <2> QED BY <2>1 DEF MayHave
<1>2. id \in ParsedIds(f) <=> f[x].id = id /\ f[x].packets > 0
  BY <1>1 DEF ParsedIds, ParsedSlots
<1>3. ASSUME id \in ParsedIds(f) PROVE Parsed(f, id) = f[x]
  <2>1. S = {x}
    BY <1>1, <1>2, <1>3 DEF ParsedSlots
  <2>2. Max(S) = x
    BY <2>1, MaxOfOne DEF Slots
  <2> QED BY <2>2 DEF Parsed
<1> QED BY <1>2, <1>3

\* What a row of the table says.
LEMMA RowsOfDiff ==
  ASSUME NEW f, NEW g, NEW id
  PROVE  LET a == Parsed(f, id)
             b == Parsed(g, id)
         IN /\ \A d \in diff(f, g) : d.id = id =>
                 /\ id \in ParsedIds(f) /\ id \in ParsedIds(g)
                 /\ d.packets = a.packets - b.packets /\ d.bits = a.bits - b.bits
            /\ /\ id \in ParsedIds(f) /\ id \in ParsedIds(g)
               /\ a.packets - b.packets > 0 /\ a.bits - b.bits > 0
               => \E d \in diff(f, g) : d.id = id /\ d.packets = a.packets - b.packets /\ d.bits = a.bits - b.bits
<1> DEFINE a == Parsed(f, id)
           b == Parsed(g, id)
           delta(i) == [id |-> i, packets |-> Parsed(f, i).packets - Parsed(g, i).packets,
                        bits |-> Parsed(f, i).bits - Parsed(g, i).bits]
           D == {delta(i) : i \in ParsedIds(f) \cap ParsedIds(g)}
<1>1. diff(f, g) = {d \in D : d.packets > 0 /\ d.bits > 0}
  BY DEF diff
<1>2. \A i : delta(i).id = i /\ delta(i).packets = Parsed(f, i).packets - Parsed(g, i).packets
             /\ delta(i).bits = Parsed(f, i).bits - Parsed(g, i).bits
  OBVIOUS
<1>3. ASSUME NEW d \in diff(f, g), d.id = id
      PROVE  /\ id \in ParsedIds(f) /\ id \in ParsedIds(g)
             /\ d.packets = a.packets - b.packets /\ d.bits = a.bits - b.bits
  <2>1. PICK i \in ParsedIds(f) \cap ParsedIds(g) : d = delta(i)
    BY <1>1, <1>3
  <2> HIDE DEF delta
  <2>2. i = id
    BY <1>2, <1>3, <2>1
  <2> QED BY <1>2, <2>1, <2>2
<1>4. ASSUME id \in ParsedIds(f), id \in ParsedIds(g), a.packets - b.packets > 0, a.bits - b.bits > 0
      PROVE  \E d \in diff(f, g) : d.id = id /\ d.packets = a.packets - b.packets /\ d.bits = a.bits - b.bits
  <2>1. delta(id) \in D
    BY <1>4
  <2> HIDE DEF delta, D
  <2>2. delta(id).id = id /\ delta(id).packets = a.packets - b.packets /\ delta(id).bits = a.bits - b.bits
    BY <1>2, <1>4
  <2>3. delta(id) \in diff(f, g)
    BY <1>1, <1>4, <2>1, <2>2
  <2> QED BY <2>2, <2>3
<1> QED BY <1>3, <1>4

\* The table shows traffic that there was, however the words of a slot are torn,
\* answers overtake each other and flows collide (flow.rs: Top, client.js: Profile,
\* ui.js: refreshTable).
THEOREM TableShowsTraffic == ProfileSpec => []RowsAreTraffic
<1>1. ProfileInv => RowsAreTraffic
  <2> SUFFICES ASSUME ProfileInv, NEW t \in shown, NEW k \in DOMAIN counted,
                      NEW id, id = counted[k].id, id # NoTuple
               PROVE  LET p == requests[t.prev]
                          c == requests[t.cur]
                          rows == {d \in t.rows : d.id = id}
                      IN /\ \A d \in rows : /\ d.packets <= PacketsBetween(id, p.began, c.ended)
                                            /\ d.bits <= BitsBetween(id, p.began, c.ended)
                         /\ Alone(id) /\ PacketsBetween(id, 0, p.began) > 0 /\ PacketsBetween(id, p.ended, c.began) > 0 =>
                              \E d \in rows : /\ d.packets >= PacketsBetween(id, p.ended, c.began)
                                              /\ d.bits >= BitsBetween(id, p.ended, c.began)
    BY DEF RowsAreTraffic
  <2> DEFINE p == requests[t.prev]
             c == requests[t.cur]
             x == flow_slot(id)
             P(n) == tally[n][x].packets
             B(n) == tally[n][x].bits
             a == c.file[x]
             b == p.file[x]
  <2>1. AllRead(t.prev) /\ AllRead(t.cur) /\ t.rows = diff(c.file, p.file)
    BY DEF ProfileInv, ShownInv
  <2>2. x \in Slots
    BY DEF ProfileInv, CountedInv
  <2>3. /\ p.began \in 0..N /\ p.ended \in 0..N /\ b.packets \in Nat /\ b.bits \in Nat
        /\ P(p.began) <= b.packets /\ b.packets <= P(p.ended)
        /\ B(p.began) <= b.bits /\ b.bits <= B(p.ended)
        /\ MayHave(b.id, x, p.began, tally, counted)
    BY <2>1, <2>2, Snapshot
  <2>4. /\ c.began \in 0..N /\ c.ended \in 0..N /\ a.packets \in Nat /\ a.bits \in Nat
        /\ P(c.began) <= a.packets /\ a.packets <= P(c.ended)
        /\ B(c.began) <= a.bits /\ a.bits <= B(c.ended)
        /\ MayHave(a.id, x, c.began, tally, counted)
    BY <2>1, <2>2, Snapshot
  <2>5. \A n \in 0..N : P(n) \in Nat /\ B(n) \in Nat
    BY <2>2 DEF ProfileInv, TallyInv
  <2>6. \A i, j \in 0..N : P(i) < P(j) => B(i) < B(j)
    BY <2>2 DEF ProfileInv, TallyInv
  <2>7. /\ id \in ParsedIds(p.file) <=> b.id = id /\ b.packets > 0
        /\ id \in ParsedIds(p.file) => Parsed(p.file, id) = b
    BY <2>1, <2>2, ParsedIs
  <2>8. /\ id \in ParsedIds(c.file) <=> a.id = id /\ a.packets > 0
        /\ id \in ParsedIds(c.file) => Parsed(c.file, id) = a
    BY <2>1, <2>2, ParsedIs
  <2>9. \A i, j : PacketsBetween(id, i, j) = P(j) - P(i) /\ BitsBetween(id, i, j) = B(j) - B(i)
    BY DEF PacketsBetween, BitsBetween
  <2> HIDE DEF p, c, a, b, P, B
  <2>10. /\ \A d \in t.rows : d.id = id => d.packets = a.packets - b.packets /\ d.bits = a.bits - b.bits
         /\ /\ id \in ParsedIds(c.file) /\ id \in ParsedIds(p.file)
            /\ a.packets - b.packets > 0 /\ a.bits - b.bits > 0
            => \E d \in t.rows : d.id = id /\ d.packets = a.packets - b.packets /\ d.bits = a.bits - b.bits
    <3> DEFINE F == c.file
               G == p.file
               A == Parsed(F, id)
               Z == Parsed(G, id)
    <3>1. \A d \in diff(F, G) : d.id = id =>
            /\ id \in ParsedIds(F) /\ id \in ParsedIds(G)
            /\ d.packets = A.packets - Z.packets /\ d.bits = A.bits - Z.bits
      BY RowsOfDiff
    <3>2. /\ id \in ParsedIds(F) /\ id \in ParsedIds(G)
          /\ A.packets - Z.packets > 0 /\ A.bits - Z.bits > 0
          => \E d \in diff(F, G) : d.id = id /\ d.packets = A.packets - Z.packets /\ d.bits = A.bits - Z.bits
      BY RowsOfDiff
    <3>3. (id \in ParsedIds(F) => A = a) /\ (id \in ParsedIds(G) => Z = b)
      BY <2>7, <2>8
    <3> HIDE DEF A, Z
    <3> QED BY <2>1, <3>1, <3>2, <3>3
  <2>11. ASSUME NEW d \in t.rows, d.id = id
         PROVE  d.packets <= P(c.ended) - P(p.began) /\ d.bits <= B(c.ended) - B(p.began)
    <3>1. d.packets = a.packets - b.packets /\ d.bits = a.bits - b.bits
      BY <2>10, <2>11
    <3>2. P(c.ended) \in Nat /\ P(p.began) \in Nat /\ B(c.ended) \in Nat /\ B(p.began) \in Nat
      BY <2>3, <2>4, <2>5
    <3> QED BY <2>3, <2>4, <3>1, <3>2
  <2>12. ASSUME Alone(id), P(p.began) - P(0) > 0, P(c.began) - P(p.ended) > 0
         PROVE  \E d \in t.rows : /\ d.id = id
                                  /\ d.packets >= P(c.began) - P(p.ended)
                                  /\ d.bits >= B(c.began) - B(p.ended)
    <3>1. /\ P(c.began) \in Nat /\ P(p.began) \in Nat /\ B(c.began) \in Nat /\ B(p.began) \in Nat
          /\ P(p.ended) \in Nat /\ B(p.ended) \in Nat /\ P(0) \in Nat
      <4>1. 0 \in 0..N
        BY TypesOfN DEF ProfileInv
      <4> QED BY <2>3, <2>4, <2>5, <4>1
    <3>2. P(p.began) > 0 /\ P(c.began) > 0 /\ P(p.ended) < P(c.began)
      BY <2>12, <3>1
    <3>3. B(p.ended) < B(c.began)
      BY <2>3, <2>4, <2>6, <3>2
    <3>4. \A i \in DOMAIN counted : x = flow_slot(counted[i].id) => counted[i].id = id
      BY <2>12 DEF Alone
    <3>5. tally[p.began][x].packets # 0 /\ tally[c.began][x].packets # 0
      BY <3>1, <3>2 DEF P
    <3>6. b.id = id
      BY <2>3, <3>4, <3>5 DEF MayHave
    <3>7. a.id = id
      BY <2>4, <3>4, <3>5 DEF MayHave
    <3>8. id \in ParsedIds(c.file) /\ id \in ParsedIds(p.file)
      BY <2>3, <2>4, <2>7, <2>8, <3>1, <3>2, <3>6, <3>7
    <3>9. a.packets - b.packets > 0 /\ a.bits - b.bits > 0
          /\ a.packets - b.packets >= P(c.began) - P(p.ended) /\ a.bits - b.bits >= B(c.began) - B(p.ended)
      BY <2>3, <2>4, <3>1, <3>2, <3>3
    <3>10. PICK d \in t.rows : d.id = id /\ d.packets = a.packets - b.packets /\ d.bits = a.bits - b.bits
      BY <2>10, <3>8, <3>9
    <3> QED BY <3>9, <3>10
  <2> QED BY <2>9, <2>11, <2>12 DEF p, c
<1> QED BY <1>1, ProfileInvariant, PTL

-----------------------------------------------------------------------------
(* The clients and the control page: the invariant.                        *)

FlowRec == [label : Label, val : Value]
SpecType == [default : Value, flows : Seq(FlowRec)]
Entry == [label : Label, val : Value, tabled : BOOLEAN]
NetType == [default : Value, list : Seq(Entry), detached : SUBSET Label]

ClientTypes ==
  /\ net \in [Client -> NetType]
  /\ ids \in Nat /\ base \in [Client -> 0..ids]
  /\ file.id \in 1..ids /\ file.spec \in SpecType
  /\ \A r \in posts : r.id \in 1..ids /\ r.parent \in 0..(r.id - 1) /\ r.spec \in SpecType
  /\ \A g \in gets : g.to \in Page /\ g.id \in 1..ids /\ g.spec \in SpecType
  /\ DOMAIN edits = Client
  /\ widgets \in [Page -> SpecType]
  /\ typed \in [Page -> Label \cup {Absent}]

\* The views of a page always agree, as it only ever updates its SyntheticNetwork.
ViewsInv ==
  /\ \A p \in Page : Consistent(net[p])
  /\ ~misspliced => /\ \A c \in Script : Consistent(net[c])
                    /\ ~Throws(file.spec)
                    /\ \A r \in posts : ~Throws(r.spec)
                    /\ \A g \in gets : ~Throws(g.spec)

\* POSTs are numbered in the order they are sent.  As long as none was written over
\* something it does not derive from, those after the file's are under way.
OrderInv ==
  /\ \A r, q \in posts : r.id = q.id => r = q
  /\ ~raced => \A k \in (file.id + 1)..ids : \E r \in posts : r.id = k

\* From the second widget of a label on, all are of edits yet to be sent.
TailEdited(fl, E) ==
  \A i, j \in DOMAIN fl : i < j /\ fl[i].label = fl[j].label =>
    \A k \in DOMAIN fl : k >= j => fl[k].label \in E

PageInv == ~misspliced => \A p \in Page : TailEdited(widgets[p].flows, DOMAIN edits[p])

\* As said, or as a slider rounds it.
Close(x, l) == x = l \/ (l \in Value /\ x = Snap[l])

\* A spec, a script's object and a page's object and widgets say what was said last,
\* but for the edits E yet to be sent.
Agrees(spec, la) == \A t \in Target : Close(Says(spec, t), la[t])
ScriptAgrees(n, E, la) ==
  \A t \in Target : IF t \in DOMAIN E THEN Says(config(n), t) = E[t] ELSE Close(Says(config(n), t), la[t])
PageAgrees(n, w, E, la) ==
  \A t \in Target \ DOMAIN E : Close(Says(w, t), la[t]) /\ Close(Says(config(n), t), la[t])

\* Every POST under way derives from the one before it, and the first from the file.
Clean == ~raced /\ ~misspliced /\ \A r \in posts : r.parent = r.id - 1 /\ r.id > file.id

EditsInv ==
  Clean => /\ file.id = ids => Agrees(file.spec, last)
           /\ \A r \in posts : r.id = ids => Agrees(r.spec, last)
           /\ \A g \in gets : g.id = ids => Agrees(g.spec, last)
           /\ \A c \in Script : base[c] = ids => ScriptAgrees(net[c], edits[c], last)
           /\ \A p \in Page : base[p] = ids => PageAgrees(net[p], widgets[p], edits[p], last)

ClientInv == ClientTypes /\ ViewsInv /\ OrderInv /\ PageInv /\ EditsInv

-----------------------------------------------------------------------------
(* Lists of flows.                                                         *)

LEMMA GreatestExists ==
  ASSUME NEW n \in Nat, NEW I, I \subseteq 0..n, I # {}
  PROVE  Max(I) \in I /\ \A i \in I : i <= Max(I)
<1> DEFINE J == {n - i : i \in I}
<1>1. J \subseteq Nat /\ J # {}
  <2>1. \A i \in I : n - i \in Nat
    BY SMT
  <2> QED BY <2>1, Zenon
<1>2. Min(J) \in J /\ \A j \in J : Min(J) <= j
  BY <1>1, LeastExists
<1>3. PICK x \in I : Min(J) = n - x
  BY <1>2
<1>4. \A y \in I : x >= y
  <2> TAKE y \in I
  <2>1. n - x <= n - y
    BY <1>2, <1>3
  <2> QED BY <2>1, SMT
<1>5. Max(I) \in I /\ \A y \in I : Max(I) >= y
  BY <1>4, Zenon DEF Max
<1> QED BY <1>5, SMT

LEMMA InList == ASSUME NEW S, NEW s \in Seq(S), NEW i \in 1..Len(s) PROVE s[i] \in S
OBVIOUS

LEMMA FlowsOf ==
  ASSUME NEW fl \in Seq(FlowRec)
  PROVE  /\ Len(fl) \in Nat /\ DOMAIN fl = 1..Len(fl)
         /\ \A i \in 1..Len(fl) : fl[i] \in FlowRec /\ fl[i].label \in Label /\ fl[i].val \in Value
<1>1. \A i \in 1..Len(fl) : fl[i] \in FlowRec
  BY InList
<1>2. \A i \in 1..Len(fl) : fl[i].label \in Label /\ fl[i].val \in Value
  BY <1>1 DEF FlowRec
<1> QED BY <1>1, <1>2

LEMMA NetIs ==
  ASSUME NEW n \in NetType
  PROVE  /\ n.default \in Value /\ n.detached \in SUBSET Label
         /\ n.list \in Seq(Entry) /\ Len(n.list) \in Nat /\ DOMAIN n.list = 1..Len(n.list)
         /\ \A i \in 1..Len(n.list) : /\ n.list[i] \in Entry /\ n.list[i].label \in Label
                                      /\ n.list[i].val \in Value /\ n.list[i].tabled \in BOOLEAN
<1>1. n.default \in Value /\ n.detached \in SUBSET Label /\ n.list \in Seq(Entry)
  BY DEF NetType
<1>2. \A i \in 1..Len(n.list) : n.list[i] \in Entry
  BY <1>1, InList
<1>3. \A i \in 1..Len(n.list) : n.list[i].label \in Label /\ n.list[i].val \in Value /\ n.list[i].tabled \in BOOLEAN
  BY <1>2 DEF Entry
<1> QED BY <1>1, <1>2, <1>3

LEMMA LabelsAre ==
  ASSUME NEW S, NEW fl \in Seq(S)
  PROVE  /\ Labels(fl) = [i \in 1..Len(fl) |-> fl[i].label]
         /\ DOMAIN Labels(fl) = 1..Len(fl) /\ Len(Labels(fl)) = Len(fl)
         /\ Len(fl) \in Nat
         /\ IsInjective(Labels(fl)) <=> \A i, j \in 1..Len(fl) : fl[i].label = fl[j].label => i = j
<1>1. DOMAIN fl = 1..Len(fl) /\ Len(fl) \in Nat
  OBVIOUS
<1>2. Labels(fl) = [i \in 1..Len(fl) |-> fl[i].label]
  BY <1>1 DEF Labels
<1>3. DOMAIN Labels(fl) = 1..Len(fl)
  BY <1>2
<1>4. Len(Labels(fl)) = Len(fl)
  BY <1>1, <1>2
<1>5. IsInjective(Labels(fl)) <=> \A i, j \in 1..Len(fl) : fl[i].label = fl[j].label => i = j
  BY <1>2 DEF IsInjective
<1> QED BY <1>1, <1>2, <1>3, <1>4, <1>5

\* Where a label is.
LEMMA FlowAtIs ==
  ASSUME NEW w, w.flows \in Seq(FlowRec), NEW l
  PROVE  \/ FlowAt(w, l) = 0 /\ \A i \in 1..Len(w.flows) : w.flows[i].label # l
         \/ /\ FlowAt(w, l) \in 1..Len(w.flows) /\ w.flows[FlowAt(w, l)].label = l
            /\ \A i \in 1..(FlowAt(w, l) - 1) : w.flows[i].label # l
<1> DEFINE fl == w.flows
           e == Labels(fl)
           I == {i \in 1..Len(e) : e[i] = l}
           k == IF I # {} THEN Min(I) ELSE 0
<1>1. FlowAt(w, l) = k
  BY DEF FlowAt, SelectInSeq
<1>2. Len(e) = Len(fl) /\ Len(fl) \in Nat /\ \A i \in 1..Len(fl) : e[i] = fl[i].label
  BY LabelsAre
<1> HIDE DEF e
<1>3. \/ k = 0 /\ I = {}
      \/ k \in I /\ k # 0 /\ \A j \in 1..(k - 1) : j \notin I
  <2> I \subseteq 1..Len(e) /\ Len(e) \in Nat
    BY <1>2
  <2> HIDE DEF I
  <2> QED BY FirstInSeq
<1>4. CASE k = 0 /\ I = {}
  BY <1>1, <1>2, <1>4
<1>5. CASE k \in I /\ k # 0 /\ \A j \in 1..(k - 1) : j \notin I
  <2> HIDE DEF k
  <2>1. k \in 1..Len(fl) /\ fl[k].label = l
    BY <1>2, <1>5
  <2>2. \A j \in 1..(k - 1) : fl[j].label # l
    <3> TAKE j \in 1..(k - 1)
    <3>1. j \in 1..Len(fl) /\ j \notin I
      BY <1>2, <1>5, <2>1
    <3> QED BY <1>2, <3>1
  <2> QED BY <1>1, <2>1, <2>2
<1> QED BY <1>3, <1>4, <1>5

\* What is said of a label is what its first flow has.
LEMMA SaysIs ==
  ASSUME NEW w, w.flows \in Seq(FlowRec), NEW t, t # Default
  PROVE  /\ \A i \in 1..Len(w.flows) :
              w.flows[i].label = t /\ (\A j \in 1..(i - 1) : w.flows[j].label # t)
              => FlowAt(w, t) = i /\ Says(w, t) = w.flows[i].val
         /\ (\A i \in 1..Len(w.flows) : w.flows[i].label # t) <=> FlowAt(w, t) = 0
         /\ FlowAt(w, t) = 0 => Says(w, t) = Absent
         /\ FlowAt(w, t) # 0 => Says(w, t) = w.flows[FlowAt(w, t)].val
<1> DEFINE k == FlowAt(w, t)
<1>1. \/ k = 0 /\ \A i \in 1..Len(w.flows) : w.flows[i].label # t
      \/ /\ k \in 1..Len(w.flows) /\ w.flows[k].label = t
         /\ \A i \in 1..(k - 1) : w.flows[i].label # t
  BY FlowAtIs
<1>2. Says(w, t) = IF k = 0 THEN Absent ELSE w.flows[k].val
  BY DEF Says
<1> HIDE DEF k
<1>3. ASSUME NEW i \in 1..Len(w.flows), w.flows[i].label = t, \A j \in 1..(i - 1) : w.flows[j].label # t
      PROVE  k = i
  <2>1. k \in 1..Len(w.flows) /\ w.flows[k].label = t /\ \A j \in 1..(k - 1) : w.flows[j].label # t
    BY <1>1, <1>3
  <2>2. Len(w.flows) \in Nat
    OBVIOUS
  <2>3. ~(k \in 1..(i - 1)) /\ ~(i \in 1..(k - 1))
    BY <1>3, <2>1
  <2> QED BY <2>1, <2>2, <2>3
<1>4. k \in 1..Len(w.flows) => k # 0
  OBVIOUS
<1> QED BY <1>1, <1>2, <1>3, <1>4 DEF k

LEMMA SaysType ==
  ASSUME NEW w \in SpecType, NEW t \in Target
  PROVE  Says(w, t) \in Value \cup {Absent} /\ (t # Default /\ FlowAt(w, t) = 0 <=> Says(w, t) = Absent)
<1>1. w.flows \in Seq(FlowRec) /\ w.default \in Value
  BY DEF SpecType
<1>2. CASE t = Default
  BY <1>1, <1>2, NamesAssumption DEF Says
<1>3. CASE t # Default
  <2>1. CASE FlowAt(w, t) = 0
    BY <1>1, <1>3, <2>1, SaysIs
  <2>2. CASE FlowAt(w, t) # 0
    <3>1. FlowAt(w, t) \in 1..Len(w.flows) /\ Says(w, t) = w.flows[FlowAt(w, t)].val
      BY <1>1, <1>3, <2>2, SaysIs, FlowAtIs
    <3>2. w.flows[FlowAt(w, t)] \in FlowRec
      BY <1>1, <3>1
    <3>3. Says(w, t) \in Value
      BY <3>1, <3>2 DEF FlowRec
    <3> QED BY <2>2, <3>3, NamesAssumption
  <2> QED BY <2>1, <2>2
<1> QED BY <1>2, <1>3

LEMMA RemoveAtIs ==
  ASSUME NEW S, NEW s \in Seq(S), NEW k \in 1..Len(s)
  PROVE  /\ RemoveAt(s, k) \in Seq(S) /\ Len(RemoveAt(s, k)) = Len(s) - 1
         /\ \A i \in 1..(Len(s) - 1) : RemoveAt(s, k)[i] = IF i < k THEN s[i] ELSE s[i + 1]
<1> DEFINE a == SubSeq(s, 1, k - 1)
           b == SubSeq(s, k + 1, Len(s))
<1>1. RemoveAt(s, k) = a \o b
  BY DEF RemoveAt
<1>2. a \in Seq(S) /\ Len(a) = k - 1 /\ \A i \in 1..(k - 1) : a[i] = s[i]
  BY SMT
<1>3. b \in Seq(S) /\ Len(b) = Len(s) - k /\ \A i \in 1..(Len(s) - k) : b[i] = s[k + i]
  BY SMT
<1> HIDE DEF a, b
<1>4. Len(s) \in Nat
  OBVIOUS
<1>5. a \o b \in Seq(S) /\ Len(a \o b) = Len(s) - 1
  <2>1. a \in Seq(S) /\ b \in Seq(S)
    BY <1>2, <1>3
  <2>2. a \o b \in Seq(S) /\ Len(a \o b) = Len(a) + Len(b)
    BY <2>1
  <2> QED BY <1>2, <1>3, <1>4, <2>2
<1>6. ASSUME NEW i \in 1..(Len(s) - 1) PROVE (a \o b)[i] = IF i < k THEN s[i] ELSE s[i + 1]
  <2>1. CASE i < k
    BY <1>2, <1>3, <1>4, <2>1
  <2>2. CASE ~(i < k)
    <3>1. (a \o b)[i] = b[i - Len(a)]
      BY <1>2, <1>3, <1>4, <2>2
    <3>2. i - Len(a) \in 1..(Len(s) - k) /\ k + (i - Len(a)) = i + 1
      BY <1>2, <1>4, <2>2
    <3> QED BY <1>3, <2>2, <3>1, <3>2
  <2> QED BY <2>1, <2>2
<1> QED BY <1>1, <1>5, <1>6

\* Where the flow of the table is in the list.
LEMMA FindIndexIs ==
  ASSUME NEW n \in NetType, NEW l
  PROVE  \/ FindIndex(n, l) = 0 /\ \A i \in 1..Len(n.list) : ~(n.list[i].label = l /\ n.list[i].tabled)
         \/ FindIndex(n, l) \in 1..Len(n.list) /\ n.list[FindIndex(n, l)].label = l
<1> DEFINE fl == n.list
           I == {i \in 1..Len(fl) : fl[i].label = l /\ fl[i].tabled}
           k == IF I # {} THEN Min(I) ELSE 0
<1>1. FindIndex(n, l) = k
  BY DEF FindIndex, SelectInSeq
<1>2. Len(fl) \in Nat
  BY NetIs
<1>3. \/ k = 0 /\ I = {}
      \/ k \in I /\ k # 0 /\ \A j \in 1..(k - 1) : j \notin I
  <2> I \subseteq 1..Len(fl) /\ Len(fl) \in Nat
    BY <1>2
  <2> HIDE DEF I
  <2> QED BY FirstInSeq
<1> HIDE DEF k
<1> QED BY <1>1, <1>3

\* What update adds: all, or what comes before a second flow of a label.
LEMMA AddedIs ==
  ASSUME NEW fl \in Seq(FlowRec)
  PROVE  \E m \in 0..Len(fl) :
           /\ DOMAIN Added(fl) = 1..m
           /\ \A i, j \in 1..m : fl[i].label = fl[j].label => i = j
           /\ m < Len(fl) => \E i \in 1..m : fl[i].label = fl[m + 1].label
           /\ IsInjective(Labels(fl)) => m = Len(fl)
<1> DEFINE I == {i \in 0..Len(fl) : IsInjective(Labels(SubSeq(fl, 1, i)))}
           m == Max(I)
<1>0. Len(fl) \in Nat
  OBVIOUS
<1>1. ASSUME NEW k \in 0..Len(fl)
      PROVE  /\ SubSeq(fl, 1, k) \in Seq(FlowRec) /\ Len(SubSeq(fl, 1, k)) = k
             /\ \A i \in 1..k : SubSeq(fl, 1, k)[i] = fl[i]
  BY <1>0
<1>2. ASSUME NEW k \in 0..Len(fl)
      PROVE  k \in I <=> \A i, j \in 1..k : fl[i].label = fl[j].label => i = j
  <2> DEFINE s == SubSeq(fl, 1, k)
  <2>1. s \in Seq(FlowRec) /\ Len(s) = k /\ \A i \in 1..k : s[i] = fl[i]
    BY <1>1
  <2> HIDE DEF s
  <2>2. IsInjective(Labels(s)) <=> \A i, j \in 1..k : s[i].label = s[j].label => i = j
    BY <2>1, LabelsAre
  <2>3. k \in I <=> IsInjective(Labels(s))
    BY DEF s
  <2> QED BY <2>1, <2>2, <2>3
<1>3. 0 \in I
  BY <1>0, <1>2
<1>4. m \in I /\ \A i \in I : i <= m
  <2>1. I \subseteq 0..Len(fl) /\ I # {}
    BY <1>3
  <2> HIDE DEF I
  <2> QED BY <1>0, <2>1, GreatestExists
<1>5. m \in 0..Len(fl)
  BY <1>4
<1>6. Added(fl) = SubSeq(fl, 1, m)
  BY DEF Added
<1> HIDE DEF m
<1>7. DOMAIN Added(fl) = 1..m
  BY <1>1, <1>5, <1>6
<1>8. \A i, j \in 1..m : fl[i].label = fl[j].label => i = j
  BY <1>2, <1>4, <1>5
<1>9. ASSUME m < Len(fl) PROVE \E i \in 1..m : fl[i].label = fl[m + 1].label
  <2>1. m + 1 \in 0..Len(fl) /\ m + 1 \notin I
    BY <1>0, <1>4, <1>5, <1>9
  <2>2. PICK i \in 1..(m + 1), j \in 1..(m + 1) : fl[i].label = fl[j].label /\ i # j
    BY <1>2, <2>1
  <2>3. CASE i = m + 1
    BY <1>5, <2>2, <2>3
  <2>4. CASE j = m + 1
    BY <1>5, <2>2, <2>4
  <2>5. CASE i # m + 1 /\ j # m + 1
    <3>1. i \in 1..m /\ j \in 1..m
      BY <1>5, <2>5
    <3> QED BY <1>8, <2>2, <3>1
  <2> QED BY <2>3, <2>4, <2>5
<1>10. ASSUME IsInjective(Labels(fl)) PROVE m = Len(fl)
  <2>1. \A i, j \in 1..Len(fl) : fl[i].label = fl[j].label => i = j
    BY <1>10, LabelsAre
  <2>2. Len(fl) \in I
    BY <1>0, <1>2, <2>1
  <2> QED BY <1>0, <1>4, <1>5, <2>2
<1> QED BY <1>5, <1>7, <1>8, <1>9, <1>10

LEMMA ConfigIs ==
  ASSUME NEW n \in NetType
  PROVE  /\ config(n) \in SpecType /\ config(n).default = n.default
         /\ Len(config(n).flows) = Len(n.list) /\ Len(n.list) \in Nat
         /\ \A i \in 1..Len(n.list) : config(n).flows[i].label = n.list[i].label
                                      /\ config(n).flows[i].val = n.list[i].val
<1> DEFINE fl == [i \in DOMAIN n.list |-> [label |-> n.list[i].label, val |-> n.list[i].val]]
<1>1. /\ Len(n.list) \in Nat /\ DOMAIN n.list = 1..Len(n.list) /\ n.default \in Value
      /\ \A i \in 1..Len(n.list) : n.list[i].label \in Label /\ n.list[i].val \in Value
  BY NetIs
<1>2. config(n) = [default |-> n.default, flows |-> fl]
  BY DEF config
<1>3. fl = [i \in 1..Len(n.list) |-> [label |-> n.list[i].label, val |-> n.list[i].val]]
  BY <1>1
<1> HIDE DEF fl
<1>4. fl \in Seq(FlowRec) /\ Len(fl) = Len(n.list)
  <2>1. fl \in [1..Len(n.list) -> FlowRec]
    BY <1>1, <1>3 DEF FlowRec
  <2> QED BY <1>1, <2>1
<1>5. \A i \in 1..Len(n.list) : fl[i].label = n.list[i].label /\ fl[i].val = n.list[i].val
  BY <1>3
<1> QED BY <1>1, <1>2, <1>4, <1>5 DEF SpecType

LEMMA UpdateIs ==
  ASSUME NEW n \in NetType, NEW w \in SpecType
  PROVE  /\ update(n, w) \in NetType /\ Consistent(update(n, w))
         /\ update(n, w).default = w.default
         /\ \E m \in 0..Len(w.flows) :
              /\ Len(update(n, w).list) = m
              /\ \A i \in 1..m : update(n, w).list[i].label = w.flows[i].label
                                 /\ update(n, w).list[i].val = w.flows[i].val
              /\ m < Len(w.flows) => \E i \in 1..m : w.flows[i].label = w.flows[m + 1].label
              /\ ~Throws(w) => m = Len(w.flows)
<1> DEFINE fl == w.flows
           u == update(n, w)
           e(i) == [label |-> fl[i].label, val |-> fl[i].val, tabled |-> TRUE]
<1>1. fl \in Seq(FlowRec) /\ w.default \in Value /\ Len(fl) \in Nat
  BY DEF SpecType
<1>2. PICK m \in 0..Len(fl) : /\ DOMAIN Added(fl) = 1..m
                              /\ \A i, j \in 1..m : fl[i].label = fl[j].label => i = j
                              /\ m < Len(fl) => \E i \in 1..m : fl[i].label = fl[m + 1].label
                              /\ IsInjective(Labels(fl)) => m = Len(fl)
  BY <1>1, AddedIs
<1>3. u = [n EXCEPT !.default = w.default, !.list = [i \in 1..m |-> e(i)], !.detached = {}]
  BY <1>2 DEF update
<1>4. u = [default |-> w.default, list |-> [i \in 1..m |-> e(i)], detached |-> {}]
  BY <1>3 DEF NetType
<1>5. \A i \in 1..m : i \in 1..Len(fl) /\ fl[i].label \in Label /\ fl[i].val \in Value
  <2>1. \A i \in 1..m : i \in 1..Len(fl)
    BY <1>1
  <2> QED BY <1>1, <2>1, FlowsOf
<1>6. [i \in 1..m |-> e(i)] \in Seq(Entry) /\ Len([i \in 1..m |-> e(i)]) = m
  <2>1. [i \in 1..m |-> e(i)] \in [1..m -> Entry]
    BY <1>5 DEF Entry
  <2> HIDE DEF e
  <2> QED BY <1>1, <2>1
<1>7. u \in NetType /\ Len(u.list) = m /\ u.default = w.default /\ u.detached = {}
  BY <1>1, <1>4, <1>6 DEF NetType
<1>8. \A i \in 1..m : u.list[i].label = fl[i].label /\ u.list[i].val = fl[i].val /\ u.list[i].tabled
  BY <1>4
<1> HIDE DEF u
<1>9. Consistent(u)
  <2>1. u.list \in Seq(Entry) /\ DOMAIN u.list = 1..m
    BY <1>7, NetIs
  <2>2. \A i, j \in 1..Len(u.list) : u.list[i].label = u.list[j].label => i = j
    BY <1>2, <1>7, <1>8
  <2>3. IsInjective(Labels(u.list))
    BY <2>1, <2>2, LabelsAre
  <2> QED BY <1>7, <1>8, <2>1, <2>3 DEF Consistent
<1>10. ~Throws(w) => m = Len(fl)
  BY <1>2 DEF Throws
<1> QED BY <1>2, <1>7, <1>8, <1>9, <1>10 DEF u

\* A spec that does not throw is sent as it is.
LEMMA SentAsIs ==
  ASSUME NEW n \in NetType, NEW w \in SpecType, ~Throws(w)
  PROVE  config(update(n, w)) = w
<1> DEFINE u == update(n, w)
           c == config(u)
<1>1. /\ u \in NetType /\ u.default = w.default /\ Len(u.list) = Len(w.flows)
      /\ \A i \in 1..Len(w.flows) : u.list[i].label = w.flows[i].label /\ u.list[i].val = w.flows[i].val
  BY UpdateIs
<1> HIDE DEF u
<1>2. /\ c \in SpecType /\ c.default = u.default /\ Len(c.flows) = Len(u.list)
      /\ \A i \in 1..Len(u.list) : c.flows[i].label = u.list[i].label /\ c.flows[i].val = u.list[i].val
  BY <1>1, ConfigIs
<1> HIDE DEF c
<1>3. c.flows \in Seq(FlowRec) /\ w.flows \in Seq(FlowRec)
  BY <1>2 DEF SpecType
<1>4. \A i \in 1..Len(w.flows) : c.flows[i] = w.flows[i]
  <2> TAKE i \in 1..Len(w.flows)
  <2>1. c.flows[i] \in FlowRec /\ w.flows[i] \in FlowRec
    BY <1>1, <1>2, <1>3
  <2>2. c.flows[i].label = w.flows[i].label /\ c.flows[i].val = w.flows[i].val
    BY <1>1, <1>2
  <2> QED BY <2>1, <2>2 DEF FlowRec
<1>5. c.flows = w.flows
  BY <1>1, <1>2, <1>3, <1>4
<1>6. c = w
  BY <1>1, <1>2, <1>5 DEF SpecType
<1> QED BY <1>6 DEF c, u

\* In a list that names no label twice.
LEMMA SaysOnce ==
  ASSUME NEW w, w.flows \in Seq(FlowRec), ~Throws(w), NEW i \in 1..Len(w.flows), w.flows[i].label # Default
  PROVE  Says(w, w.flows[i].label) = w.flows[i].val
<1>1. \A j, k \in 1..Len(w.flows) : w.flows[j].label = w.flows[k].label => j = k
  BY LabelsAre DEF Throws
<1>2. Len(w.flows) \in Nat
  OBVIOUS
<1>3. \A j \in 1..(i - 1) : w.flows[j].label # w.flows[i].label
  <2> SUFFICES ASSUME NEW j \in 1..(i - 1), w.flows[j].label = w.flows[i].label PROVE FALSE
    OBVIOUS
  <2>1. j \in 1..Len(w.flows) /\ j # i
    BY <1>2
  <2> QED BY <1>1, <2>1
<1> QED BY <1>3, SaysIs

LEMMA FirstSaid ==
  ASSUME NEW w, w.flows \in Seq(FlowRec), NEW t, t # Default,
         NEW i \in 1..Len(w.flows), w.flows[i].label = t, \A j \in 1..(i - 1) : w.flows[j].label # t
  PROVE  Says(w, t) = w.flows[i].val
BY SaysIs

LEMMA NoneSaid ==
  ASSUME NEW w, w.flows \in Seq(FlowRec), NEW t, t # Default,
         \A i \in 1..Len(w.flows) : w.flows[i].label # t
  PROVE  Says(w, t) = Absent /\ FlowAt(w, t) = 0
BY SaysIs

LEMMA SomeSaid ==
  ASSUME NEW w, w.flows \in Seq(FlowRec), NEW t, t # Default, FlowAt(w, t) # 0
  PROVE  \E k \in 1..Len(w.flows) : /\ k = FlowAt(w, t) /\ w.flows[k].label = t
                                    /\ \A j \in 1..(k - 1) : w.flows[j].label # t
                                    /\ Says(w, t) = w.flows[k].val
<1>1. /\ FlowAt(w, t) \in 1..Len(w.flows) /\ w.flows[FlowAt(w, t)].label = t
      /\ \A i \in 1..(FlowAt(w, t) - 1) : w.flows[i].label # t
  BY FlowAtIs
<1>2. Says(w, t) = w.flows[FlowAt(w, t)].val
  BY SaysIs
<1> QED BY <1>1, <1>2

-----------------------------------------------------------------------------
(* What the operations do to a client's object.                            *)

\* A consistent object's configuration names no label twice.
LEMMA ConsistentIs ==
  ASSUME NEW n \in NetType
  PROVE  /\ Consistent(n) <=> /\ n.detached = {} /\ \A i \in 1..Len(n.list) : n.list[i].tabled
                              /\ \A i, j \in 1..Len(n.list) : n.list[i].label = n.list[j].label => i = j
         /\ Consistent(n) => ~Throws(config(n))
<1>1. n.list \in Seq(Entry) /\ DOMAIN n.list = 1..Len(n.list)
  BY NetIs
<1>2. IsInjective(Labels(n.list)) <=> \A i, j \in 1..Len(n.list) : n.list[i].label = n.list[j].label => i = j
  BY <1>1, LabelsAre
<1>3. Consistent(n) <=> /\ n.detached = {} /\ \A i \in 1..Len(n.list) : n.list[i].tabled
                        /\ \A i, j \in 1..Len(n.list) : n.list[i].label = n.list[j].label => i = j
  BY <1>1, <1>2 DEF Consistent
<1>4. ASSUME Consistent(n) PROVE ~Throws(config(n))
  <2> DEFINE c == config(n)
  <2>1. /\ c \in SpecType /\ Len(c.flows) = Len(n.list)
        /\ \A i \in 1..Len(n.list) : c.flows[i].label = n.list[i].label
    BY ConfigIs
  <2> HIDE DEF c
  <2>2. c.flows \in Seq(FlowRec)
    BY <2>1 DEF SpecType
  <2>3. \A i, j \in 1..Len(c.flows) : c.flows[i].label = c.flows[j].label => i = j
    BY <1>3, <1>4, <2>1
  <2>4. IsInjective(Labels(c.flows))
    BY <2>2, <2>3, LabelsAre
  <2>5. ~Throws(c)
    BY <2>4 DEF Throws
  <2> QED BY <2>5 DEF c
<1> QED BY <1>3, <1>4

\* What the configuration of a consistent object says.
LEMMA ConfigSays ==
  ASSUME NEW n \in NetType
  PROVE  /\ Says(config(n), Default) = n.default
         /\ \A t \in Label : (\A i \in 1..Len(n.list) : n.list[i].label # t) => Says(config(n), t) = Absent
         /\ Consistent(n) => \A i \in 1..Len(n.list) : Says(config(n), n.list[i].label) = n.list[i].val
<1> DEFINE c == config(n)
<1>1. /\ c \in SpecType /\ c.default = n.default /\ Len(c.flows) = Len(n.list)
      /\ \A i \in 1..Len(n.list) : c.flows[i].label = n.list[i].label /\ c.flows[i].val = n.list[i].val
  BY ConfigIs
<1>2. Consistent(n) => ~Throws(c)
  BY ConsistentIs
<1> HIDE DEF c
<1>3. c.flows \in Seq(FlowRec)
  BY <1>1 DEF SpecType
<1>4. Says(c, Default) = n.default
  BY <1>1 DEF Says
<1>5. ASSUME NEW t \in Label, \A i \in 1..Len(n.list) : n.list[i].label # t PROVE Says(c, t) = Absent
  <2>1. \A i \in 1..Len(c.flows) : c.flows[i].label # t
    BY <1>1, <1>5
  <2>2. t # Default
    BY NamesAssumption
  <2> QED BY <1>3, <2>1, <2>2, NoneSaid
<1>6. ASSUME Consistent(n), NEW i \in 1..Len(n.list) PROVE Says(c, n.list[i].label) = n.list[i].val
  <2>1. c.flows[i].label # Default
    BY <1>1, NetIs, NamesAssumption
  <2>2. Says(c, c.flows[i].label) = c.flows[i].val
    BY <1>1, <1>2, <1>3, <1>6, <2>1, SaysOnce
  <2> QED BY <1>1, <2>2
<1> QED BY <1>4, <1>5, <1>6 DEF c

\* An object whose other flows are the same says the same of them.
LEMMA SameConfig ==
  ASSUME NEW n \in NetType, NEW m \in NetType, Consistent(n), Consistent(m), NEW t \in Label,
         \A i \in 1..Len(n.list) : n.list[i].label = t =>
           \E j \in 1..Len(m.list) : m.list[j].label = t /\ m.list[j].val = n.list[i].val,
         \A j \in 1..Len(m.list) : m.list[j].label = t => \E i \in 1..Len(n.list) : n.list[i].label = t
  PROVE  Says(config(m), t) = Says(config(n), t)
<1>1. CASE \E i \in 1..Len(n.list) : n.list[i].label = t
  <2>1. PICK i \in 1..Len(n.list) : n.list[i].label = t
    BY <1>1
  <2>2. PICK j \in 1..Len(m.list) : m.list[j].label = t /\ m.list[j].val = n.list[i].val
    BY <2>1
  <2>3. Says(config(n), n.list[i].label) = n.list[i].val
    BY ConfigSays
  <2>4. Says(config(m), m.list[j].label) = m.list[j].val
    BY ConfigSays
  <2> QED BY <2>1, <2>2, <2>3, <2>4
<1>2. CASE ~\E i \in 1..Len(n.list) : n.list[i].label = t
  <2>1. Says(config(n), t) = Absent
    BY <1>2, ConfigSays
  <2>2. \A j \in 1..Len(m.list) : m.list[j].label # t
    BY <1>2
  <2>3. Says(config(m), t) = Absent
    BY <2>2, ConfigSays
  <2> QED BY <2>1, <2>3
<1> QED BY <1>1, <1>2

\* The edit v of t, and no other.
EditedTo(n, m, t, v) ==
  /\ Says(config(m), t) = v
  /\ \A x \in Target \ {t} : Says(config(m), x) = Says(config(n), x)

LEMMA AddFlowIs ==
  ASSUME NEW n \in NetType, NEW l \in Label
  PROVE  /\ addFlow(n, l) \in NetType
         /\ Consistent(n) /\ CanAdd(n, l) => /\ Consistent(addFlow(n, l))
                                             /\ EditedTo(n, addFlow(n, l), l, DefaultValue)
<1> DEFINE e == [label |-> l, val |-> DefaultValue, tabled |-> TRUE]
           k == Len(n.list)
           m == addFlow(n, l)
<1>1. n.list \in Seq(Entry) /\ k \in Nat /\ e \in Entry
  BY NetIs, BoundsAssumption DEF Entry
<1>2. m = [n EXCEPT !.list = Append(n.list, e)]
  BY DEF addFlow
<1>3. e.label = l /\ e.val = DefaultValue /\ e.tabled
  OBVIOUS
<1> HIDE DEF e
<1>4. m \in NetType /\ m.list = Append(n.list, e) /\ m.detached = n.detached /\ m.default = n.default
  <2> DEFINE s == Append(n.list, e)
  <2>1. s \in Seq(Entry)
    BY <1>1
  <2> HIDE DEF s, m
  <2>2. m = [n EXCEPT !.list = s]
    BY <1>2 DEF s
  <2>3. m \in NetType /\ m.list = s /\ m.detached = n.detached /\ m.default = n.default
    BY <2>1, <2>2 DEF NetType
  <2> QED BY <2>3 DEF s
<1> HIDE DEF m
<1>5. Len(m.list) = k + 1 /\ m.list[k + 1] = e /\ \A i \in 1..k : m.list[i] = n.list[i]
  BY <1>1, <1>4
<1>6. ASSUME Consistent(n), CanAdd(n, l)
      PROVE  Consistent(m) /\ EditedTo(n, m, l, DefaultValue)
  <2>1. \A i \in 1..k : n.list[i].label # l
    <3>1. FindIndex(n, l) = 0
      BY <1>6 DEF CanAdd, InTable
    <3>2. \A i \in 1..k : ~(n.list[i].label = l /\ n.list[i].tabled)
      BY <1>1, <3>1, FindIndexIs
    <3> QED BY <1>6, <3>2, ConsistentIs
  <2>2. /\ n.detached = {} /\ \A i \in 1..k : n.list[i].tabled
        /\ \A i, j \in 1..k : n.list[i].label = n.list[j].label => i = j
    BY <1>6, ConsistentIs
  <2> HIDE DEF k
  <2>3. \A i \in 1..(k + 1) : i \in 1..k \/ i = k + 1
    BY <1>1
  <2>4. Consistent(m)
    <3>1. \A i \in 1..(k + 1) : m.list[i].tabled
      BY <1>3, <1>5, <2>2, <2>3
    <3>2. \A i, j \in 1..(k + 1) : m.list[i].label = m.list[j].label => i = j
      BY <1>3, <1>5, <2>1, <2>2, <2>3
    <3> QED BY <1>4, <1>5, <2>2, <3>1, <3>2, ConsistentIs
  <2>5. Says(config(m), l) = DefaultValue
    <3>1. k + 1 \in 1..Len(m.list)
      BY <1>1, <1>5
    <3>2. Says(config(m), m.list[k + 1].label) = m.list[k + 1].val
      BY <1>4, <2>4, <3>1, ConfigSays
    <3> QED BY <1>3, <1>5, <3>2
  <2>6. ASSUME NEW x \in Target \ {l} PROVE Says(config(m), x) = Says(config(n), x)
    <3>1. CASE x = Default
      BY <1>4, <3>1, ConfigSays
    <3>2. CASE x \in Label
      <4>1. \A i \in 1..k : n.list[i].label = x => i \in 1..(k + 1) /\ m.list[i].label = x /\ m.list[i].val = n.list[i].val
        BY <1>1, <1>5
      <4>2. \A j \in 1..(k + 1) : m.list[j].label = x => j \in 1..k /\ n.list[j].label = x
        BY <1>3, <1>5, <2>3, <2>6
      <4>3. \A i \in 1..Len(n.list) : n.list[i].label = x =>
              \E j \in 1..Len(m.list) : m.list[j].label = x /\ m.list[j].val = n.list[i].val
        BY <1>5, <4>1 DEF k
      <4>4. \A j \in 1..Len(m.list) : m.list[j].label = x => \E i \in 1..Len(n.list) : n.list[i].label = x
        BY <1>5, <4>2 DEF k
      <4> QED BY <1>4, <1>6, <2>4, <3>2, <4>3, <4>4, SameConfig
    <3> QED BY <3>1, <3>2 DEF Target
  <2> QED BY <2>4, <2>5, <2>6 DEF EditedTo
<1> QED BY <1>4, <1>6 DEF m

LEMMA SetValueIs ==
  ASSUME NEW n \in NetType, NEW t \in Target, NEW v \in Value
  PROVE  /\ SetValue(n, t, v) \in NetType
         /\ Consistent(n) /\ (t = Default \/ InTable(n, t)) =>
              Consistent(SetValue(n, t, v)) /\ EditedTo(n, SetValue(n, t, v), t, v)
<1> DEFINE m == SetValue(n, t, v)
           k == FindIndex(n, t)
<1>0. n.list \in Seq(Entry) /\ Len(n.list) \in Nat /\ DOMAIN n.list = 1..Len(n.list)
  BY NetIs
<1>1. CASE t = Default
  <2>1. m = [n EXCEPT !.default = v]
    BY <1>1 DEF SetValue
  <2> HIDE DEF m
  <2>2. m \in NetType /\ m.list = n.list /\ m.detached = n.detached /\ m.default = v
    BY <2>1 DEF NetType
  <2>3. ASSUME Consistent(n) PROVE Consistent(m) /\ EditedTo(n, m, t, v)
    <3>1. Consistent(m)
      BY <2>2, <2>3 DEF Consistent
    <3>2. Says(config(m), t) = v
      BY <1>1, <2>2, ConfigSays
    <3>3. ASSUME NEW x \in Target \ {t} PROVE Says(config(m), x) = Says(config(n), x)
      <4>1. x \in Label
        BY <1>1 DEF Target
      <4> QED BY <2>2, <2>3, <3>1, <4>1, SameConfig
    <3> QED BY <3>1, <3>2, <3>3 DEF EditedTo
  <2> QED BY <2>2, <2>3 DEF m
<1>2. CASE t # Default /\ k = 0
  <2>1. m = n
    BY <1>2 DEF SetValue
  <2>2. ASSUME Consistent(n), InTable(n, t) PROVE FALSE
    BY <1>2, <2>2 DEF InTable, Consistent
  <2> QED BY <1>2, <2>1, <2>2
<1>3. CASE t # Default /\ k # 0
  <2> DEFINE e == [n.list[k] EXCEPT !.val = v]
             s == [n.list EXCEPT ![k] = e]
  <2>1. m = [n EXCEPT !.list = s]
    BY <1>3 DEF SetValue
  <2>2. k \in 1..Len(n.list) /\ n.list[k].label = t
    BY <1>3, FindIndexIs
  <2> HIDE DEF k
  <2>3. e \in Entry /\ e.label = n.list[k].label /\ e.val = v /\ e.tabled = n.list[k].tabled
    <3>1. n.list[k] \in Entry
      BY <2>2, NetIs
    <3> QED BY <3>1 DEF Entry
  <2> HIDE DEF e
  <2>4. s \in Seq(Entry) /\ Len(s) = Len(n.list) /\ s[k] = e /\ \A i \in 1..Len(n.list) : i # k => s[i] = n.list[i]
    BY <1>0, <2>2, <2>3
  <2> HIDE DEF s, m
  <2>5. m \in NetType /\ m.list = s /\ m.detached = n.detached /\ m.default = n.default
    BY <2>1, <2>4 DEF NetType
  <2>6. \A i \in 1..Len(n.list) : s[i].label = n.list[i].label /\ s[i].tabled = n.list[i].tabled
    BY <2>3, <2>4
  <2>7. ASSUME Consistent(n) PROVE Consistent(m) /\ EditedTo(n, m, t, v)
    <3>1. /\ n.detached = {} /\ \A i \in 1..Len(n.list) : n.list[i].tabled
          /\ \A i, j \in 1..Len(n.list) : n.list[i].label = n.list[j].label => i = j
      BY <2>7, ConsistentIs
    <3>2. Consistent(m)
      <4>1. m.detached = {} /\ Len(m.list) = Len(n.list)
        BY <2>4, <2>5, <3>1
      <4>2. \A i \in 1..Len(m.list) : m.list[i].tabled
        BY <2>5, <2>6, <3>1, <4>1
      <4>3. \A i, j \in 1..Len(m.list) : m.list[i].label = m.list[j].label => i = j
        BY <2>5, <2>6, <3>1, <4>1
      <4> QED BY <2>5, <4>1, <4>2, <4>3, ConsistentIs
    <3>3. Says(config(m), m.list[k].label) = m.list[k].val
      BY <2>2, <2>4, <2>5, <3>2, ConfigSays
    <3>4. Says(config(m), t) = v
      BY <2>2, <2>3, <2>4, <2>5, <3>3
    <3>5. ASSUME NEW x \in Target \ {t} PROVE Says(config(m), x) = Says(config(n), x)
      <4>1. CASE x = Default
        BY <2>5, <4>1, ConfigSays
      <4>2. CASE x \in Label
        <5>1. \A i \in 1..Len(n.list) : n.list[i].label = x => i # k
          BY <2>2, <3>5
        <5>2. \A i \in 1..Len(n.list) : n.list[i].label = x =>
                \E j \in 1..Len(m.list) : m.list[j].label = x /\ m.list[j].val = n.list[i].val
          BY <2>4, <2>5, <5>1
        <5>3. \A j \in 1..Len(m.list) : m.list[j].label = x => \E i \in 1..Len(n.list) : n.list[i].label = x
          BY <2>4, <2>5, <2>6
        <5> QED BY <2>5, <2>7, <3>2, <4>2, <5>2, <5>3, SameConfig
      <4> QED BY <4>1, <4>2 DEF Target
    <3> QED BY <3>2, <3>4, <3>5 DEF EditedTo
  <2> QED BY <2>5, <2>7 DEF m
<1> QED BY <1>1, <1>2, <1>3

LEMMA RemoveFlowIs ==
  ASSUME NEW n \in NetType, NEW l \in Label
  PROVE  /\ removeFlow(n, l) \in NetType
         /\ Consistent(n) /\ ~Missplices(n, l) =>
              Consistent(removeFlow(n, l)) /\ EditedTo(n, removeFlow(n, l), l, Absent)
<1> DEFINE m == removeFlow(n, l)
           i == flowIndex(n, l)
           rest == IF n.list = << >> THEN << >> ELSE RemoveAt(n.list, i)
           lost == IF n.list # << >> /\ n.list[i].tabled THEN {n.list[i].label} ELSE {}
           f(j) == IF rest[j].label = l THEN [rest[j] EXCEPT !.tabled = FALSE] ELSE rest[j]
           s == [j \in DOMAIN rest |-> f(j)]
           d == (n.detached \cup lost) \ {l}
           k == Len(n.list)
<1>0. n.list \in Seq(Entry) /\ k \in Nat /\ DOMAIN n.list = 1..k
  BY NetIs
<1>1. m = [n EXCEPT !.list = s, !.detached = d]
  BY DEF removeFlow
<1>2. ASSUME n.list # << >> PROVE i \in 1..k
  <2>1. k # 0
    BY <1>0, <1>2
  <2>2. FindIndex(n, l) = 0 \/ FindIndex(n, l) \in 1..k
    BY FindIndexIs
  <2> QED BY <1>0, <2>1, <2>2 DEF flowIndex
<1> HIDE DEF i
<1>3. /\ rest \in Seq(Entry) /\ Len(rest) \in Nat /\ DOMAIN rest = 1..Len(rest)
      /\ Len(rest) = IF n.list = << >> THEN 0 ELSE k - 1
      /\ n.list # << >> => \A j \in 1..(k - 1) : rest[j] = IF j < i THEN n.list[j] ELSE n.list[j + 1]
  <2>1. CASE n.list = << >>
    BY <2>1
  <2>2. CASE n.list # << >>
    <3>1. rest = RemoveAt(n.list, i)
      BY <2>2
    <3>2. /\ RemoveAt(n.list, i) \in Seq(Entry) /\ Len(RemoveAt(n.list, i)) = k - 1
          /\ \A j \in 1..(k - 1) : RemoveAt(n.list, i)[j] = IF j < i THEN n.list[j] ELSE n.list[j + 1]
      BY <1>0, <1>2, <2>2, RemoveAtIs
    <3> HIDE DEF rest
    <3>3. Len(rest) \in Nat /\ DOMAIN rest = 1..Len(rest)
      BY <3>1, <3>2
    <3> QED BY <2>2, <3>1, <3>2, <3>3
  <2> QED BY <2>1, <2>2
<1>4. lost \subseteq Label
  BY <1>2, NetIs
<1> HIDE DEF rest, lost
<1>5. \A j \in 1..Len(rest) : f(j) \in Entry /\ f(j).label = rest[j].label /\ f(j).val = rest[j].val
  <2> TAKE j \in 1..Len(rest)
  <2>1. rest[j] \in Entry
    BY <1>3, InList
  <2> QED BY <2>1 DEF Entry
<1>6. s \in Seq(Entry) /\ Len(s) = Len(rest) /\ \A j \in 1..Len(rest) : s[j] = f(j)
  <2> HIDE DEF f
  <2>1. s \in [1..Len(rest) -> Entry]
    BY <1>3, <1>5
  <2> QED BY <1>3, <2>1
<1>7. d \subseteq Label
  BY <1>4, NetIs
<1> HIDE DEF s, d, m
<1>8. m \in NetType /\ m.list = s /\ m.detached = d /\ m.default = n.default
  BY <1>1, <1>6, <1>7 DEF NetType
<1>9. ASSUME Consistent(n), ~Missplices(n, l) PROVE Consistent(m) /\ EditedTo(n, m, l, Absent)
  <2>1. /\ n.detached = {} /\ \A j \in 1..k : n.list[j].tabled
        /\ \A j, h \in 1..k : n.list[j].label = n.list[h].label => j = h
    BY <1>9, ConsistentIs
  <2>2. n.list # << >> => n.list[i].label = l
    <3> SUFFICES ASSUME n.list # << >> PROVE n.list[i].label = l
      OBVIOUS
    <3>1. FindIndex(n, l) # 0 /\ i = FindIndex(n, l)
      BY <1>9 DEF Missplices, i
    <3> QED BY <3>1, FindIndexIs
  <2>3. d = {}
    BY <2>1, <2>2 DEF d, lost
  \* where an element of the list comes from and goes to
  <2>4. \A j \in 1..Len(rest) : \E h \in 1..k : h # i /\ (h = IF j < i THEN j ELSE j + 1) /\ rest[j] = n.list[h] /\ n.list # << >>
    <3> TAKE j \in 1..Len(rest)
    <3>1. n.list # << >> /\ j \in 1..(k - 1)
      BY <1>3
    <3>2. i \in 1..k
      BY <1>2, <3>1
    <3> DEFINE h == IF j < i THEN j ELSE j + 1
    <3>3. h \in 1..k /\ h # i
      BY <1>0, <3>1, <3>2
    <3>4. rest[j] = n.list[h]
      BY <1>3, <3>1
    <3> HIDE DEF h
    <3> QED BY <3>1, <3>3, <3>4 DEF h
  <2>5. \A j \in 1..Len(rest) : rest[j].label # l /\ f(j) = rest[j] /\ rest[j].tabled
    BY <1>2, <2>1, <2>2, <2>4
  <2>6. \A h \in 1..k : n.list[h].label # l => \E j \in 1..Len(rest) : rest[j] = n.list[h]
    <3> SUFFICES ASSUME NEW h \in 1..k, n.list[h].label # l PROVE \E j \in 1..Len(rest) : rest[j] = n.list[h]
      OBVIOUS
    <3>1. n.list # << >>
      BY <1>0
    <3>2. h # i /\ i \in 1..k /\ Len(rest) = k - 1
      BY <1>2, <1>3, <2>2, <3>1
    <3> DEFINE j == IF h < i THEN h ELSE h - 1
    <3>3. j \in 1..(k - 1) /\ (IF j < i THEN j ELSE j + 1) = h
      BY <1>0, <3>2
    <3>4. rest[j] = n.list[h]
      BY <1>3, <3>1, <3>3
    <3> HIDE DEF j
    <3> QED BY <3>2, <3>3, <3>4
  <2> HIDE DEF f, k
  <2>7. Consistent(m)
    <3>1. \A j \in 1..Len(rest) : s[j].tabled
      BY <1>6, <2>5
    <3>2. ASSUME NEW j \in 1..Len(rest), NEW g \in 1..Len(rest), s[j].label = s[g].label PROVE j = g
      <4>1. rest[j].label = rest[g].label
        BY <1>6, <2>5, <3>2
      <4>2. PICK h \in 1..k : h # i /\ (h = IF j < i THEN j ELSE j + 1) /\ rest[j] = n.list[h] /\ n.list # << >>
        BY <2>4
      <4>3. PICK hh \in 1..k : hh # i /\ (hh = IF g < i THEN g ELSE g + 1) /\ rest[g] = n.list[hh]
        BY <2>4
      <4>4. h = hh
        BY <2>1, <4>1, <4>2, <4>3
      <4>5. i \in Int
        BY <1>0, <1>2, <4>2
      <4> QED BY <1>3, <4>2, <4>3, <4>4, <4>5
    <3> QED BY <1>6, <1>8, <2>3, <3>1, <3>2, ConsistentIs
  <2>8. Says(config(m), l) = Absent
    <3>1. \A j \in 1..Len(m.list) : m.list[j].label # l
      BY <1>6, <1>8, <2>5
    <3> QED BY <1>8, <3>1, ConfigSays
  <2>9. ASSUME NEW x \in Target \ {l} PROVE Says(config(m), x) = Says(config(n), x)
    <3>1. CASE x = Default
      BY <1>8, <3>1, ConfigSays
    <3>2. CASE x \in Label
      <4>1. \A h \in 1..Len(n.list) : n.list[h].label = x =>
              \E j \in 1..Len(m.list) : m.list[j].label = x /\ m.list[j].val = n.list[h].val
        <5> SUFFICES ASSUME NEW h \in 1..Len(n.list), n.list[h].label = x
                     PROVE \E j \in 1..Len(m.list) : m.list[j].label = x /\ m.list[j].val = n.list[h].val
          OBVIOUS
        <5>1. PICK j \in 1..Len(rest) : rest[j] = n.list[h]
          BY <2>6, <2>9 DEF k
        <5> QED BY <1>6, <1>8, <2>5, <5>1
      <4>2. \A j \in 1..Len(m.list) : m.list[j].label = x => \E h \in 1..Len(n.list) : n.list[h].label = x
        <5> SUFFICES ASSUME NEW j \in 1..Len(m.list), m.list[j].label = x
                     PROVE \E h \in 1..Len(n.list) : n.list[h].label = x
          OBVIOUS
        <5>1. j \in 1..Len(rest) /\ rest[j].label = x
          BY <1>6, <1>8, <2>5
        <5>2. PICK h \in 1..k : rest[j] = n.list[h]
          BY <2>4, <5>1
        <5> QED BY <5>1, <5>2 DEF k
      <4> QED BY <1>8, <1>9, <2>7, <3>2, <4>1, <4>2, SameConfig
    <3> QED BY <3>1, <3>2 DEF Target
  <2> QED BY <2>7, <2>8, <2>9 DEF EditedTo
<1> QED BY <1>8, <1>9 DEF m

-----------------------------------------------------------------------------
(* What the page does to its widgets.                                      *)

LEMMA CloseIs ==
  ASSUME NEW x, NEW l
  PROVE  Close(l, l) /\ (x \in Value /\ Close(x, l) => Close(Snap[x], l)) /\ (x \in Value => Close(Snap[x], x))
<1>1. ASSUME x \in Value, Close(x, l) PROVE Close(Snap[x], l)
  <2>1. CASE x = l
    BY <1>1, <2>1 DEF Close
  <2>2. CASE l \in Value /\ x = Snap[l]
    BY <2>2, SnapAssumption DEF Close
  <2> QED BY <1>1, <2>1, <2>2 DEF Close
<1> QED BY <1>1 DEF Close

\* Two specs with the same labels.
LEMMA SameLabels ==
  ASSUME NEW v, v.flows \in Seq(FlowRec), NEW w, w.flows \in Seq(FlowRec), Len(v.flows) = Len(w.flows),
         \A i \in 1..Len(w.flows) : v.flows[i].label = w.flows[i].label
  PROVE  /\ Throws(v) <=> Throws(w)
         /\ \A t \in Label : FlowAt(v, t) = FlowAt(w, t)
         /\ \A E : TailEdited(v.flows, E) <=> TailEdited(w.flows, E)
<1>0. Len(w.flows) \in Nat /\ DOMAIN v.flows = DOMAIN w.flows /\ DOMAIN w.flows = 1..Len(w.flows)
  OBVIOUS
<1>1. Throws(v) <=> Throws(w)
  <2>1. IsInjective(Labels(v.flows)) <=>
          \A i, j \in 1..Len(w.flows) : v.flows[i].label = v.flows[j].label => i = j
    BY LabelsAre
  <2>2. IsInjective(Labels(w.flows)) <=>
          \A i, j \in 1..Len(w.flows) : w.flows[i].label = w.flows[j].label => i = j
    BY LabelsAre
  <2> QED BY <2>1, <2>2 DEF Throws
<1>2. ASSUME NEW t \in Label PROVE FlowAt(v, t) = FlowAt(w, t)
  <2>1. t # Default
    BY NamesAssumption
  <2>2. CASE FlowAt(w, t) = 0
    <3>1. \A i \in 1..Len(v.flows) : v.flows[i].label # t
      BY <2>1, <2>2, SaysIs
    <3> QED BY <2>1, <2>2, <3>1, SaysIs
  <2>3. CASE FlowAt(w, t) # 0
    <3>1. PICK k \in 1..Len(w.flows) : /\ k = FlowAt(w, t) /\ w.flows[k].label = t
                                       /\ \A j \in 1..(k - 1) : w.flows[j].label # t
      BY <2>1, <2>3, SomeSaid
    <3>2. v.flows[k].label = t /\ \A j \in 1..(k - 1) : v.flows[j].label # t
      <4>1. \A j \in 1..(k - 1) : j \in 1..Len(w.flows)
        BY <1>0
      <4> QED BY <3>1, <4>1
    <3> QED BY <2>1, <3>1, <3>2, SaysIs
  <2> QED BY <2>2, <2>3
<1>3. ASSUME NEW E PROVE TailEdited(v.flows, E) <=> TailEdited(w.flows, E)
  BY <1>0 DEF TailEdited
<1> QED BY <1>1, <1>2, <1>3

\* Nothing is there twice.
LEMMA NoTail == ASSUME NEW w, w.flows \in Seq(FlowRec), ~Throws(w), NEW E PROVE TailEdited(w.flows, E)
<1>1. \A i, j \in 1..Len(w.flows) : w.flows[i].label = w.flows[j].label => i = j
  BY LabelsAre DEF Throws
<1>2. DOMAIN w.flows = 1..Len(w.flows)
  OBVIOUS
<1> QED BY <1>1, <1>2 DEF TailEdited

LEMMA SnappedIs ==
  ASSUME NEW w \in SpecType
  PROVE  /\ Snapped(w) \in SpecType /\ (Throws(Snapped(w)) <=> Throws(w))
         /\ \A t \in Target : \/ Says(w, t) \in Value /\ Says(Snapped(w), t) = Snap[Says(w, t)]
                              \/ Says(w, t) = Absent /\ Says(Snapped(w), t) = Absent
<1> DEFINE v == Snapped(w)
           fl == [i \in DOMAIN w.flows |-> [w.flows[i] EXCEPT !.val = Snap[w.flows[i].val]]]
<1>0. w.flows \in Seq(FlowRec) /\ w.default \in Value /\ DOMAIN w.flows = 1..Len(w.flows) /\ Len(w.flows) \in Nat
  BY DEF SpecType
<1>1. v = [default |-> Snap[w.default], flows |-> fl]
  BY DEF Snapped
<1>2. \A i \in 1..Len(w.flows) : /\ [w.flows[i] EXCEPT !.val = Snap[w.flows[i].val]] \in FlowRec
                                 /\ [w.flows[i] EXCEPT !.val = Snap[w.flows[i].val]].label = w.flows[i].label
                                 /\ [w.flows[i] EXCEPT !.val = Snap[w.flows[i].val]].val = Snap[w.flows[i].val]
  <2> TAKE i \in 1..Len(w.flows)
  <2>1. w.flows[i] \in FlowRec /\ Snap[w.flows[i].val] \in Value
    BY <1>0, FlowsOf, SnapAssumption
  <2> QED BY <2>1 DEF FlowRec
<1>3. fl \in Seq(FlowRec) /\ Len(fl) = Len(w.flows)
  <2>1. fl \in [1..Len(w.flows) -> FlowRec]
    BY <1>0, <1>2
  <2> QED BY <1>0, <2>1
<1>4. \A i \in 1..Len(w.flows) : fl[i].label = w.flows[i].label /\ fl[i].val = Snap[w.flows[i].val]
  BY <1>0, <1>2
<1> HIDE DEF fl
<1>5. v \in SpecType /\ v.flows = fl /\ v.default = Snap[w.default]
  BY <1>0, <1>1, <1>3, SnapAssumption DEF SpecType
<1> HIDE DEF v
<1>6. (Throws(v) <=> Throws(w)) /\ \A t \in Label : FlowAt(v, t) = FlowAt(w, t)
  BY <1>0, <1>3, <1>4, <1>5, SameLabels
<1>7. ASSUME NEW t \in Target
      PROVE  \/ Says(w, t) \in Value /\ Says(v, t) = Snap[Says(w, t)]
             \/ Says(w, t) = Absent /\ Says(v, t) = Absent
  <2>1. CASE t = Default
    BY <1>0, <1>5, <2>1 DEF Says
  <2>2. CASE t \in Label
    <3>0. t # Default
      BY <2>2, NamesAssumption
    <3>1. CASE FlowAt(w, t) = 0
      BY <1>0, <1>3, <1>5, <1>6, <2>2, <3>0, <3>1, SaysIs
    <3>2. CASE FlowAt(w, t) # 0
      <4>1. PICK k \in 1..Len(w.flows) : k = FlowAt(w, t) /\ Says(w, t) = w.flows[k].val
        BY <1>0, <3>0, <3>2, SomeSaid
      <4>2. Says(v, t) = v.flows[k].val
        BY <1>3, <1>5, <1>6, <2>2, <3>0, <3>2, <4>1, SomeSaid
      <4> QED BY <1>0, <1>4, <1>5, <4>1, <4>2, FlowsOf
    <3> QED BY <3>1, <3>2
  <2> QED BY <2>1, <2>2 DEF Target
<1> QED BY <1>5, <1>6, <1>7 DEF v

\* What agrees does so rounded.
LEMMA SnappedAgrees ==
  ASSUME NEW w \in SpecType, NEW t \in Target, NEW l, Close(Says(w, t), l)
  PROVE  Close(Says(Snapped(w), t), l)
<1>1. CASE Says(w, t) \in Value /\ Says(Snapped(w), t) = Snap[Says(w, t)]
  BY <1>1, CloseIs
<1>2. CASE Says(w, t) = Absent /\ Says(Snapped(w), t) = Absent
  BY <1>2
<1> QED BY <1>1, <1>2, SnappedIs

\* Widgets in which t is edited to v: all it says is as before but for t, and the
\* second widget of a label is still followed by edits yet to be sent.
WidgetsEdited(w, u, t, v) ==
  /\ u \in SpecType
  /\ Close(Says(u, t), v)
  /\ \A x \in Target \ {t} : Says(u, x) = Says(w, x)
  /\ \A E : TailEdited(w.flows, E) => TailEdited(u.flows, E \cup {t})

LEMMA MovedIs ==
  ASSUME NEW w \in SpecType, NEW t \in Target, NEW v \in Value, t = Default \/ FlowAt(w, t) # 0
  PROVE  WidgetsEdited(w, Moved(w, t, v), t, v)
<1> DEFINE u == Moved(w, t, v)
<1>0. w.flows \in Seq(FlowRec) /\ w.default \in Value /\ DOMAIN w.flows = 1..Len(w.flows) /\ Len(w.flows) \in Nat
  BY DEF SpecType
<1>1. CASE t = Default
  <2>1. u = [w EXCEPT !.default = v]
    BY <1>1 DEF Moved
  <2> HIDE DEF u
  <2>2. u \in SpecType /\ u.flows = w.flows /\ u.default = v
    BY <2>1 DEF SpecType
  <2>3. Says(u, t) = v
    BY <1>1, <2>2 DEF Says
  <2>4. \A x \in Target \ {t} : Says(u, x) = Says(w, x)
    BY <1>1, <2>2 DEF Says, FlowAt
  <2>5. \A E : TailEdited(w.flows, E) => TailEdited(u.flows, E \cup {t})
    BY <2>2 DEF TailEdited
  <2>6. WidgetsEdited(w, u, t, v)
    BY <2>2, <2>3, <2>4, <2>5, CloseIs DEF WidgetsEdited
  <2> QED BY <2>6 DEF u
<1>2. CASE t # Default
  <2> DEFINE f(i) == IF w.flows[i].label = t THEN [w.flows[i] EXCEPT !.val = v] ELSE w.flows[i]
             fl == [i \in DOMAIN w.flows |-> f(i)]
  <2>1. u = [w EXCEPT !.flows = fl]
    BY <1>2 DEF Moved
  <2>2. \A i \in 1..Len(w.flows) : /\ f(i) \in FlowRec /\ f(i).label = w.flows[i].label
                                   /\ f(i).val = IF w.flows[i].label = t THEN v ELSE w.flows[i].val
    <3> TAKE i \in 1..Len(w.flows)
    <3>1. w.flows[i] \in FlowRec
      BY <1>0, FlowsOf
    <3> QED BY <3>1 DEF FlowRec
  <2> HIDE DEF f
  <2>3. fl \in Seq(FlowRec) /\ Len(fl) = Len(w.flows) /\ \A i \in 1..Len(w.flows) : fl[i] = f(i)
    <3>1. fl \in [1..Len(w.flows) -> FlowRec]
      BY <1>0, <2>2
    <3> QED BY <1>0, <3>1
  <2> HIDE DEF fl, u
  <2>4. u \in SpecType /\ u.flows = fl /\ u.default = w.default
    BY <2>1, <2>3 DEF SpecType
  <2>5. /\ \A x \in Label : FlowAt(u, x) = FlowAt(w, x)
        /\ \A E : TailEdited(u.flows, E) <=> TailEdited(w.flows, E)
    BY <1>0, <2>2, <2>3, <2>4, SameLabels
  <2>6. \A E : TailEdited(w.flows, E) => TailEdited(u.flows, E \cup {t})
    <3> TAKE E
    <3>1. TailEdited(w.flows, E) => TailEdited(w.flows, E \cup {t})
      BY DEF TailEdited
    <3> QED BY <2>5, <3>1
  <2>7. ASSUME NEW x \in Label
        PROVE  Says(u, x) = IF FlowAt(w, x) = 0 THEN Absent ELSE IF x = t THEN v ELSE Says(w, x)
    <3>0. x # Default
      BY NamesAssumption
    <3>1. CASE FlowAt(w, x) = 0
      BY <2>3, <2>4, <2>5, <3>0, <3>1, SaysIs
    <3>2. CASE FlowAt(w, x) # 0
      <4>1. PICK k \in 1..Len(w.flows) : k = FlowAt(w, x) /\ Says(w, x) = w.flows[k].val /\ w.flows[k].label = x
        BY <1>0, <3>0, <3>2, SomeSaid
      <4>2. Says(u, x) = u.flows[k].val
        BY <2>3, <2>4, <2>5, <3>0, <3>2, <4>1, SomeSaid
      <4> QED BY <2>2, <2>3, <2>4, <3>2, <4>1, <4>2
    <3> QED BY <3>1, <3>2
  <2>8. t \in Label /\ FlowAt(w, t) # 0
    BY <1>2 DEF Target
  <2>9. Says(u, t) = v
    BY <2>7, <2>8
  <2>10. ASSUME NEW x \in Target \ {t} PROVE Says(u, x) = Says(w, x)
    <3>1. CASE x = Default
      BY <2>4, <3>1 DEF Says
    <3>2. CASE x \in Label
      <4>1. x # Default
        BY <3>2, NamesAssumption
      <4>2. FlowAt(w, x) = 0 => Says(w, x) = Absent
        BY <1>0, <4>1, SaysIs
      <4> QED BY <2>7, <2>10, <3>2, <4>2
    <3> QED BY <3>1, <3>2 DEF Target
  <2>11. WidgetsEdited(w, u, t, v)
    BY <2>4, <2>6, <2>9, <2>10, CloseIs DEF WidgetsEdited
  <2> QED BY <2>11 DEF u
<1> QED BY <1>1, <1>2

LEMMA AppendedIs ==
  ASSUME NEW w \in SpecType, NEW l \in Label, NEW v \in Value, FlowAt(w, l) # 0 => v = Says(w, l)
  PROVE  WidgetsEdited(w, [w EXCEPT !.flows = Append(@, [label |-> l, val |-> v])], l, v)
<1> DEFINE e == [label |-> l, val |-> v]
           fl == w.flows
           k == Len(fl)
           s == Append(fl, e)
           u == [w EXCEPT !.flows = s]
<1>0. fl \in Seq(FlowRec) /\ DOMAIN fl = 1..k /\ k \in Nat /\ e \in FlowRec /\ e.label = l /\ e.val = v /\ l # Default
  BY NamesAssumption DEF SpecType, FlowRec
<1> HIDE DEF e
<1>1. s \in Seq(FlowRec) /\ Len(s) = k + 1 /\ DOMAIN s = 1..(k + 1) /\ s[k + 1] = e /\ \A i \in 1..k : s[i] = fl[i]
  BY <1>0
<1> HIDE DEF s
<1>2. u \in SpecType /\ u.flows = s /\ u.default = w.default
  BY <1>1 DEF SpecType
<1> HIDE DEF u, k
<1>3. \A i \in 1..(k + 1) : i \in 1..k \/ i = k + 1
  BY <1>0
<1>4. ASSUME NEW x \in Label
      PROVE  Says(u, x) = IF FlowAt(w, x) = 0 /\ x = l THEN v ELSE Says(w, x)
  <2>0. x # Default
    BY NamesAssumption
  <2>1. CASE FlowAt(w, x) # 0
    <3>1. PICK i \in 1..k : /\ fl[i].label = x /\ Says(w, x) = fl[i].val
                            /\ \A j \in 1..(i - 1) : fl[j].label # x
      BY <1>0, <2>0, <2>1, SomeSaid DEF k
    <3>2. i \in 1..(k + 1) /\ s[i] = fl[i] /\ \A j \in 1..(i - 1) : s[j] = fl[j]
      BY <1>0, <1>1
    <3>3. Says(u, x) = s[i].val
      BY <1>1, <1>2, <2>0, <3>1, <3>2, FirstSaid
    <3> QED BY <2>1, <3>1, <3>2, <3>3
  <2>2. CASE FlowAt(w, x) = 0
    <3>1. \A i \in 1..k : fl[i].label # x
      BY <1>0, <2>0, <2>2, SaysIs DEF k
    <3>2. CASE x = l
      <4>1. k + 1 \in 1..Len(s) /\ s[k + 1].label = x /\ \A j \in 1..((k + 1) - 1) : s[j].label # x
        BY <1>0, <1>1, <3>1, <3>2
      <4>2. Says(u, x) = s[k + 1].val
        BY <1>1, <1>2, <2>0, <4>1, SaysIs
      <4> QED BY <1>0, <1>1, <2>2, <3>2, <4>2
    <3>3. CASE x # l
      <4>1. \A j \in 1..(k + 1) : s[j].label # x
        BY <1>0, <1>1, <1>3, <3>1, <3>3
      <4>2. Says(u, x) = Absent
        BY <1>1, <1>2, <2>0, <4>1, SaysIs
      <4>3. Says(w, x) = Absent
        BY <1>0, <2>0, <2>2, SaysIs
      <4> QED BY <3>3, <4>2, <4>3
    <3> QED BY <3>2, <3>3
  <2> QED BY <2>1, <2>2
<1>5. Says(u, l) = v
  BY <1>4
<1>6. ASSUME NEW x \in Target \ {l} PROVE Says(u, x) = Says(w, x)
  <2>1. CASE x = Default
    BY <1>2, <2>1 DEF Says
  <2>2. CASE x \in Label
    BY <1>4, <1>6, <2>2
  <2> QED BY <2>1, <2>2 DEF Target
<1>7. ASSUME NEW E, TailEdited(fl, E) PROVE TailEdited(s, E \cup {l})
  <2> SUFFICES ASSUME NEW i \in 1..(k + 1), NEW j \in 1..(k + 1), i < j, s[i].label = s[j].label,
                      NEW h \in 1..(k + 1), h >= j
               PROVE  s[h].label \in E \cup {l}
    BY <1>1 DEF TailEdited
  <2>1. CASE h = k + 1
    BY <1>0, <1>1, <2>1
  <2>2. CASE h # k + 1
    <3>1. h \in 1..k /\ j \in 1..k /\ i \in 1..k
      BY <1>0, <2>2
    <3>2. fl[i].label = fl[j].label /\ s[h] = fl[h]
      BY <1>1, <3>1
    <3> QED BY <1>0, <1>7, <3>1, <3>2 DEF TailEdited
  <2> QED BY <2>1, <2>2
<1>8. WidgetsEdited(w, u, l, v)
  BY <1>2, <1>5, <1>6, <1>7, CloseIs DEF WidgetsEdited
<1> QED BY <1>8 DEF u, s, e

LEMMA CutIs ==
  ASSUME NEW w \in SpecType, NEW l \in Label, FlowAt(w, l) # 0
  PROVE  LET cut == [w EXCEPT !.flows = RemoveAt(@, FlowAt(w, l))]
         IN  WidgetsEdited(w, cut, l, Says(cut, l))
<1> DEFINE fl == w.flows
           k == Len(fl)
           i == FlowAt(w, l)
           s == RemoveAt(fl, i)
           u == [w EXCEPT !.flows = s]
           at(j) == IF j < i THEN j ELSE j + 1
<1>0. fl \in Seq(FlowRec) /\ DOMAIN fl = 1..k /\ k \in Nat /\ l # Default
  BY NamesAssumption DEF SpecType
<1>1. i \in 1..k /\ fl[i].label = l
  BY <1>0, SomeSaid
<1> HIDE DEF i
<1>2. /\ s \in Seq(FlowRec) /\ Len(s) = k - 1
      /\ \A j \in 1..(k - 1) : s[j] = IF j < i THEN fl[j] ELSE fl[j + 1]
  BY <1>0, <1>1, RemoveAtIs
<1> HIDE DEF s
<1>3. DOMAIN s = 1..(k - 1) /\ u \in SpecType /\ u.flows = s /\ u.default = w.default
  BY <1>2 DEF SpecType
<1> HIDE DEF u, k
<1>4. \A j \in 1..(k - 1) : at(j) \in 1..k /\ at(j) # i /\ s[j] = fl[at(j)]
  BY <1>0, <1>1, <1>2
<1>5. \A h \in 1..k : h # i => \E j \in 1..(k - 1) : at(j) = h
  <2> SUFFICES ASSUME NEW h \in 1..k, h # i PROVE \E j \in 1..(k - 1) : at(j) = h
    OBVIOUS
  <2> DEFINE j == IF h < i THEN h ELSE h - 1
  <2>1. j \in 1..(k - 1) /\ at(j) = h
    BY <1>0, <1>1
  <2> HIDE DEF j, at
  <2> QED BY <2>1
<1>6. \A j, h \in 1..(k - 1) : j < h <=> at(j) < at(h)
  BY <1>0, <1>1
<1> HIDE DEF at
<1>7. ASSUME NEW x \in Label, x # l PROVE Says(u, x) = Says(w, x)
  <2>0. x # Default
    BY NamesAssumption
  <2>1. CASE FlowAt(w, x) # 0
    <3>1. PICK h \in 1..k : /\ fl[h].label = x /\ Says(w, x) = fl[h].val
                            /\ \A j \in 1..(h - 1) : fl[j].label # x
      BY <1>0, <2>0, <2>1, SomeSaid DEF k
    <3>2. PICK j \in 1..(k - 1) : at(j) = h
      BY <1>1, <1>5, <1>7, <3>1
    <3>3. \A g \in 1..(j - 1) : s[g].label # x
      <4> TAKE g \in 1..(j - 1)
      <4>1. g \in 1..(k - 1) /\ g < j
        BY <1>0
      <4>2. at(g) < h /\ at(g) \in 1..k /\ s[g] = fl[at(g)]
        BY <1>4, <1>6, <3>2, <4>1
      <4>3. at(g) \in 1..(h - 1)
        BY <1>0, <4>2
      <4> QED BY <3>1, <4>2, <4>3
    <3>4. s[j] = fl[h]
      BY <1>4, <3>2
    <3>5. s[j].label = x /\ j \in 1..Len(s)
      BY <1>2, <3>1, <3>4
    <3>6. Says(u, x) = u.flows[j].val
      <4>1. u.flows \in Seq(FlowRec) /\ j \in 1..Len(u.flows) /\ u.flows[j].label = x
        BY <1>2, <1>3, <3>5
      <4>2. \A g \in 1..(j - 1) : u.flows[g].label # x
        BY <1>3, <3>3
      <4> QED BY <2>0, <4>1, <4>2, SaysIs
    <3> QED BY <1>3, <3>1, <3>4, <3>6
  <2>2. CASE FlowAt(w, x) = 0
    <3>1. \A h \in 1..k : fl[h].label # x
      BY <1>0, <2>0, <2>2, SaysIs DEF k
    <3>2. \A j \in 1..(k - 1) : s[j].label # x
      BY <1>4, <3>1
    <3>3. Says(u, x) = Absent
      BY <1>2, <1>3, <2>0, <3>2, SaysIs
    <3>4. Says(w, x) = Absent
      BY <1>0, <2>0, <2>2, SaysIs
    <3> QED BY <3>3, <3>4
  <2> QED BY <2>1, <2>2
<1>8. ASSUME NEW x \in Target \ {l} PROVE Says(u, x) = Says(w, x)
  <2>1. CASE x = Default
    BY <1>3, <2>1 DEF Says
  <2>2. CASE x \in Label
    BY <1>7, <1>8, <2>2
  <2> QED BY <2>1, <2>2 DEF Target
<1>9. ASSUME NEW E, TailEdited(fl, E) PROVE TailEdited(s, E \cup {l})
  <2> SUFFICES ASSUME NEW a \in 1..(k - 1), NEW b \in 1..(k - 1), a < b, s[a].label = s[b].label,
                      NEW h \in 1..(k - 1), h >= b
               PROVE  s[h].label \in E
    BY <1>3 DEF TailEdited
  <2>1. at(a) < at(b) /\ at(h) >= at(b)
    <3>1. at(h) \in Int /\ at(b) \in Int
      BY <1>0, <1>4
    <3>2. ~(at(h) < at(b))
      BY <1>0, <1>6
    <3> QED BY <1>6, <3>1, <3>2
  <2>2. at(a) \in 1..k /\ at(b) \in 1..k /\ at(h) \in 1..k
    BY <1>4
  <2>3. fl[at(a)].label = fl[at(b)].label /\ s[h] = fl[at(h)]
    BY <1>4
  <2> QED BY <1>0, <1>9, <2>1, <2>2, <2>3 DEF TailEdited
<1>10. WidgetsEdited(w, u, l, Says(u, l))
  BY <1>3, <1>8, <1>9, CloseIs DEF WidgetsEdited
<1> QED BY <1>10 DEF u, s, i

\* What update leaves out are edits yet to be sent.
LEMMA UpdateSays ==
  ASSUME NEW n \in NetType, NEW w \in SpecType, NEW E, TailEdited(w.flows, E), NEW t \in Target \ E
  PROVE  Says(config(update(n, w)), t) = Says(w, t)
<1> DEFINE u == update(n, w)
           c == config(u)
           k == Len(w.flows)
<1>0. w.flows \in Seq(FlowRec) /\ DOMAIN w.flows = 1..k /\ k \in Nat
  BY DEF SpecType
<1>1. /\ u \in NetType /\ u.default = w.default
      /\ \E m \in 0..k : /\ Len(u.list) = m
                         /\ \A i \in 1..m : u.list[i].label = w.flows[i].label /\ u.list[i].val = w.flows[i].val
                         /\ m < k => \E i \in 1..m : w.flows[i].label = w.flows[m + 1].label
  BY UpdateIs
<1>2. PICK m \in 0..k : /\ Len(u.list) = m
                        /\ \A i \in 1..m : u.list[i].label = w.flows[i].label /\ u.list[i].val = w.flows[i].val
                        /\ m < k => \E i \in 1..m : w.flows[i].label = w.flows[m + 1].label
  BY <1>1
<1> HIDE DEF u
<1>3. /\ c \in SpecType /\ c.default = w.default /\ Len(c.flows) = m
      /\ \A i \in 1..m : c.flows[i].label = w.flows[i].label /\ c.flows[i].val = w.flows[i].val
  BY <1>1, <1>2, ConfigIs
<1> HIDE DEF c, k
<1>4. c.flows \in Seq(FlowRec)
  BY <1>3 DEF SpecType
<1>5. \A h \in 1..k : w.flows[h].label = t => h \in 1..m
  <2> SUFFICES ASSUME NEW h \in 1..k, w.flows[h].label = t, h \notin 1..m PROVE FALSE
    OBVIOUS
  <2>1. m < k /\ m + 1 \in 1..k /\ h >= m + 1
    BY <1>0
  <2>2. PICK i \in 1..m : w.flows[i].label = w.flows[m + 1].label
    BY <1>2, <2>1
  <2>3. i \in 1..k /\ i < m + 1
    BY <1>0
  <2>4. w.flows[h].label \in E
    BY <1>0, <2>1, <2>2, <2>3 DEF TailEdited
  <2> QED BY <2>4
<1>6. Says(c, t) = Says(w, t)
  <2>1. CASE t = Default
    BY <1>3, <2>1 DEF Says
  <2>2. CASE t # Default /\ FlowAt(w, t) = 0
    <3>1. \A h \in 1..k : w.flows[h].label # t
      BY <1>0, <2>2, SaysIs DEF k
    <3>2. \A h \in 1..m : c.flows[h].label # t
      BY <1>0, <1>3, <3>1
    <3>3. Says(c, t) = Absent
      BY <1>3, <1>4, <2>2, <3>2, NoneSaid
    <3> QED BY <1>0, <2>2, <3>3, SaysIs
  <2>3. CASE t # Default /\ FlowAt(w, t) # 0
    <3>1. PICK h \in 1..k : /\ w.flows[h].label = t /\ Says(w, t) = w.flows[h].val
                            /\ \A j \in 1..(h - 1) : w.flows[j].label # t
      BY <1>0, <2>3, SomeSaid DEF k
    <3>2. h \in 1..m
      BY <1>5, <3>1
    <3>3. \A j \in 1..(h - 1) : c.flows[j].label # t
      <4> TAKE j \in 1..(h - 1)
      <4>1. j \in 1..m
        BY <3>2
      <4> QED BY <1>3, <3>1, <4>1
    <3>4. c.flows[h].label = t /\ h \in 1..Len(c.flows)
      BY <1>3, <3>1, <3>2
    <3>5. Says(c, t) = c.flows[h].val
      BY <1>4, <2>3, <3>3, <3>4, FirstSaid
    <3> QED BY <1>3, <3>1, <3>2, <3>5
  <2> QED BY <2>1, <2>2, <2>3
<1> QED BY <1>6 DEF c, u

-----------------------------------------------------------------------------
(* Sending a spec.                                                         *)

LEMMA ClientInvInit == Init => ClientInv
<1> SUFFICES ASSUME Init PROVE ClientInv
  OBVIOUS
<1> DEFINE n0 == [default |-> DefaultValue, list |-> << >>, detached |-> {}]
           s0 == [default |-> DefaultValue, flows |-> << >>]
           w0 == [default |-> SliderDefault, flows |-> << >>]
<1>1. /\ net = [c \in Client |-> n0] /\ gets = {} /\ posts = {} /\ file.id = 1 /\ file.spec = s0
      /\ ids = 1 /\ base = [c \in Client |-> 0] /\ edits = [c \in Client |-> NoEdits]
      /\ last = [t \in Target |-> IF t = Default THEN DefaultValue ELSE Absent]
      /\ ~raced /\ ~misspliced
      /\ widgets = [p \in Page |-> w0] /\ typed = [p \in Page |-> Absent]
  BY DEF Init, ClientInit
<1>2. n0 \in NetType /\ s0 \in SpecType /\ w0 \in SpecType
  BY BoundsAssumption, SnapAssumption DEF NetType, SpecType, Steps
<1>3. Consistent(n0) /\ ~Throws(s0)
  BY DEF Consistent, Throws, Labels, IsInjective
<1>4. Agrees(s0, last)
  <2> SUFFICES ASSUME NEW t \in Target PROVE Says(s0, t) = last[t]
    BY CloseIs DEF Agrees
  <2>1. CASE t = Default
    BY <1>1, <2>1 DEF Says
  <2>2. CASE t # Default
    <3>1. s0.flows \in Seq(FlowRec) /\ \A i \in 1..Len(s0.flows) : s0.flows[i].label # t
      OBVIOUS
    <3>2. Says(s0, t) = Absent
      BY <2>2, <3>1, NoneSaid
    <3> QED BY <1>1, <2>2, <3>2
  <2> QED BY <2>1, <2>2
<1>5. \A E : TailEdited(w0.flows, E)
  BY DEF TailEdited
<1> HIDE DEF n0, s0, w0
<1>6. ClientTypes
  BY <1>1, <1>2 DEF ClientTypes
<1>7. ViewsInv
  BY <1>1, <1>3 DEF ViewsInv, Client
<1>8. OrderInv
  BY <1>1 DEF OrderInv
<1>9. PageInv
  BY <1>1, <1>5 DEF PageInv
<1>10. EditsInv
  BY <1>1, <1>4 DEF EditsInv, Client
<1> QED BY <1>6, <1>7, <1>8, <1>9, <1>10 DEF ClientInv

\* A POST takes the next number.  If all POSTs under way still derive from each
\* other, it derives from what was the newest spec, and is the newest.
LEMMA SendStep ==
  ASSUME ClientTypes, ViewsInv, OrderInv, NEW c \in Client, NEW spec \in SpecType, NEW said,
         ~misspliced => ~Throws(spec),
         Send(c, spec, said), UNCHANGED <<gets, file, raced, misspliced>>
  PROVE  /\ ids' \in Nat /\ base' \in [Client -> 0..ids'] /\ DOMAIN edits' = Client
         /\ file.id' \in 1..ids' /\ file.spec' \in SpecType
         /\ \A r \in posts' : r.id \in 1..ids' /\ r.parent \in 0..(r.id - 1) /\ r.spec \in SpecType
         /\ \A g \in gets' : g.to \in Page /\ g.id \in 1..ids' /\ g.spec \in SpecType
         /\ ~misspliced' => ~Throws(file.spec)' /\ (\A r \in posts' : ~Throws(r.spec)) /\ (\A g \in gets' : ~Throws(g.spec))
         /\ OrderInv'
         /\ \A d \in Client : edits'[d] = IF d = c THEN NoEdits ELSE edits[d]
         /\ \A d \in Client : d # c => base'[d] # ids'
         /\ file.id' # ids' /\ \A g \in gets' : g.id # ids'
         /\ \A r \in posts' : r.id = ids' => r.spec = spec
         /\ Clean' => Clean /\ base[c] = ids
<1> DEFINE new == [from |-> c, id |-> ids', spec |-> spec, parent |-> base[c]]
<1>1. /\ ids' = ids + 1 /\ posts' = posts \cup {new} /\ base' = [base EXCEPT ![c] = ids']
      /\ edits' = [edits EXCEPT ![c] = NoEdits]
      /\ gets' = gets /\ file' = file /\ raced' = raced /\ misspliced' = misspliced
  BY DEF Send
<1>2. new.id = ids' /\ new.spec = spec /\ new.parent = base[c]
  OBVIOUS
<1> HIDE DEF new
<1>3. /\ ids \in Nat /\ base \in [Client -> 0..ids] /\ DOMAIN edits = Client
      /\ file.id \in 1..ids /\ file.spec \in SpecType
      /\ \A r \in posts : r.id \in 1..ids /\ r.parent \in 0..(r.id - 1) /\ r.spec \in SpecType
      /\ \A g \in gets : g.to \in Page /\ g.id \in 1..ids /\ g.spec \in SpecType
  BY DEF ClientTypes
<1>4. ids' \in Nat /\ base' \in [Client -> 0..ids'] /\ DOMAIN edits' = Client
  <2>1. 0..ids \subseteq 0..ids' /\ ids' \in 0..ids' /\ ids' \in Nat
    BY <1>1, <1>3
  <2>2. base' \in [Client -> 0..ids']
    BY <1>1, <1>3, <2>1
  <2> QED BY <1>1, <1>3, <2>1, <2>2
<1>5. file.id' \in 1..ids' /\ file.spec' \in SpecType /\ file.id' # ids'
  BY <1>1, <1>3
<1>6. \A r \in posts' : r.id \in 1..ids' /\ r.parent \in 0..(r.id - 1) /\ r.spec \in SpecType
  <2>1. ASSUME NEW r \in posts PROVE r.id \in 1..ids' /\ r.parent \in 0..(r.id - 1) /\ r.spec \in SpecType
    BY <1>1, <1>3
  <2>2. base[c] \in 0..ids
    BY <1>3
  <2>3. new.id \in 1..ids' /\ new.parent \in 0..(new.id - 1) /\ new.spec \in SpecType
    BY <1>1, <1>2, <1>3, <2>2
  <2> QED BY <1>1, <2>1, <2>3
<1>7. \A g \in gets' : g.to \in Page /\ g.id \in 1..ids' /\ g.spec \in SpecType /\ g.id # ids'
  BY <1>1, <1>3
<1>8. ~misspliced' => ~Throws(file.spec)' /\ (\A r \in posts' : ~Throws(r.spec)) /\ (\A g \in gets' : ~Throws(g.spec))
  <2> SUFFICES ASSUME ~misspliced PROVE ~Throws(file.spec)' /\ (\A r \in posts' : ~Throws(r.spec)) /\ (\A g \in gets' : ~Throws(g.spec))
    BY <1>1
  <2>1. ~Throws(file.spec) /\ (\A r \in posts : ~Throws(r.spec)) /\ (\A g \in gets : ~Throws(g.spec)) /\ ~Throws(spec)
    BY DEF ViewsInv
  <2>2. Throws(file.spec)' <=> Throws(file'.spec)
    BY DEF Throws
  <2>3. \A r \in posts' : ~Throws(r.spec)
    BY <1>1, <1>2, <2>1
  <2> QED BY <1>1, <2>1, <2>2, <2>3
<1>9. \A r \in posts' : r.id = ids' => r = new
  BY <1>1, <1>3
<1>10. OrderInv'
  <2>1. \A r, q \in posts' : r.id = q.id => r = q
    <3> SUFFICES ASSUME NEW r \in posts', NEW q \in posts', r.id = q.id PROVE r = q
      OBVIOUS
    <3>1. CASE r.id = ids'
      BY <1>9, <3>1
    <3>2. CASE r.id # ids'
      <4>1. r \in posts /\ q \in posts
        BY <1>1, <1>2, <3>2
      <4> QED BY <4>1 DEF OrderInv
    <3> QED BY <3>1, <3>2
  <2>2. ASSUME ~raced, NEW k \in (file.id + 1)..(ids + 1) PROVE \E r \in posts' : r.id = k
    <3>1. CASE k = ids + 1
      BY <1>1, <1>2, <3>1
    <3>2. CASE k # ids + 1
      <4>1. k \in (file.id + 1)..ids
        BY <1>3, <3>2
      <4>2. \E r \in posts : r.id = k
        BY <2>2, <4>1 DEF OrderInv
      <4> QED BY <1>1, <4>2
    <3> QED BY <3>1, <3>2
  <2> QED BY <1>1, <2>1, <2>2 DEF OrderInv
<1>11. \A d \in Client : edits'[d] = IF d = c THEN NoEdits ELSE edits[d]
  BY <1>1, <1>3
<1>12. \A d \in Client : d # c => base'[d] # ids'
  BY <1>1, <1>3
<1>13. Clean' => Clean /\ base[c] = ids
  <2> SUFFICES ASSUME Clean' PROVE Clean /\ base[c] = ids
    OBVIOUS
  <2>1. ~raced /\ ~misspliced /\ \A r \in posts' : r.parent = r.id - 1 /\ r.id > file.id
    BY <1>1 DEF Clean
  <2>2. Clean
    BY <1>1, <2>1 DEF Clean
  <2>3. base[c] = (ids + 1) - 1
    BY <1>1, <1>2, <2>1
  <2> QED BY <1>3, <2>2, <2>3
<1>14. \A r \in posts' : r.id = ids' => r.spec = spec
  BY <1>2, <1>9
<1> QED BY <1>4, <1>5, <1>6, <1>7, <1>8, <1>10, <1>11, <1>12, <1>13, <1>14

\* The step sends c's spec: what then is to be shown of the clients.
LEMMA SentInv ==
  ASSUME ClientInv, NEW c \in Client, NEW spec \in SpecType, NEW said,
         ~misspliced => ~Throws(spec),
         Send(c, spec, said), UNCHANGED <<gets, file, raced, misspliced>>,
         net' \in [Client -> NetType], widgets' \in [Page -> SpecType], typed' \in [Page -> Label \cup {Absent}],
         \A d \in Client : d # c => net'[d] = net[d],
         \A p \in Page : p # c => widgets'[p] = widgets[p],
         c \in Page \/ ~misspliced => Consistent(net'[c]),
         c \in Page /\ ~misspliced => TailEdited(widgets'[c].flows, {}),
         Clean /\ base[c] = ids => /\ Agrees(spec, last')
                                   /\ c \in Script => ScriptAgrees(net'[c], NoEdits, last')
                                   /\ c \in Page => PageAgrees(net'[c], widgets'[c], NoEdits, last')
  PROVE  ClientInv'
<1>0. ClientTypes /\ ViewsInv /\ OrderInv /\ PageInv /\ EditsInv
  BY DEF ClientInv
<1>1. /\ ids' \in Nat /\ base' \in [Client -> 0..ids'] /\ DOMAIN edits' = Client
      /\ file.id' \in 1..ids' /\ file.spec' \in SpecType
      /\ \A r \in posts' : r.id \in 1..ids' /\ r.parent \in 0..(r.id - 1) /\ r.spec \in SpecType
      /\ \A g \in gets' : g.to \in Page /\ g.id \in 1..ids' /\ g.spec \in SpecType
  BY <1>0, SendStep
<1>2. ~misspliced' => ~Throws(file.spec)' /\ (\A r \in posts' : ~Throws(r.spec)) /\ (\A g \in gets' : ~Throws(g.spec))
  BY <1>0, SendStep
<1>3. OrderInv'
  BY <1>0, SendStep
<1>4. /\ \A d \in Client : edits'[d] = IF d = c THEN NoEdits ELSE edits[d]
      /\ \A d \in Client : d # c => base'[d] # ids'
      /\ file.id' # ids' /\ \A g \in gets' : g.id # ids'
      /\ \A r \in posts' : r.id = ids' => r.spec = spec
  BY <1>0, SendStep
<1>5. Clean' => Clean /\ base[c] = ids
  BY <1>0, SendStep
<1>6. ClientTypes'
  BY <1>1 DEF ClientTypes
<1>7. misspliced' = misspliced
  OBVIOUS
<1>8. ViewsInv'
  <2>1. \A p \in Page : Consistent(net'[p])
    BY <1>0 DEF ViewsInv, Client
  <2>2. ~misspliced => \A d \in Script : Consistent(net'[d])
    BY <1>0 DEF ViewsInv, Client
  <2> QED BY <1>2, <1>7, <2>1, <2>2 DEF ViewsInv
<1>9. PageInv'
  <2> SUFFICES ASSUME ~misspliced, NEW p \in Page PROVE TailEdited(widgets'[p].flows, DOMAIN edits'[p])
    BY <1>7 DEF PageInv
  <2>0. p \in Client
    BY DEF Client
  <2>1. CASE p = c
    <3>1. DOMAIN edits'[p] = {}
      BY <1>4, <2>0, <2>1 DEF NoEdits
    <3> QED BY <2>1, <3>1
  <2>2. CASE p # c
    BY <1>0, <1>4, <2>0, <2>2 DEF PageInv
  <2> QED BY <2>1, <2>2
<1>10. EditsInv'
  <2> SUFFICES ASSUME Clean'
               PROVE  /\ \A r \in posts' : r.id = ids' => Agrees(r.spec, last')
                      /\ \A d \in Script : base'[d] = ids' => ScriptAgrees(net'[d], edits'[d], last')
                      /\ \A p \in Page : base'[p] = ids' => PageAgrees(net'[p], widgets'[p], edits'[p], last')
    BY <1>4 DEF EditsInv
  <2>1. /\ Agrees(spec, last')
        /\ c \in Script => ScriptAgrees(net'[c], NoEdits, last')
        /\ c \in Page => PageAgrees(net'[c], widgets'[c], NoEdits, last')
    BY <1>5
  <2>2. \A r \in posts' : r.id = ids' => Agrees(r.spec, last')
    BY <1>4, <2>1
  <2>3. \A d \in Client : base'[d] = ids' => d = c /\ edits'[d] = NoEdits
    BY <1>4
  <2>4. Script \subseteq Client /\ Page \subseteq Client
    BY DEF Client
  <2> QED BY <2>1, <2>2, <2>3, <2>4
<1> QED BY <1>3, <1>6, <1>8, <1>9, <1>10 DEF ClientInv

LEMMA CommitStep ==
  ASSUME ClientInv, NEW c \in Script, commit(c), UNCHANGED pageVars
  PROVE  ClientInv'
<1> DEFINE n == net[c]
           spec == config(n)
           E == edits[c]
<1>1. /\ c \in Client /\ c \notin Page
  BY NamesAssumption DEF Client
<1>2. /\ Send(c, spec, E) /\ UNCHANGED <<gets, file, raced, misspliced>> /\ net' = net
      /\ widgets' = widgets /\ typed' = typed
  BY DEF commit, pageVars
<1>3. ClientTypes /\ ViewsInv /\ EditsInv
  BY DEF ClientInv
<1>4. net \in [Client -> NetType] /\ widgets \in [Page -> SpecType] /\ typed \in [Page -> Label \cup {Absent}]
  BY <1>3 DEF ClientTypes
<1>5. spec \in SpecType
  BY <1>1, <1>4, ConfigIs
<1>6. ~misspliced => Consistent(n) /\ ~Throws(spec)
  BY <1>1, <1>3, <1>4, ConsistentIs DEF ViewsInv
<1>7. ASSUME Clean, base[c] = ids PROVE Agrees(spec, last') /\ ScriptAgrees(n, NoEdits, last')
  <2>1. ScriptAgrees(n, E, last)
    BY <1>3, <1>7 DEF EditsInv
  <2>2. \A t \in Target : last'[t] = IF t \in DOMAIN E THEN E[t] ELSE last[t]
    BY <1>2 DEF Send
  <2>3. \A t \in Target : Close(Says(spec, t), last'[t])
    <3> TAKE t \in Target
    <3>1. CASE t \in DOMAIN E
      BY <2>1, <2>2, <3>1, CloseIs DEF ScriptAgrees
    <3>2. CASE t \notin DOMAIN E
      BY <2>1, <2>2, <3>2 DEF ScriptAgrees
    <3> QED BY <3>1, <3>2
  <2> QED BY <2>3 DEF Agrees, ScriptAgrees, NoEdits
<1> HIDE DEF E, spec, n
<1> QED
  <2>1. net'[c] = n
    BY <1>2 DEF n
  <2> QED BY <1>1, <1>2, <1>4, <1>5, <1>6, <1>7, <2>1, SentInv

\* A page's edit of t to v, with the widgets u.
LEMMA ApplyStep ==
  ASSUME ClientInv, NEW p \in Page, NEW u \in SpecType, NEW t \in Target, NEW v,
         apply(p, u, t, v), typed' \in [Page -> Label \cup {Absent}],
         Close(Says(u, t), v),
         ~misspliced => TailEdited(u.flows, DOMAIN edits[p] \cup {t}),
         Clean /\ base[p] = ids => \A x \in Target \ (DOMAIN edits[p] \cup {t}) : Close(Says(u, x), last[x])
  PROVE  ClientInv'
<1> DEFINE E == edits[p]
           n == net[p]
           said == Noted([e \in DOMAIN E |-> Says(u, e)], t, v)
<1>1. p \in Client /\ p \notin Script
  BY NamesAssumption DEF Client
<1>2. ClientTypes /\ ViewsInv /\ OrderInv /\ PageInv /\ EditsInv
  BY DEF ClientInv
<1>3. net \in [Client -> NetType] /\ widgets \in [Page -> SpecType] /\ DOMAIN edits = Client
  BY <1>2 DEF ClientTypes
<1>4. n \in NetType
  BY <1>1, <1>3
<1>5. update(n, u) \in NetType /\ Consistent(update(n, u))
  BY <1>4, UpdateIs
<1>6. /\ widgets' = [widgets EXCEPT ![p] = u] /\ net' = [net EXCEPT ![p] = update(n, u)]
      /\ UNCHANGED <<gets, file, raced, misspliced>>
  BY DEF apply
<1>7. /\ net' \in [Client -> NetType] /\ widgets' \in [Page -> SpecType]
      /\ net'[p] = update(n, u) /\ widgets'[p] = u
      /\ \A d \in Client : d # p => net'[d] = net[d]
      /\ \A q \in Page : q # p => widgets'[q] = widgets[q]
  BY <1>1, <1>3, <1>5, <1>6
<1> HIDE DEF n
<1>8. CASE Throws(u)
  <2>1. edits' = [edits EXCEPT ![p] = Noted(E, t, v)] /\ UNCHANGED <<ids, posts, base, last>>
    BY <1>8 DEF apply
  <2>2. /\ DOMAIN edits' = Client /\ DOMAIN edits'[p] = DOMAIN E \cup {t}
        /\ \A d \in Client : d # p => edits'[d] = edits[d]
    BY <1>1, <1>3, <2>1 DEF Noted
  <2> HIDE DEF E
  <2>3. ClientTypes'
    BY <1>2, <1>6, <1>7, <2>1, <2>2 DEF ClientTypes
  <2>4. ViewsInv'
    <3>1. \A q \in Page : Consistent(net'[q])
      BY <1>2, <1>5, <1>7 DEF ViewsInv, Client
    <3>2. \A d \in Script : net'[d] = net[d]
      BY <1>1, <1>7 DEF Client
    <3> QED BY <1>2, <1>6, <2>1, <3>1, <3>2 DEF ViewsInv
  <2>5. OrderInv'
    BY <1>2, <1>6, <2>1 DEF OrderInv
  <2>6. PageInv'
    <3> SUFFICES ASSUME ~misspliced, NEW q \in Page PROVE TailEdited(widgets'[q].flows, DOMAIN edits'[q])
      BY <1>6 DEF PageInv
    <3>1. CASE q = p
      BY <1>7, <2>2, <3>1 DEF E
    <3>2. CASE q # p
      BY <1>2, <1>7, <2>2, <3>2 DEF PageInv, Client
    <3> QED BY <3>1, <3>2
  <2>7. EditsInv'
    <3>1. Clean' <=> Clean
      BY <1>6, <2>1 DEF Clean
    <3> SUFFICES ASSUME Clean PROVE EditsInv'
      BY <3>1 DEF EditsInv
    <3>2. /\ file.id = ids => Agrees(file.spec, last)
          /\ \A r \in posts : r.id = ids => Agrees(r.spec, last)
          /\ \A g \in gets : g.id = ids => Agrees(g.spec, last)
          /\ \A c \in Script : base[c] = ids => ScriptAgrees(net[c], edits[c], last)
          /\ \A q \in Page : base[q] = ids => PageAgrees(net[q], widgets[q], edits[q], last)
      BY <1>2 DEF EditsInv
    <3>3. \A c \in Script : base'[c] = ids' => ScriptAgrees(net'[c], edits'[c], last')
      BY <1>1, <1>7, <2>1, <2>2, <3>2 DEF Client
    <3>4. ASSUME NEW q \in Page, base'[q] = ids' PROVE PageAgrees(net'[q], widgets'[q], edits'[q], last')
      <4>1. CASE q # p
        BY <1>7, <2>1, <2>2, <3>2, <3>4, <4>1 DEF Client
      <4>2. CASE q = p
        <5> SUFFICES ASSUME NEW x \in Target \ (DOMAIN E \cup {t})
                     PROVE  Close(Says(u, x), last[x]) /\ Close(Says(config(update(n, u)), x), last[x])
          BY <1>7, <2>1, <2>2, <4>2 DEF PageAgrees
        <5>1. Close(Says(u, x), last[x])
          BY <2>1, <3>4, <4>2 DEF E
        <5>2. TailEdited(u.flows, DOMAIN E \cup {t})
          BY DEF Clean, E
        <5>3. Says(config(update(n, u)), x) = Says(u, x)
          BY <1>4, <5>2, UpdateSays
        <5> QED BY <5>1, <5>3
      <4> QED BY <4>1, <4>2
    <3> QED BY <1>6, <2>1, <3>2, <3>3, <3>4 DEF EditsInv
  <2> QED BY <2>3, <2>4, <2>5, <2>6, <2>7 DEF ClientInv
<1>9. CASE ~Throws(u)
  <2>1. Send(p, config(update(n, u)), said)
    BY <1>9 DEF apply, n
  <2>2. config(update(n, u)) = u
    BY <1>4, <1>9, SentAsIs
  <2>3. Send(p, u, said)
    BY <2>1, <2>2
  <2>4. ASSUME Clean, base[p] = ids PROVE Agrees(u, last') /\ PageAgrees(net'[p], widgets'[p], NoEdits, last')
    <3>1. DOMAIN said = DOMAIN E \cup {t} /\ said[t] = v /\ \A e \in DOMAIN E : e # t => said[e] = Says(u, e)
      BY DEF Noted
    <3> HIDE DEF said
    <3>2. \A x \in Target : last'[x] = IF x \in DOMAIN said THEN said[x] ELSE last[x]
      BY <2>3 DEF Send
    <3>3. \A x \in Target : Close(Says(u, x), last'[x])
      <4> TAKE x \in Target
      <4>1. CASE x = t
        BY <3>1, <3>2, <4>1
      <4>2. CASE x # t /\ x \in DOMAIN E
        BY <3>1, <3>2, <4>2, CloseIs
      <4>3. CASE x # t /\ x \notin DOMAIN E
        BY <2>4, <3>1, <3>2, <4>3
      <4> QED BY <4>1, <4>2, <4>3
    <3> QED BY <1>7, <2>2, <3>3 DEF Agrees, PageAgrees
  <2>5. TailEdited(u.flows, {})
    BY <1>9, NoTail DEF SpecType
  <2> HIDE DEF said, E
  <2> QED BY <1>1, <1>5, <1>6, <1>7, <1>9, <2>3, <2>4, <2>5, SentInv
<1> QED BY <1>8, <1>9

-----------------------------------------------------------------------------
(* The steps of scripts and of the frontend.                               *)

LEMMA EditStep ==
  ASSUME ClientInv, NEW c \in Script, NEW n \in NetType, NEW t \in Target, NEW v,
         Edit(c, n, t, v), UNCHANGED pageVars,
         ~misspliced' => ~misspliced,
         ~misspliced' /\ Consistent(net[c]) => Consistent(n) /\ EditedTo(net[c], n, t, v)
  PROVE  ClientInv'
<1>1. c \in Client /\ c \notin Page
  BY NamesAssumption DEF Client
<1>2. ClientTypes /\ ViewsInv /\ OrderInv /\ PageInv /\ EditsInv
  BY DEF ClientInv
<1>3. /\ net' = [net EXCEPT ![c] = n] /\ edits' = [edits EXCEPT ![c] = Noted(edits[c], t, v)]
      /\ UNCHANGED <<gets, posts, file, ids, base, last, raced, widgets, typed>>
  BY DEF Edit, httpVars, pageVars
<1>4. net \in [Client -> NetType] /\ DOMAIN edits = Client
  BY <1>2 DEF ClientTypes
<1>5. /\ net' \in [Client -> NetType] /\ DOMAIN edits' = Client
      /\ net'[c] = n /\ edits'[c] = Noted(edits[c], t, v)
      /\ \A d \in Client : d # c => net'[d] = net[d] /\ edits'[d] = edits[d]
  BY <1>1, <1>3, <1>4
<1>6. \A p \in Page : net'[p] = net[p] /\ edits'[p] = edits[p]
  BY <1>1, <1>5 DEF Client
<1>7. ASSUME ~misspliced' PROVE ~misspliced /\ Consistent(net[c]) /\ Consistent(n) /\ EditedTo(net[c], n, t, v)
  BY <1>2, <1>7 DEF ViewsInv
<1>8. ClientTypes'
  BY <1>2, <1>3, <1>5 DEF ClientTypes
<1>9. ViewsInv'
  <2>1. \A p \in Page : Consistent(net'[p])
    BY <1>2, <1>6 DEF ViewsInv
  <2>2. ASSUME ~misspliced', NEW d \in Script PROVE Consistent(net'[d])
    <3>1. CASE d = c
      BY <1>5, <1>7, <2>2, <3>1
    <3>2. CASE d # c
      BY <1>2, <1>5, <1>7, <2>2, <3>2 DEF ViewsInv, Client
    <3> QED BY <3>1, <3>2
  <2> QED BY <1>2, <1>3, <1>7, <2>1, <2>2 DEF ViewsInv
<1>10. OrderInv'
  BY <1>2, <1>3 DEF OrderInv
<1>11. PageInv'
  BY <1>2, <1>3, <1>6, <1>7 DEF PageInv
<1>12. EditsInv'
  <2> SUFFICES ASSUME Clean' PROVE EditsInv'
    BY DEF EditsInv
  <2>1. Clean /\ ~misspliced'
    BY <1>3, <1>7 DEF Clean
  <2>2. /\ file.id = ids => Agrees(file.spec, last)
        /\ \A r \in posts : r.id = ids => Agrees(r.spec, last)
        /\ \A g \in gets : g.id = ids => Agrees(g.spec, last)
        /\ \A d \in Script : base[d] = ids => ScriptAgrees(net[d], edits[d], last)
        /\ \A p \in Page : base[p] = ids => PageAgrees(net[p], widgets[p], edits[p], last)
    BY <1>2, <2>1 DEF EditsInv
  <2>3. ASSUME NEW d \in Script, base'[d] = ids' PROVE ScriptAgrees(net'[d], edits'[d], last')
    <3>1. ScriptAgrees(net[d], edits[d], last)
      BY <1>3, <2>2, <2>3
    <3>2. CASE d # c
      BY <1>3, <1>5, <3>1, <3>2 DEF Client
    <3>3. CASE d = c
      <4> DEFINE E == edits[c]
                 F == Noted(E, t, v)
      <4>1. DOMAIN F = DOMAIN E \cup {t} /\ F[t] = v /\ \A x \in DOMAIN E : x # t => F[x] = E[x]
        BY DEF Noted
      <4>2. EditedTo(net[c], n, t, v) /\ ScriptAgrees(net[c], E, last)
        BY <1>7, <2>1, <3>1, <3>3
      <4> HIDE DEF E, F
      <4>3. ASSUME NEW x \in Target
            PROVE  IF x \in DOMAIN F THEN Says(config(n), x) = F[x] ELSE Close(Says(config(n), x), last[x])
        <5>1. CASE x = t
          BY <4>1, <4>2, <5>1 DEF EditedTo
        <5>2. CASE x # t
          <6>1. Says(config(n), x) = Says(config(net[c]), x)
            BY <4>2, <5>2 DEF EditedTo
          <6> QED BY <4>1, <4>2, <5>2, <6>1 DEF ScriptAgrees
        <5> QED BY <5>1, <5>2
      <4>4. ScriptAgrees(n, F, last)
        BY <4>3 DEF ScriptAgrees
      <4> QED BY <1>3, <1>5, <3>3, <4>4 DEF E, F
    <3> QED BY <3>2, <3>3
  <2> QED BY <1>3, <1>6, <2>2, <2>3 DEF EditsInv
<1> QED BY <1>8, <1>9, <1>10, <1>11, <1>12 DEF ClientInv

LEMMA ScriptEdits ==
  ASSUME ClientInv, NEW c \in Script, UNCHANGED pageVars,
         \/ \E l \in Label : ScriptAdd(c, l) \/ ScriptRemove(c, l)
         \/ \E t \in Settable, v \in Value : ScriptSet(c, t, v)
  PROVE  ClientInv'
<1>1. net[c] \in NetType
  BY DEF ClientInv, ClientTypes, Client
<1>2. ASSUME NEW l \in Label, ScriptAdd(c, l) PROVE ClientInv'
  <2>1. l \in Target
    BY DEF Target
  <2>2. CanAdd(net[c], l) /\ Edit(c, addFlow(net[c], l), l, DefaultValue) /\ misspliced' = misspliced
    BY <1>2 DEF ScriptAdd
  <2> QED BY <1>1, <2>1, <2>2, AddFlowIs, EditStep
<1>3. ASSUME NEW l \in Label, ScriptRemove(c, l) PROVE ClientInv'
  <2>1. l \in Target
    BY DEF Target
  <2>2. Edit(c, removeFlow(net[c], l), l, Absent) /\ misspliced' = (misspliced \/ Missplices(net[c], l))
    BY <1>3 DEF ScriptRemove
  <2> QED BY <1>1, <2>1, <2>2, RemoveFlowIs, EditStep
<1>4. ASSUME NEW t \in Settable, NEW v \in Value, ScriptSet(c, t, v) PROVE ClientInv'
  <2>1. t \in Target
    BY NamesAssumption DEF Target
  <2>2. (t = Default \/ InTable(net[c], t)) /\ Edit(c, SetValue(net[c], t, v), t, v) /\ misspliced' = misspliced
    BY <1>4 DEF ScriptSet
  <2> QED BY <1>1, <2>1, <2>2, SetValueIs, EditStep
<1> QED BY <1>2, <1>3, <1>4

LEMMA GetStep ==
  ASSUME ClientInv, NEW c \in Script, get(c), UNCHANGED pageVars
  PROVE  ClientInv'
<1> DEFINE n == update(net[c], file.spec)
<1>1. c \in Client /\ c \notin Page
  BY NamesAssumption DEF Client
<1>2. ClientTypes /\ ViewsInv /\ OrderInv /\ PageInv /\ EditsInv
  BY DEF ClientInv
<1>3. /\ net' = [net EXCEPT ![c] = n] /\ edits' = [edits EXCEPT ![c] = NoEdits] /\ base' = [base EXCEPT ![c] = file.id]
      /\ UNCHANGED <<gets, posts, file, ids, last, raced, misspliced, widgets, typed>>
  BY DEF get, httpVars, pageVars
<1>4. /\ net \in [Client -> NetType] /\ DOMAIN edits = Client /\ base \in [Client -> 0..ids]
      /\ ids \in Nat /\ file.id \in 1..ids /\ file.spec \in SpecType /\ net[c] \in NetType
  BY <1>1, <1>2 DEF ClientTypes
<1>5. n \in NetType /\ Consistent(n) /\ (~Throws(file.spec) => config(n) = file.spec)
  BY <1>4, UpdateIs, SentAsIs
<1> HIDE DEF n
<1>6. /\ net' \in [Client -> NetType] /\ DOMAIN edits' = Client /\ base' \in [Client -> 0..ids]
      /\ net'[c] = n /\ edits'[c] = NoEdits /\ base'[c] = file.id
      /\ \A d \in Client : d # c => net'[d] = net[d] /\ edits'[d] = edits[d] /\ base'[d] = base[d]
  <2>1. file.id \in 0..ids
    BY <1>4
  <2> QED BY <1>1, <1>3, <1>4, <1>5, <2>1
<1>7. \A p \in Page : net'[p] = net[p] /\ edits'[p] = edits[p] /\ base'[p] = base[p]
  BY <1>1, <1>6 DEF Client
<1>8. ClientTypes'
  BY <1>2, <1>3, <1>6 DEF ClientTypes
<1>9. ViewsInv'
  <2>1. \A p \in Page : Consistent(net'[p])
    BY <1>2, <1>7 DEF ViewsInv
  <2>2. ASSUME ~misspliced, NEW d \in Script PROVE Consistent(net'[d])
    BY <1>2, <1>5, <1>6, <2>2 DEF ViewsInv, Client
  <2> QED BY <1>2, <1>3, <2>1, <2>2 DEF ViewsInv
<1>10. OrderInv'
  BY <1>2, <1>3 DEF OrderInv
<1>11. PageInv'
  BY <1>2, <1>3, <1>7 DEF PageInv
<1>12. EditsInv'
  <2> SUFFICES ASSUME Clean' PROVE EditsInv'
    BY DEF EditsInv
  <2>1. Clean
    BY <1>3 DEF Clean
  <2>2. /\ file.id = ids => Agrees(file.spec, last)
        /\ \A r \in posts : r.id = ids => Agrees(r.spec, last)
        /\ \A g \in gets : g.id = ids => Agrees(g.spec, last)
        /\ \A d \in Script : base[d] = ids => ScriptAgrees(net[d], edits[d], last)
        /\ \A p \in Page : base[p] = ids => PageAgrees(net[p], widgets[p], edits[p], last)
    BY <1>2, <2>1 DEF EditsInv
  <2>3. ASSUME NEW d \in Script, base'[d] = ids' PROVE ScriptAgrees(net'[d], edits'[d], last')
    <3>1. CASE d # c
      BY <1>3, <1>6, <2>2, <2>3, <3>1 DEF Client
    <3>2. CASE d = c
      <4>1. Agrees(file.spec, last)
        BY <1>3, <1>6, <2>2, <2>3, <3>2
      <4>2. config(n) = file.spec
        BY <1>2, <1>5, <2>1 DEF Clean, ViewsInv
      <4>3. ScriptAgrees(n, NoEdits, last)
        BY <4>1, <4>2 DEF ScriptAgrees, Agrees, NoEdits
      <4> QED BY <1>3, <1>6, <3>2, <4>3
    <3> QED BY <3>1, <3>2
  <2> QED BY <1>3, <1>7, <2>2, <2>3 DEF EditsInv
<1> QED BY <1>8, <1>9, <1>10, <1>11, <1>12 DEF ClientInv

LEMMA PostedStep ==
  ASSUME ClientInv, NEW r \in posts, Posted(r), UNCHANGED pageVars
  PROVE  ClientInv'
<1>1. ClientTypes /\ ViewsInv /\ OrderInv /\ PageInv /\ EditsInv
  BY DEF ClientInv
<1>2. /\ posts' = posts \ {r} /\ file' = [id |-> r.id, spec |-> r.spec] /\ raced' = (raced \/ r.parent # file.id)
      /\ UNCHANGED <<net, gets, ids, base, edits, last, misspliced, widgets, typed>>
  BY DEF Posted, pageVars
<1>3. file'.id = r.id /\ file'.spec = r.spec
  BY <1>2
<1>4. /\ ids \in Nat /\ file.id \in 1..ids
      /\ \A q \in posts : q.id \in 1..ids /\ q.parent \in 0..(q.id - 1) /\ q.spec \in SpecType
  BY <1>1 DEF ClientTypes
<1>5. ClientTypes'
  BY <1>1, <1>2, <1>3 DEF ClientTypes
<1>6. ViewsInv'
  BY <1>1, <1>2, <1>3 DEF ViewsInv
<1>7. PageInv'
  BY <1>1, <1>2 DEF PageInv
<1>8. ASSUME ~raced' PROVE ~raced /\ r.parent = file.id /\ r.id > file.id
  <2>1. ~raced /\ r.parent = file.id
    BY <1>2, <1>8
  <2> QED BY <1>4, <2>1
<1>9. OrderInv'
  <2>1. \A q, s \in posts' : q.id = s.id => q = s
    BY <1>1, <1>2 DEF OrderInv
  <2>2. ASSUME ~raced', NEW k \in (r.id + 1)..ids PROVE \E q \in posts' : q.id = k
    <3>1. k \in (file.id + 1)..ids /\ k # r.id
      BY <1>4, <1>8, <2>2
    <3>2. PICK q \in posts : q.id = k
      BY <1>1, <1>8, <2>2, <3>1 DEF OrderInv
    <3> QED BY <1>2, <3>1, <3>2
  <2> QED BY <1>2, <1>3, <2>1, <2>2 DEF OrderInv
<1>10. EditsInv'
  <2> SUFFICES ASSUME Clean' PROVE EditsInv'
    BY DEF EditsInv
  <2>1. ~raced' /\ ~misspliced /\ \A q \in posts' : q.parent = q.id - 1 /\ q.id > r.id
    BY <1>2, <1>3 DEF Clean
  <2>2. ~raced /\ r.parent = file.id /\ r.id > file.id
    BY <1>8, <2>1
  <2>3. r.id = file.id + 1
    <3> SUFFICES ASSUME r.id # file.id + 1 PROVE FALSE
      OBVIOUS
    <3>1. file.id + 1 \in (file.id + 1)..ids /\ ~(file.id + 1 > r.id)
      BY <1>4, <2>2
    <3>2. PICK q \in posts : q.id = file.id + 1
      BY <1>1, <2>2, <3>1 DEF OrderInv
    <3>3. q \in posts'
      BY <1>2, <3>2
    <3> QED BY <2>1, <3>1, <3>2, <3>3
  <2>4. Clean
    <3> SUFFICES ASSUME NEW q \in posts PROVE q.parent = q.id - 1 /\ q.id > file.id
      BY <2>1, <2>2 DEF Clean
    <3>1. CASE q = r
      BY <1>4, <2>2, <2>3, <3>1
    <3>2. CASE q # r
      <4>1. q \in posts'
        BY <1>2, <3>2
      <4>2. q.parent = q.id - 1 /\ q.id > r.id
        BY <2>1, <4>1
      <4> QED BY <1>4, <2>2, <4>2
    <3> QED BY <3>1, <3>2
  <2>5. /\ \A q \in posts : q.id = ids => Agrees(q.spec, last)
        /\ \A g \in gets : g.id = ids => Agrees(g.spec, last)
        /\ \A d \in Script : base[d] = ids => ScriptAgrees(net[d], edits[d], last)
        /\ \A p \in Page : base[p] = ids => PageAgrees(net[p], widgets[p], edits[p], last)
    BY <1>1, <2>4 DEF EditsInv
  <2> QED BY <1>2, <1>3, <2>5 DEF EditsInv
<1> QED BY <1>5, <1>6, <1>7, <1>9, <1>10 DEF ClientInv

-----------------------------------------------------------------------------
(* The steps of a page.                                                    *)

\* A step that leaves all but the labels typed, the mouse and the clicks as they are.
LEMMA QuietStep ==
  ASSUME ClientInv, UNCHANGED <<net, gets, posts, file, historyVars, widgets>>,
         typed' \in [Page -> Label \cup {Absent}]
  PROVE  ClientInv'
<1>1. ClientTypes /\ ViewsInv /\ OrderInv /\ PageInv /\ EditsInv
  BY DEF ClientInv
<1>2. UNCHANGED <<net, gets, posts, file, ids, base, edits, last, raced, misspliced, widgets>>
  BY DEF historyVars
<1>3. ClientTypes'
  BY <1>1, <1>2 DEF ClientTypes
<1>4. ViewsInv' /\ OrderInv' /\ PageInv'
  BY <1>1, <1>2 DEF ViewsInv, OrderInv, PageInv
<1>5. EditsInv'
  BY <1>1, <1>2 DEF EditsInv, Clean
<1> QED BY <1>3, <1>4, <1>5 DEF ClientInv

LEMMA SyncStep ==
  ASSUME ClientInv, NEW p \in Page, sync(p)
  PROVE  ClientInv'
<1> DEFINE g0 == [to |-> p, id |-> file.id, spec |-> file.spec]
<1>1. ClientTypes /\ ViewsInv /\ OrderInv /\ PageInv /\ EditsInv
  BY DEF ClientInv
<1>2. /\ gets' = gets \cup {g0}
      /\ UNCHANGED <<net, posts, file, ids, base, edits, last, raced, misspliced, widgets, typed>>
  BY DEF sync, Answer, netVars, historyVars, pageVars
<1>3. g0.to = p /\ g0.id = file.id /\ g0.spec = file.spec
  OBVIOUS
<1> HIDE DEF g0
<1>4. ClientTypes'
  BY <1>1, <1>2, <1>3 DEF ClientTypes
<1>5. ViewsInv'
  BY <1>1, <1>2, <1>3 DEF ViewsInv
<1>6. OrderInv' /\ PageInv'
  BY <1>1, <1>2 DEF OrderInv, PageInv
<1>7. EditsInv'
  BY <1>1, <1>2, <1>3 DEF EditsInv, Clean
<1> QED BY <1>4, <1>5, <1>6, <1>7 DEF ClientInv

LEMMA SyncedStep ==
  ASSUME ClientInv, NEW g \in gets, Synced(g)
  PROVE  ClientInv'
<1> DEFINE p == g.to
           n == update(net[p], g.spec)
<1>1. ClientTypes /\ ViewsInv /\ OrderInv /\ PageInv /\ EditsInv
  BY DEF ClientInv
<1>2. p \in Page /\ p \in Client /\ p \notin Script /\ g.id \in 1..ids /\ g.spec \in SpecType
  BY <1>1, NamesAssumption DEF ClientTypes, Client
<1>3. /\ gets' = gets \ {g} /\ net' = [net EXCEPT ![p] = n] /\ edits' = [edits EXCEPT ![p] = NoEdits]
      /\ UNCHANGED <<posts, file, ids, last, raced, misspliced, typed>>
      /\ IF Throws(g.spec) THEN UNCHANGED <<widgets, base>>
         ELSE widgets' = [widgets EXCEPT ![p] = Snapped(g.spec)] /\ base' = [base EXCEPT ![p] = g.id]
  BY DEF Synced
<1>4. /\ net \in [Client -> NetType] /\ DOMAIN edits = Client /\ base \in [Client -> 0..ids]
      /\ widgets \in [Page -> SpecType] /\ ids \in Nat
  BY <1>1 DEF ClientTypes
<1>5. n \in NetType /\ Consistent(n) /\ (~Throws(g.spec) => config(n) = g.spec)
  BY <1>2, <1>4, UpdateIs, SentAsIs
<1>6. Snapped(g.spec) \in SpecType /\ (Throws(Snapped(g.spec)) <=> Throws(g.spec))
  BY <1>2, SnappedIs
<1> HIDE DEF n, p
<1>7. /\ net' \in [Client -> NetType] /\ DOMAIN edits' = Client /\ base' \in [Client -> 0..ids]
      /\ widgets' \in [Page -> SpecType]
      /\ net'[p] = n /\ edits'[p] = NoEdits
      /\ \A d \in Client : d # p => net'[d] = net[d] /\ edits'[d] = edits[d] /\ base'[d] = base[d]
      /\ \A q \in Page : q # p => widgets'[q] = widgets[q]
      /\ ~Throws(g.spec) => widgets'[p] = Snapped(g.spec) /\ base'[p] = g.id
  <2>1. g.id \in 0..ids
    BY <1>2, <1>4
  <2>2. CASE Throws(g.spec)
    BY <1>2, <1>3, <1>4, <1>5, <2>2
  <2>3. CASE ~Throws(g.spec)
    BY <1>2, <1>3, <1>4, <1>5, <1>6, <2>1, <2>3
  <2> QED BY <2>2, <2>3
<1>8. ~misspliced => ~Throws(g.spec)
  BY <1>1 DEF ViewsInv
<1>9. ClientTypes'
  BY <1>1, <1>3, <1>7 DEF ClientTypes
<1>10. ViewsInv'
  <2>1. \A q \in Page : Consistent(net'[q])
    BY <1>1, <1>5, <1>7 DEF ViewsInv, Client
  <2>2. \A d \in Script : net'[d] = net[d]
    BY <1>2, <1>7 DEF Client
  <2> QED BY <1>1, <1>3, <2>1, <2>2 DEF ViewsInv
<1>11. OrderInv'
  BY <1>1, <1>3 DEF OrderInv
<1>12. PageInv'
  <2> SUFFICES ASSUME ~misspliced, NEW q \in Page PROVE TailEdited(widgets'[q].flows, DOMAIN edits'[q])
    BY <1>3 DEF PageInv
  <2>1. CASE q = p
    BY <1>6, <1>7, <1>8, <2>1, NoTail DEF SpecType
  <2>2. CASE q # p
    BY <1>1, <1>7, <2>2 DEF PageInv, Client
  <2> QED BY <2>1, <2>2
<1>13. EditsInv'
  <2> SUFFICES ASSUME Clean' PROVE EditsInv'
    BY DEF EditsInv
  <2>1. Clean /\ ~Throws(g.spec)
    BY <1>3, <1>8 DEF Clean
  <2>2. /\ file.id = ids => Agrees(file.spec, last)
        /\ \A r \in posts : r.id = ids => Agrees(r.spec, last)
        /\ \A h \in gets : h.id = ids => Agrees(h.spec, last)
        /\ \A d \in Script : base[d] = ids => ScriptAgrees(net[d], edits[d], last)
        /\ \A q \in Page : base[q] = ids => PageAgrees(net[q], widgets[q], edits[q], last)
    BY <1>1, <2>1 DEF EditsInv
  <2>3. \A d \in Script : base'[d] = ids' => ScriptAgrees(net'[d], edits'[d], last')
    BY <1>2, <1>3, <1>7, <2>2 DEF Client
  <2>4. ASSUME NEW q \in Page, base'[q] = ids' PROVE PageAgrees(net'[q], widgets'[q], edits'[q], last')
    <3>1. CASE q # p
      BY <1>3, <1>7, <2>2, <2>4, <3>1 DEF Client
    <3>2. CASE q = p
      <4>1. Agrees(g.spec, last)
        BY <1>3, <1>7, <2>1, <2>2, <2>4, <3>2
      <4>2. config(n) = g.spec
        BY <1>5, <2>1
      <4>3. \A t \in Target : Close(Says(g.spec, t), last[t]) /\ Close(Says(Snapped(g.spec), t), last[t])
        BY <1>2, <4>1, SnappedAgrees DEF Agrees
      <4>4. PageAgrees(n, Snapped(g.spec), NoEdits, last)
        BY <4>2, <4>3 DEF PageAgrees
      <4> QED BY <1>3, <1>7, <2>1, <3>2, <4>4
    <3> QED BY <3>1, <3>2
  <2>5. \A h \in gets' : h.id = ids' => Agrees(h.spec, last')
    BY <1>3, <2>2
  <2> QED BY <1>3, <2>2, <2>3, <2>4, <2>5 DEF EditsInv
<1> QED BY <1>9, <1>10, <1>11, <1>12, <1>13 DEF ClientInv

\* An edit made in the widgets.
LEMMA WidgetStep ==
  ASSUME ClientInv, NEW p \in Page, NEW u, NEW t \in Target, NEW v,
         WidgetsEdited(widgets[p], u, t, v),
         apply(p, u, t, v), typed' \in [Page -> Label \cup {Absent}]
  PROVE  ClientInv'
<1>1. PageInv /\ EditsInv
  BY DEF ClientInv
<1>2. u \in SpecType /\ Close(Says(u, t), v) /\ \A x \in Target \ {t} : Says(u, x) = Says(widgets[p], x)
  BY DEF WidgetsEdited
<1>3. ~misspliced => TailEdited(u.flows, DOMAIN edits[p] \cup {t})
  BY <1>1 DEF PageInv, WidgetsEdited
<1>4. ASSUME Clean, base[p] = ids PROVE \A x \in Target \ (DOMAIN edits[p] \cup {t}) : Close(Says(u, x), last[x])
  <2>1. PageAgrees(net[p], widgets[p], edits[p], last)
    BY <1>1, <1>4 DEF EditsInv
  <2> QED BY <1>2, <2>1 DEF PageAgrees
<1> QED BY <1>2, <1>3, <1>4, ApplyStep

LEMMA PageEdits ==
  ASSUME ClientInv, NEW p \in Page,
         \/ ClickAdd(p)
         \/ \E l \in Label : ClickRemove(p, l)
         \/ \E t \in Settable, v \in Steps : Change(p, t, v)
         \/ \E t \in Settable, v \in Value : Bump(p, t, v)
  PROVE  ClientInv'
<1>1. /\ net[p] \in NetType /\ widgets[p] \in SpecType /\ typed \in [Page -> Label \cup {Absent}]
      /\ Consistent(net[p])
  BY DEF ClientInv, ClientTypes, ViewsInv, Client
<1>2. Label \subseteq Target /\ Settable \subseteq Target /\ Steps \subseteq Value /\ SliderDefault \in Value
  BY NamesAssumption, SnapAssumption DEF Target, Steps
<1>3. ASSUME ClickAdd(p) PROVE ClientInv'
  <2> DEFINE w == widgets[p]
             l == typed[p]
             v == IF FlowAt(w, l) = 0 THEN SliderDefault ELSE Says(w, l)
             u == [w EXCEPT !.flows = Append(@, [label |-> l, val |-> v])]
  <2>1. l # Absent /\ typed' = [typed EXCEPT ![p] = Absent] /\ apply(p, u, l, v)
    BY <1>3 DEF ClickAdd
  <2>2. l \in Label /\ typed' \in [Page -> Label \cup {Absent}]
    BY <1>1, <2>1
  <2>3. l # Default
    BY <2>2, NamesAssumption
  <2>4. v \in Value /\ (FlowAt(w, l) # 0 => v = Says(w, l))
    BY <1>1, <1>2, <2>2, <2>3, SaysType
  <2> HIDE DEF v
  <2>5. WidgetsEdited(w, u, l, v)
    BY <1>1, <2>2, <2>4, AppendedIs
  <2> HIDE DEF u, l
  <2> QED BY <1>2, <2>1, <2>2, <2>5, WidgetStep
<1>4. ASSUME NEW l \in Label, ClickRemove(p, l) PROVE ClientInv'
  <2> DEFINE w == widgets[p]
             u == [w EXCEPT !.flows = RemoveAt(@, FlowAt(w, l))]
  <2>1. FlowAt(w, l) # 0 /\ typed' = typed /\ apply(p, u, l, Says(u, l))
    BY <1>4 DEF ClickRemove
  <2>2. WidgetsEdited(w, u, l, Says(u, l))
    BY <1>1, <2>1, CutIs
  <2> HIDE DEF u
  <2> QED BY <1>1, <1>2, <2>1, <2>2, WidgetStep
<1>5. ASSUME NEW t \in Settable, NEW v \in Steps, Change(p, t, v) PROVE ClientInv'
  <2> DEFINE w == widgets[p]
             u == Moved(w, t, v)
  <2>1. (t = Default \/ FlowAt(w, t) # 0) /\ typed' = typed /\ apply(p, u, t, v)
    BY <1>5 DEF Change
  <2>2. WidgetsEdited(w, u, t, v)
    BY <1>1, <1>2, <2>1, MovedIs
  <2> HIDE DEF u
  <2> QED BY <1>1, <1>2, <2>1, <2>2, WidgetStep
<1>6. ASSUME NEW t \in Settable, NEW v \in Value, Bump(p, t, v) PROVE ClientInv'
  <2> DEFINE n == SetValue(net[p], t, v)
             w == config(n)
             u == Snapped(w)
  <2>1. (t = Default \/ InTable(net[p], t)) /\ typed' = typed /\ apply(p, u, t, v)
    BY <1>6 DEF Bump
  <2>2. t \in Target /\ n \in NetType /\ Consistent(n) /\ EditedTo(net[p], n, t, v)
    BY <1>1, <1>2, <2>1, SetValueIs
  <2> HIDE DEF n
  <2>3. w \in SpecType /\ ~Throws(w)
    BY <2>2, ConfigIs, ConsistentIs
  <2>4. Says(w, t) = v /\ \A x \in Target \ {t} : Says(w, x) = Says(config(net[p]), x)
    BY <2>2 DEF EditedTo
  <2> HIDE DEF w
  <2>5. u \in SpecType /\ ~Throws(u)
    BY <2>3, SnappedIs
  <2>6. Close(Says(u, t), v)
    BY <2>2, <2>3, <2>4, SnappedAgrees, CloseIs
  <2>7. TailEdited(u.flows, DOMAIN edits[p] \cup {t})
    BY <2>5, NoTail DEF SpecType
  <2>8. ASSUME Clean, base[p] = ids, NEW x \in Target \ (DOMAIN edits[p] \cup {t})
        PROVE  Close(Says(u, x), last[x])
    <3>1. PageAgrees(net[p], widgets[p], edits[p], last)
      BY <2>8 DEF ClientInv, EditsInv
    <3>2. Close(Says(w, x), last[x])
      BY <2>4, <3>1 DEF PageAgrees
    <3> QED BY <2>3, <3>2, SnappedAgrees
  <2> HIDE DEF u
  <2> QED BY <1>1, <2>1, <2>2, <2>5, <2>6, <2>7, <2>8, ApplyStep
<1> QED BY <1>3, <1>4, <1>5, <1>6

LEMMA ClientInvStep == ClientInv /\ [Next]_<<vars, pageVars>> => ClientInv'
<1> SUFFICES ASSUME ClientInv, [Next]_<<vars, pageVars>> PROVE ClientInv'
  OBVIOUS
<1>0. typed \in [Page -> Label \cup {Absent}]
  BY DEF ClientInv, ClientTypes
<1>1. CASE UNCHANGED <<vars, pageVars>>
  BY <1>0, <1>1, QuietStep DEF vars, netVars, httpVars, pageVars
<1>2. ASSUME NEW p \in Page, sync(p) PROVE ClientInv'
  BY <1>2, SyncStep
<1>3. ASSUME NEW p \in Page, Press(p) PROVE ClientInv'
  BY <1>0, <1>3, QuietStep DEF Press, vars, netVars, httpVars
<1>4. ASSUME NEW p \in Page, NEW l \in Label, Type(p, l) PROVE ClientInv'
  <2>1. typed' \in [Page -> Label \cup {Absent}]
    BY <1>0, <1>4 DEF Type
  <2> QED BY <1>4, <2>1, QuietStep DEF Type, vars, netVars, httpVars
<1>5. ASSUME NEW p \in Page,
             \/ ClickAdd(p)
             \/ \E l \in Label : ClickRemove(p, l)
             \/ \E t \in Settable, v \in Steps : Change(p, t, v)
             \/ \E t \in Settable, v \in Value : Bump(p, t, v)
      PROVE  ClientInv'
  BY <1>5, PageEdits
<1>6. ASSUME NEW g \in gets, Synced(g) PROVE ClientInv'
  BY <1>6, SyncedStep
<1>7. ASSUME ScriptNext, UNCHANGED pageVars PROVE ClientInv'
  <2>1. ASSUME NEW c \in Script,
               \/ \E l \in Label : ScriptAdd(c, l) \/ ScriptRemove(c, l)
               \/ \E t \in Settable, v \in Value : ScriptSet(c, t, v)
        PROVE  ClientInv'
    BY <1>7, <2>1, ScriptEdits
  <2>2. ASSUME NEW c \in Script, commit(c) PROVE ClientInv'
    BY <1>7, <2>2, CommitStep
  <2>3. ASSUME NEW c \in Script, get(c) PROVE ClientInv'
    BY <1>7, <2>3, GetStep
  <2>4. ASSUME NEW r \in posts, Posted(r) PROVE ClientInv'
    BY <1>7, <2>4, PostedStep
  <2> QED BY <1>7, <2>1, <2>2, <2>3, <2>4 DEF ScriptNext
<1> QED BY <1>1, <1>2, <1>3, <1>4, <1>5, <1>6, <1>7 DEF Next, PageNext

LEMMA ClientInvAlways == Spec => []ClientInv
BY ClientInvInit, ClientInvStep, PTL DEF Spec

\* As long as removeFlow cut the right flow, every client's list and table hold the
\* same flows, and no file names a label twice.
THEOREM ViewsAgreeAlways == Spec => []ViewsAgree
<1>1. ClientInv => ViewsAgree
  BY DEF ClientInv, ViewsInv, ViewsAgree, Client
<1> QED BY <1>1, ClientInvAlways, PTL

\* No edit is lost unless a POST overwrote a spec it does not derive from: with no
\* POST under way the newest number is the file's.
THEOREM EditsStick == Spec => []EditsStickUnlessRaced
<1>1. ClientInv => EditsStickUnlessRaced
  <2> SUFFICES ASSUME ClientInv, posts = {}, ~raced, ~misspliced, NEW t \in Target
               PROVE  Says(file.spec, t) \in {last[t]} \cup {Snap[v] : v \in Value \cap {last[t]}}
    BY DEF EditsStickUnlessRaced
  <2>1. ClientTypes /\ OrderInv /\ EditsInv
    BY DEF ClientInv
  <2>2. file.id = ids
    <3> SUFFICES ASSUME file.id # ids PROVE FALSE
      OBVIOUS
    <3>1. ids \in (file.id + 1)..ids
      BY <2>1 DEF ClientTypes
    <3> QED BY <2>1, <3>1 DEF OrderInv
  <2>3. Clean
    BY DEF Clean
  <2>4. Close(Says(file.spec, t), last[t])
    BY <2>1, <2>2, <2>3 DEF EditsInv, Agrees
  <2> QED BY <2>4 DEF Close
<1> QED BY <1>1, ClientInvAlways, PTL
=============================================================================
