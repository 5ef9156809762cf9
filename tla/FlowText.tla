------------------------------ MODULE FlowText ------------------------------
(***************************************************************************)
(* Flow expressions (frontend/client/flow.js): the text "ip:protocol:ports" *)
(* that the page shows for a flow of the spec and for each row of the      *)
(* traffic profile, and reads when a flow is added; a click on a row puts  *)
(* its text into the form.  A text is a record of three fields that are    *)
(* the sequences of the numbers in them; << >> is "*".                     *)
(***************************************************************************)
EXTENDS Profile

Text(n) == IF n > 0 THEN <<n>> ELSE << >>
Number(text) == IF text = << >> THEN 0 ELSE text[1]

\* Mutant: a flow of one port is shown as the range that it begins.
flowString_Open(f) ==
  [ip |-> Text(f.ip), protocol |-> Text(f.protocol),
   ports |-> IF f.port_min > 0 THEN <<f.port_min, MaxPort>> ELSE << >>]
\* A range is shown if it does not begin at 0; where it ends is not looked at
\* (the code tests flow.ports_max, which is undefined, not flow.port_max).
flowString(f) ==
  [ip |-> Text(f.ip), protocol |-> Text(f.protocol),
   ports |-> CASE f.port_min = f.port_max -> <<f.port_min>>
               [] f.port_min # f.port_max /\ f.port_min > 0 -> <<f.port_min, f.port_max>>
               [] OTHER -> << >>]

\* One port or two, in any order.
parsePortRange(ports) ==
  LET a == Head(ports)
      b == Last(ports)
  IN IF a <= b THEN <<a, b>> ELSE <<b, a>>

parseFlow(text) ==
  LET range == IF text.ports = << >> THEN <<0, MaxPort>> ELSE parsePortRange(text.ports)
  IN [ip |-> Number(text.ip), protocol |-> Number(text.protocol),
      port_min |-> range[1], port_max |-> range[2]]

\* The flow that _parse makes of a tuple.
RowFlow(t) == [ip |-> t.ip, protocol |-> t.protocol, port_min |-> t.port,
               port_max |-> IF t.port > 0 THEN t.port ELSE MaxPort]

\* The flow that is added with the text shown for f.
Retyped(f) == SyntheticFlow("new", parseFlow(flowString(f)))

\* The flow added from the text of a packet's row in the profile has the packet
\* and, if the row names a port and an address (0.0.0.0 is shown as "*"), no packet
\* of the same traffic that the profile has in another row; and the text of a flow
\* of the spec is that of no other, unless it has ports from 0 on but not all,
\* which are shown as "*", or "0", and come back as all ports (flow.js:72,
\* client.js:208), or a range that is backwards (flow.js:90 turns it round).
TextMeansItsFlow ==
  /\ \A s \in sorted : s.p.ipv4 /\ ~s.p.options =>
       LET f == Retyped(RowFlow(flow_count(s.p, s.dir)))
       IN /\ flow_match(s.p, f, s.dir)
          /\ f.port_min > 0 /\ f.ip > 0 =>
               \A q \in Scenarios : \A i \in DOMAIN q.traffic :
                 LET o == q.traffic[i]
                 IN flow_match(o.p, f, o.dir) =>
                      flow_count(o.p, o.dir) = flow_count(s.p, s.dir)
  /\ \A i \in DOMAIN flows : LET f == flows[i] IN
       /\ f.port_min <= f.port_max
       /\ f.port_min > 0 \/ f.port_max = MaxPort
       <=> Retyped(f) = [f EXCEPT !.label = "new"]
=============================================================================
