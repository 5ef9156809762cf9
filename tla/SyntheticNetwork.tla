-------------------------- MODULE SyntheticNetwork --------------------------
(***************************************************************************)
(* rush/src/synthetic_network.rs: the translation of a QoS spec into an    *)
(* app network (configure_synthetic_network), guarded by sanitize_labels,  *)
(* and its application to the running network by engine::configure, as     *)
(* main goes about it at every reload.  An app's name is the tuple of the  *)
(* parts that format! joins with "_"; a port is [app, port].               *)
(***************************************************************************)
EXTENDS Engine, Sequences, SequencesExt

CONSTANTS outer, inner,   \* the two interfaces' names
          Specs,          \* QoS specs that are read: [default_link, flows]
          Malformed,      \* labels that LABEL_SYNTAX does not match
          NoSpec          \* before the first spec

ASSUME InterfacesAssumption == outer # inner
ASSUME SpecsAssumption == \A s \in Specs : /\ Len(s.flows) \in Nat
                                           /\ DOMAIN s.flows = 1..Len(s.flows)

VARIABLE spec   \* the spec that was applied last

vars == <<engineVars, spec>>

Directions == {"ingress", "egress"}
At(app, port) == [app |-> app, port |-> port]
Link(from, to) == [from |-> from, to |-> to]

\* A part of a configuration: apps, from names to arguments, and links.
Part(apps, links) == [apps |-> apps, links |-> links]

\* config::app inserts into a HashMap: the last app of a name wins.
Both(c, d) == Part(Override(c.apps, d.apps), c.links \cup d.links)

\* The parts, one after the other.
Joined(parts) ==
  LET Names(i) == DOMAIN parts[i].apps
      LastOf(n) == Max({i \in DOMAIN parts : n \in Names(i)})
  IN Part([n \in UNION {Names(i) : i \in DOMAIN parts} |-> parts[LastOf(n)].apps[n]],
          UNION {parts[i].links : i \in DOMAIN parts})

\* f64::clamp(0.0, 1.0), in percent.
clamp(x) == IF x < 0 THEN 0 ELSE IF x > 100 THEN 100 ELSE x

\* "rate_ingress", "rate_ingress_http", ...
QoSName(app, label) == <<app>> \o label

configure_qos(label, input, output, q) ==
  LET rate == QoSName("rate", label)
      loss == QoSName("loss", label)
      latency == QoSName("latency", label)
      jitter == QoSName("jitter", label)
  IN Part([n \in {rate, loss, latency, jitter} |->
             CASE n = rate -> [app |-> "RateLimiter", rate |-> q.rate]
               [] n = loss -> [app |-> "Loss", ratio |-> clamp(q.loss)]
               [] n = latency -> [app |-> "Latency", ms |-> q.latency]
               [] n = jitter -> [app |-> "Jitter", ms |-> q.jitter, reorder |-> q.reorder_packets,
                                 strength |-> clamp(q.jitter_strength)]],
          {Link(input, At(rate, "input")),
           Link(At(rate, "output"), At(loss, "input")),
           Link(At(loss, "output"), At(latency, "input")),
           Link(At(latency, "output"), At(jitter, "input")),
           Link(At(jitter, "output"), output)})

\* Mutant: both directions take the ingress QoS.
FlowQoS_Ingress(flow, dir) == flow.link.ingress
FlowQoS(flow, dir) == flow.link[dir]

configure_flows(split, join, flows, dir) ==
  Joined([i \in DOMAIN flows |->
            configure_qos(<<dir, flows[i].label>>, At(split, flows[i].label),
                          At(join, flows[i].label), FlowQoS(flows[i], dir))])

\* The flows of a Split app: labels and what they match, in order.
SplitFlows(flows, dir) ==
  [i \in DOMAIN flows |-> [label |-> flows[i].label, dir |-> dir, flow |-> flows[i].flow]]

\* One path, from the interface it receives on to the one it transmits on:
\* TSD, Checksum and Split, the QoS apps of the default link and of each flow,
\* Join and Top.
ConfigurePath(rx, tx, dir, s) ==
  LET tsd == <<rx, "tsd">>
      offload == <<rx, "offload">>
      split == <<rx, "split">>
      join == <<tx, "join">>
      top == <<rx, "top">>
      apps == [n \in {tsd, offload, top, split, join} |->
                 CASE n = tsd -> [app |-> "TSD"]
                   [] n = offload -> [app |-> "Checksum"]
                   [] n = top -> [app |-> "Top", dir |-> dir]
                   [] n = split -> [app |-> "Split", flows |-> SplitFlows(s.flows, dir)]
                   [] n = join -> [app |-> "Join"]]
      links == {Link(At(<<rx>>, "output"), At(tsd, "input")),
                Link(At(tsd, "output"), At(offload, "input")),
                Link(At(offload, "output"), At(split, "input")),
                Link(At(join, "output"), At(top, "input")),
                Link(At(top, "output"), At(<<tx>>, "input"))}
  IN Both(Both(Part(apps, links),
               configure_qos(<<dir>>, At(split, "default"), At(join, "default"),
                             s.default_link[dir])),
          configure_flows(split, join, s.flows, dir))

configure_synthetic_network(s) ==
  LET interfaces == [n \in {<<outer>>, <<inner>>} |-> [app |-> "RawSocket"]]
  IN Both(Part(interfaces, {}),
          Both(ConfigurePath(outer, inner, "ingress", s),
               ConfigurePath(inner, outer, "egress", s)))

\* Mutant: the reserved label goes through.
sanitize_labels_NoReserved(s) ==
  /\ \A i \in DOMAIN s.flows : s.flows[i].label \notin Malformed
  /\ \A i, j \in DOMAIN s.flows : s.flows[i].label = s.flows[j].label => i = j
\* Mutant: only neighbours are compared.
sanitize_labels_Neighbours(s) ==
  /\ \A i \in DOMAIN s.flows : s.flows[i].label \notin Malformed \cup {"default"}
  /\ \A i, j \in DOMAIN s.flows : s.flows[i].label = s.flows[j].label => i # j + 1
sanitize_labels(s) ==
  /\ \A i \in DOMAIN s.flows : s.flows[i].label \notin Malformed \cup {"default"}
  /\ \A i, j \in DOMAIN s.flows : s.flows[i].label = s.flows[j].label => i = j

Init == EngineInit /\ spec = NoSpec

\* main: a spec that sanitize_labels accepts is translated and applied ...
Apply(s) == /\ sanitize_labels(s)
            /\ spec' = s
            /\ configure(configure_synthetic_network(s))
\* ... and any other leaves the network as it is.
Reject(s) == /\ pc = "idle"
             /\ ~sanitize_labels(s)
             /\ UNCHANGED vars

Next == \/ \E s \in Specs : Apply(s) \/ Reject(s)
        \/ EngineNext /\ UNCHANGED spec

Spec == Init /\ [][Next]_vars

-----------------------------------------------------------------------------

\* The ports that an app's callbacks unwrap() must be linked: input and output
\* of the QoS and offload apps and Top, and one output of Split for each of its
\* flows besides the default output.  Two outputs of Split are never the same
\* link (push borrows the default link while it borrows the flow's).  Links run
\* between apps that exist, and a port is on one link: a second one would take
\* its place in the app's table of ports, and the first would never be read or
\* written again.
PortsAreLinked ==
  /\ \A l \in config.links : {l.from.app, l.to.app} \subseteq DOMAIN config.apps
  /\ \A l, m \in config.links : l.from = m.from \/ l.to = m.to => l = m
  /\ \A n \in DOMAIN config.apps :
    LET arg == config.apps[n] IN
    IF arg.app = "Split"
    THEN /\ Inputs(n, config.links) = {"input"}
         /\ Outputs(n, config.links) = {"default"} \cup {arg.flows[i].label : i \in DOMAIN arg.flows}
         /\ \A i \in DOMAIN arg.flows : arg.flows[i].label # "default"
    ELSE arg.app # "Join" => Inputs(n, config.links) = {"input"} /\ Outputs(n, config.links) = {"output"}

\* The link a packet takes that app n transmits on port p, and the app there.
NextHop(n, p) == (CHOOSE l \in config.links : l.from = At(n, p)).to.app

\* The arguments a packet of the given class (a flow's label or "default") meets
\* from the Split it enters to the interface it leaves by.
Journey(rx, class) ==
  LET Out(n) == NextHop(n, "output")
      rate == NextHop(<<rx, "split">>, class)
      loss == Out(rate)
      latency == Out(loss)
      jitter == Out(latency)
      join == Out(jitter)
      top == Out(join)
  IN <<config.apps[rate], config.apps[loss], config.apps[latency], config.apps[jitter],
       config.apps[join], config.apps[top], Out(top)>>

Promised(q, dir, tx) ==
  <<[app |-> "RateLimiter", rate |-> q.rate],
    [app |-> "Loss", ratio |-> clamp(q.loss)],
    [app |-> "Latency", ms |-> q.latency],
    [app |-> "Jitter", ms |-> q.jitter, reorder |-> q.reorder_packets,
     strength |-> clamp(q.jitter_strength)],
    [app |-> "Join"], [app |-> "Top", dir |-> dir], <<tx>> >>

\* A packet of a flow meets that flow's own QoS for its direction, once, and
\* leaves by the other interface: flows and directions do not share or cross
\* their apps, though both paths' apps live in one table of names.
FlowsGetTheirQoS ==
  spec # NoSpec =>
    \A dir \in Directions :
      LET rx == IF dir = "ingress" THEN outer ELSE inner
          tx == IF dir = "ingress" THEN inner ELSE outer
      IN /\ Journey(rx, "default") = Promised(spec.default_link[dir], dir, tx)
         /\ \A i \in DOMAIN spec.flows :
              Journey(rx, spec.flows[i].label)
                = Promised(spec.flows[i].link[dir], dir, tx)

\* The QoS in s of the apps named by label, if s has that flow.
QoSOf(s, label) ==
  IF Len(label) = 1 THEN {s.default_link[label[1]]}
  ELSE {s.flows[i].link[label[1]] : i \in {j \in DOMAIN s.flows : s.flows[j].label = label[2]}}

\* The fields of a QoS that go into the arguments of each of its apps.
Fields == [rate |-> {"rate"}, loss |-> {"loss"}, latency |-> {"latency"},
           jitter |-> {"jitter", "jitter_strength", "reorder_packets"}]

\* doc/report2: "Every change in the UI sends a SIGHUP signal".  A reload
\* restarts (dropping what it has queued) no app but the splits and those whose
\* own fields of their own flow and direction were changed: moving the rate
\* slider does not empty the delay queues.  The interfaces are never reopened.
ReloadIsLocal ==
  [][spec # NoSpec =>
       /\ \A n \in DOMAIN config.apps \cap DOMAIN config'.apps :
            config.apps[n] # config'.apps[n] =>
              \/ config.apps[n].app = "Split"
              \/ /\ n[1] \in DOMAIN Fields
                 /\ \E f \in Fields[n[1]] :
                      {q[f] : q \in QoSOf(spec, Tail(n))} # {q[f] : q \in QoSOf(spec', Tail(n))}
       /\ {<<outer>>, <<inner>>} \subseteq DOMAIN config'.apps]_vars
=============================================================================
