--------------------------- MODULE NetworkProofs ---------------------------
(***************************************************************************)
(* For every list of flows and every sequence of reloads: configure makes  *)
(* the running network match what the spec was translated into, keeps what *)
(* did not change, and fails no unwrap(); and the translation gives every  *)
(* flow its own QoS apps, once and in both directions.                     *)
(***************************************************************************)
EXTENDS SyntheticNetwork, SequenceTheorems, TLAPS

-----------------------------------------------------------------------------
(* configure.                                                              *)

\* An entry of app_table has its four fields.
Cell(r) == r = [app |-> r.app, conf |-> r.conf, input |-> r.input, output |-> r.output]

\* A configuration links the apps it has.
Ends(c) == \A l \in c.links : {l.from.app, l.to.app} \subseteq DOMAIN c.apps

\* An app's ports hold no more than the links in the table.
Ports == \A n \in DOMAIN app_table :
           /\ Cell(app_table[n])
           /\ DOMAIN app_table[n].output \subseteq Outputs(n, DOMAIN link_table)
           /\ DOMAIN app_table[n].input \subseteq Inputs(n, DOMAIN link_table)

\* What the loops before it have done when one begins.
Progress ==
  /\ pc = "unlink" => EndsExist(DOMAIN link_table)
  /\ pc \in {"stop", "start", "link"} => DOMAIN link_table \subseteq config.links
  /\ pc \in {"start", "link"} =>
       \A n \in DOMAIN app_table : n \in DOMAIN config.apps /\ app_table[n].conf = config.apps[n]
  /\ pc = "link" => DOMAIN app_table = DOMAIN config.apps
  /\ pc = "idle" => MatchesConfig

\* An app or link that is there is the one that was there before the call, and
\* an app is missing or new only if it was not to stay.
KeptApps ==
  /\ \A n \in DOMAIN app_table : app_table[n].app \in Nat /\ app_table[n].app <= calls
  /\ \A n \in DOMAIN before.apps : before.apps[n].app \in Nat /\ before.apps[n].app < calls
  /\ pc = "unlink" => app_table = before.apps
  /\ pc \in {"stop", "start"} =>
       \A n \in DOMAIN app_table : /\ n \in DOMAIN before.apps
                                   /\ app_table[n].app = before.apps[n].app
                                   /\ app_table[n].conf = before.apps[n].conf
  /\ pc = "stop" => DOMAIN app_table = DOMAIN before.apps
  /\ pc = "start" =>
       \A n \in DOMAIN before.apps \cap DOMAIN config.apps :
         before.apps[n].conf = config.apps[n] => n \in DOMAIN app_table
  /\ pc \in {"link", "idle"} =>
       \A n \in DOMAIN app_table \cap DOMAIN before.apps :
         app_table[n].app = before.apps[n].app <=> app_table[n].conf = before.apps[n].conf

KeptLinks ==
  /\ pc = "unlink" => link_table = before.links
  /\ pc \in {"stop", "start", "link"} =>
       /\ \A l \in DOMAIN link_table : l \in DOMAIN before.links /\ link_table[l] = before.links[l]
       /\ DOMAIN before.links \cap config.links \subseteq DOMAIN link_table
  /\ pc = "idle" =>
       \A l \in DOMAIN link_table \cap DOMAIN before.links : link_table[l] = before.links[l]

EngineInv ==
  /\ pc \in {"idle", "unlink", "stop", "start", "link"} /\ calls \in Nat /\ panicked = FALSE
  /\ Ends(config) /\ Ports /\ Progress /\ KeptApps /\ KeptLinks

LEMMA EmptyFacts == (\A x \in DOMAIN Empty : FALSE) /\ Empty = [x \in {} |-> x]
  BY DEF Empty

LEMMA EngineInitInv ==
  ASSUME EngineInit
  PROVE  EngineInv
  <1> USE DEF EngineInit
  <1>1. \A x \in DOMAIN Empty : FALSE
    BY EmptyFacts
  <1>2. DOMAIN app_table = {} /\ DOMAIN link_table = {} /\ DOMAIN config.apps = {} /\ config.links = {}
        /\ DOMAIN before.apps = {}
    BY <1>1
  <1>3. MatchesConfig
    BY <1>2 DEF MatchesConfig
  <1> QED
    BY <1>2, <1>3 DEF EngineInv, Ends, Ports, Progress, KeptApps, KeptLinks

LEMMA ConfigureStep ==
  ASSUME EngineInv, NEW c, Ends(c), configure(c)
  PROVE  EngineInv'
  <1>1. /\ pc = "idle" /\ calls' = calls + 1 /\ config' = c /\ pc' = "unlink"
        /\ before' = [apps |-> app_table, links |-> link_table]
        /\ UNCHANGED <<app_table, link_table, panicked>>
    BY DEF configure
  <1>2. before'.apps = app_table /\ before'.links = link_table
    BY <1>1
  <1>3. Progress'
    <2>1. DOMAIN app_table = DOMAIN config.apps /\ DOMAIN link_table = config.links
      BY <1>1 DEF EngineInv, Progress, MatchesConfig, Configured
    <2> QED
      BY <1>1, <2>1 DEF EngineInv, Ends, Progress, EndsExist
  <1>4. Ports'
    BY <1>1 DEF EngineInv, Ports
  <1>5. KeptApps' /\ KeptLinks'
    BY <1>1, <1>2 DEF EngineInv, KeptApps, KeptLinks
  <1> QED
    BY <1>1, <1>3, <1>4, <1>5 DEF EngineInv

LEMMA UnlinkStep ==
  ASSUME EngineInv, unlink_apps
  PROVE  EngineInv'
  <1>1. /\ pc = "unlink" /\ pc' = "stop" /\ UNCHANGED <<config, calls, before>>
        /\ IF ~EndsExist(Gone) THEN Panic
           ELSE /\ link_table' = Restrict(link_table, DOMAIN link_table \ Gone)
                /\ app_table' = [n \in DOMAIN app_table |->
                     [app_table[n] EXCEPT !.output = Restrict(@, DOMAIN @ \ Outputs(n, Gone)),
                                          !.input = Restrict(@, DOMAIN @ \ Inputs(n, Gone))]]
                /\ UNCHANGED panicked
    BY DEF unlink_apps, Loop, Phases
  <1>2. EndsExist(Gone)
    BY <1>1 DEF EngineInv, Progress, EndsExist, Gone
  <1>3. /\ link_table' = Restrict(link_table, DOMAIN link_table \ Gone) /\ panicked' = panicked
        /\ DOMAIN app_table' = DOMAIN app_table
        /\ \A n \in DOMAIN app_table : app_table'[n] =
             [app_table[n] EXCEPT !.output = Restrict(@, DOMAIN @ \ Outputs(n, Gone)),
                                  !.input = Restrict(@, DOMAIN @ \ Inputs(n, Gone))]
    BY <1>1, <1>2
  <1>4. /\ DOMAIN link_table' = DOMAIN link_table \ Gone
        /\ DOMAIN link_table' = DOMAIN link_table \cap config.links
        /\ \A l \in DOMAIN link_table' : link_table'[l] = link_table[l]
    BY <1>3 DEF Restrict, Gone
  <1>5. ASSUME NEW n \in DOMAIN app_table
        PROVE  /\ Cell(app_table'[n]) /\ app_table'[n].app = app_table[n].app
               /\ app_table'[n].conf = app_table[n].conf
               /\ app_table'[n].output =
                    Restrict(app_table[n].output, DOMAIN app_table[n].output \ Outputs(n, Gone))
               /\ app_table'[n].input =
                    Restrict(app_table[n].input, DOMAIN app_table[n].input \ Inputs(n, Gone))
    BY <1>3 DEF EngineInv, Ports, Cell
  <1>6. ASSUME NEW n \in DOMAIN app_table
        PROVE  /\ DOMAIN app_table'[n].output \subseteq Outputs(n, DOMAIN link_table')
               /\ DOMAIN app_table'[n].input \subseteq Inputs(n, DOMAIN link_table')
    <2>1. /\ DOMAIN app_table'[n].output = DOMAIN app_table[n].output \ Outputs(n, Gone)
          /\ DOMAIN app_table'[n].input = DOMAIN app_table[n].input \ Inputs(n, Gone)
      BY <1>5 DEF Restrict
    <2> QED
      BY <1>4, <2>1 DEF EngineInv, Ports, Outputs, Inputs
  <1>7. Ports'
    BY <1>3, <1>5, <1>6 DEF Ports
  <1>8. Progress'
    BY <1>1, <1>4 DEF Progress
  <1>9. KeptApps'
    BY <1>1, <1>3, <1>5 DEF EngineInv, KeptApps
  <1>10. KeptLinks'
    BY <1>1, <1>4 DEF EngineInv, KeptLinks
  <1> QED
    BY <1>1, <1>3, <1>7, <1>8, <1>9, <1>10 DEF EngineInv, Ends

LEMMA StopStep ==
  ASSUME EngineInv, stop_app
  PROVE  EngineInv'
  <1>1. /\ pc = "stop" /\ pc' = "start" /\ UNCHANGED <<config, calls, before, link_table, panicked>>
        /\ app_table' = Restrict(app_table, {n \in DOMAIN app_table : Stays(n)})
    BY DEF stop_app, Loop, Phases
  <1>2. /\ DOMAIN app_table' = {n \in DOMAIN app_table : Stays(n)}
        /\ \A n \in DOMAIN app_table' : app_table'[n] = app_table[n]
    BY <1>1 DEF Restrict
  <1>3. Ports'
    BY <1>1, <1>2 DEF EngineInv, Ports
  <1>4. Progress'
    BY <1>1, <1>2 DEF EngineInv, Progress, Stays
  <1>5. KeptApps'
    BY <1>1, <1>2 DEF EngineInv, KeptApps, Stays
  <1>6. KeptLinks'
    BY <1>1 DEF EngineInv, KeptLinks
  <1> QED
    BY <1>1, <1>3, <1>4, <1>5, <1>6 DEF EngineInv, Ends

LEMMA StartStep ==
  ASSUME EngineInv, start_app
  PROVE  EngineInv'
  <1> DEFINE fresh(n) == [app |-> calls, conf |-> config.apps[n], input |-> Empty, output |-> Empty]
  <1>1. /\ pc = "start" /\ pc' = "link" /\ UNCHANGED <<config, calls, before, link_table, panicked>>
        /\ app_table' = [n \in DOMAIN app_table \cup DOMAIN config.apps |->
                           IF n \in DOMAIN app_table THEN app_table[n] ELSE fresh(n)]
    BY DEF start_app, Loop, Phases
  <1>2. /\ DOMAIN app_table' = DOMAIN config.apps
        /\ \A n \in DOMAIN app_table : app_table'[n] = app_table[n]
        /\ \A n \in DOMAIN app_table' \ DOMAIN app_table : app_table'[n] = fresh(n)
    BY <1>1 DEF EngineInv, Progress
  <1>3. \A n : /\ Cell(fresh(n)) /\ fresh(n).app = calls /\ fresh(n).conf = config.apps[n]
               /\ DOMAIN fresh(n).input = {} /\ DOMAIN fresh(n).output = {}
    <2>1. DOMAIN Empty = {}
      BY EmptyFacts
    <2> QED
      BY <2>1 DEF Cell
  <1> HIDE DEF fresh
  <1>4. Ports'
    BY <1>1, <1>2, <1>3 DEF EngineInv, Ports
  <1>5. Progress'
    BY <1>1, <1>2, <1>3 DEF EngineInv, Progress
  <1>6. KeptApps'
    BY <1>1, <1>2, <1>3 DEF EngineInv, KeptApps, Progress
  <1>7. KeptLinks'
    BY <1>1 DEF EngineInv, KeptLinks
  <1> QED
    BY <1>1, <1>4, <1>5, <1>6, <1>7 DEF EngineInv, Ends

LEMMA LinkStep ==
  ASSUME EngineInv, link_apps
  PROVE  EngineInv'
  <1> DEFINE old(n) == app_table[n]
             new(n) == [app_table[n] EXCEPT !.output = Override(@, OnOutputs(n, link_table')),
                                            !.input = Override(@, OnInputs(n, link_table'))]
  <1>1. /\ pc = "link" /\ pc' = "idle" /\ UNCHANGED <<config, calls, before>>
        /\ IF ~EndsExist(config.links) THEN Panic
           ELSE /\ link_table' = Override([l \in config.links |-> calls], link_table)
                /\ app_table' = Plugged(link_table')
                /\ UNCHANGED panicked
    BY DEF link_apps, Loop, Phases
  <1>2. EndsExist(config.links)
    BY <1>1 DEF EngineInv, Progress, Ends, EndsExist
  <1>3. /\ link_table' = Override([l \in config.links |-> calls], link_table)
        /\ panicked' = panicked /\ DOMAIN app_table' = DOMAIN app_table
        /\ \A n \in DOMAIN app_table : app_table'[n] = new(n)
    BY <1>1, <1>2 DEF Plugged
  <1>4. /\ DOMAIN link_table' = config.links
        /\ \A l \in DOMAIN link_table : link_table'[l] = link_table[l]
    BY <1>1, <1>3 DEF EngineInv, Progress, Override
  <1>5. ASSUME NEW n \in DOMAIN app_table
        PROVE  /\ Cell(app_table'[n]) /\ app_table'[n].app = app_table[n].app
               /\ app_table'[n].conf = app_table[n].conf
               /\ app_table'[n].output = Override(app_table[n].output, OnOutputs(n, link_table'))
               /\ app_table'[n].input = Override(app_table[n].input, OnInputs(n, link_table'))
    BY ZenonT(60), <1>3 DEF EngineInv, Ports, Cell
  <1> HIDE DEF new, old
  <1>6. ASSUME NEW n \in DOMAIN app_table
        PROVE  /\ app_table'[n].output = OnOutputs(n, link_table')
               /\ app_table'[n].input = OnInputs(n, link_table')
    <2>1. DOMAIN link_table \subseteq config.links
      BY <1>1 DEF EngineInv, Progress
    <2>2. DOMAIN app_table[n].output \subseteq Outputs(n, config.links)
      BY <2>1 DEF EngineInv, Ports, Outputs
    <2>3. DOMAIN app_table[n].input \subseteq Inputs(n, config.links)
      BY <2>1 DEF EngineInv, Ports, Inputs
    <2>4. Override(app_table[n].output, OnOutputs(n, link_table')) = OnOutputs(n, link_table')
      BY <2>2 DEF OnOutputs, Override
    <2>5. Override(app_table[n].input, OnInputs(n, link_table')) = OnInputs(n, link_table')
      BY <2>3 DEF OnInputs, Override
    <2> QED
      BY <1>5, <2>4, <2>5
  <1>7. Ports'
    <2>1. \A n : DOMAIN OnOutputs(n, link_table') = Outputs(n, DOMAIN link_table')
                 /\ DOMAIN OnInputs(n, link_table') = Inputs(n, DOMAIN link_table')
      BY <1>4 DEF OnOutputs, OnInputs
    <2> QED
      BY <1>3, <1>5, <1>6, <2>1 DEF Ports
  <1>8. MatchesConfig'
    <2>1. DOMAIN app_table = DOMAIN config.apps
          /\ \A n \in DOMAIN app_table : app_table[n].conf = config.apps[n]
      BY <1>1 DEF EngineInv, Progress
    <2>2. \A n \in DOMAIN app_table : OnOutputs(n, link_table)' = OnOutputs(n, link_table')
                                      /\ OnInputs(n, link_table)' = OnInputs(n, link_table')
      BY <1>1 DEF OnOutputs, OnInputs
    <2> QED
      BY <1>1, <1>3, <1>4, <1>5, <1>6, <2>1, <2>2 DEF EngineInv, MatchesConfig
  <1>9. Progress'
    BY <1>1, <1>8 DEF Progress
  <1>10. KeptApps'
    BY <1>1, <1>3, <1>5 DEF EngineInv, KeptApps
  <1>11. KeptLinks'
    BY <1>1, <1>4 DEF EngineInv, KeptLinks
  <1> QED
    BY <1>1, <1>3, <1>7, <1>9, <1>10, <1>11 DEF EngineInv, Ends

LEMMA EngineStep ==
  ASSUME EngineInv, EngineNext
  PROVE  EngineInv'
  BY UnlinkStep, StopStep, StartStep, LinkStep DEF EngineNext

LEMMA EngineInvFacts ==
  ASSUME EngineInv
  PROVE  MatchesConfig /\ KeepsUnchanged
  <1>1. MatchesConfig
    BY DEF EngineInv, Progress, MatchesConfig, Configured
  <1>2. KeepsUnchanged
    BY DEF EngineInv, KeptApps, KeptLinks, KeepsUnchanged, Configured
  <1> QED
    BY <1>1, <1>2

-----------------------------------------------------------------------------
(* The apps and links a spec is translated into.  There is a lane of four  *)
(* QoS apps for either direction and each class of packets: the default    *)
(* and the flows.                                                          *)

Rx(dir) == IF dir = "ingress" THEN outer ELSE inner
Tx(dir) == IF dir = "ingress" THEN inner ELSE outer

Classes(s) == {"default"} \cup {s.flows[i].label : i \in DOMAIN s.flows}

PathApps == {"tsd", "offload", "top", "split", "join"}
PathName(a, dir) == IF a = "join" THEN <<Tx(dir), "join">> ELSE <<Rx(dir), a>>
PathArg(a, dir, s) ==
  CASE a = "tsd" -> [app |-> "TSD"]
    [] a = "offload" -> [app |-> "Checksum"]
    [] a = "top" -> [app |-> "Top", dir |-> dir]
    [] a = "split" -> [app |-> "Split", flows |-> SplitFlows(s.flows, dir)]
    [] a = "join" -> [app |-> "Join"]

QoSApps == {"rate", "loss", "latency", "jitter"}
Label(dir, class) == IF class = "default" THEN <<dir>> ELSE <<dir, class>>
LaneName(a, dir, class) == IF class = "default" THEN <<a, dir>> ELSE <<a, dir, class>>
LaneArg(a, q) ==
  CASE a = "rate" -> [app |-> "RateLimiter", rate |-> q.rate]
    [] a = "loss" -> [app |-> "Loss", ratio |-> clamp(q.loss)]
    [] a = "latency" -> [app |-> "Latency", ms |-> q.latency]
    [] a = "jitter" -> [app |-> "Jitter", ms |-> q.jitter, reorder |-> q.reorder_packets,
                        strength |-> clamp(q.jitter_strength)]

\* The QoS of a lane.
LaneQoS(s, dir, class) ==
  IF class = "default" THEN s.default_link[dir]
  ELSE s.flows[CHOOSE i \in DOMAIN s.flows : s.flows[i].label = class].link[dir]

PathLinks(dir) ==
  {Link(At(<<Rx(dir)>>, "output"), At(PathName("tsd", dir), "input")),
   Link(At(PathName("tsd", dir), "output"), At(PathName("offload", dir), "input")),
   Link(At(PathName("offload", dir), "output"), At(PathName("split", dir), "input")),
   Link(At(PathName("join", dir), "output"), At(PathName("top", dir), "input")),
   Link(At(PathName("top", dir), "output"), At(<<Tx(dir)>>, "input"))}

\* A lane of QoS apps between two ports.
Chain(input, output, dir, class) ==
  {Link(input, At(LaneName("rate", dir, class), "input")),
   Link(At(LaneName("rate", dir, class), "output"), At(LaneName("loss", dir, class), "input")),
   Link(At(LaneName("loss", dir, class), "output"), At(LaneName("latency", dir, class), "input")),
   Link(At(LaneName("latency", dir, class), "output"), At(LaneName("jitter", dir, class), "input")),
   Link(At(LaneName("jitter", dir, class), "output"), output)}

LaneLinks(dir, class) ==
  Chain(At(PathName("split", dir), class), At(PathName("join", dir), class), dir, class)

LEMMA QoSNames ==
  ASSUME NEW a, NEW d, NEW l
  PROVE  QoSName(a, <<d>>) = <<a, d>> /\ QoSName(a, <<d, l>>) = <<a, d, l>>
  <1> DEFINE S == {a, d, l}
             s == <<a>>
             t == <<d>>
             u == <<d, l>>
             st == <<a, d>>
             su == <<a, d, l>>
  <1>1. /\ s \in Seq(S) /\ Len(s) = 1 /\ s[1] = a
        /\ t \in Seq(S) /\ Len(t) = 1 /\ t[1] = d
        /\ u \in Seq(S) /\ Len(u) = 2 /\ u[1] = d /\ u[2] = l
        /\ st \in Seq(S) /\ Len(st) = 2 /\ st[1] = a /\ st[2] = d
        /\ su \in Seq(S) /\ Len(su) = 3 /\ su[1] = a /\ su[2] = d /\ su[3] = l
    OBVIOUS
  <1> HIDE DEF S, s, t, u, st, su
  <1>2. s \o t = st
    <2>1. /\ s \o t \in Seq(S) /\ Len(s \o t) = Len(s) + Len(t)
          /\ \A i \in 1..(Len(s) + Len(t)) : (s \o t)[i] = IF i <= Len(s) THEN s[i] ELSE t[i - Len(s)]
      BY <1>1, ConcatProperties
    <2>2. Len(s \o t) = 2 /\ (s \o t)[1] = a /\ (s \o t)[2] = d
      BY <1>1, <2>1
    <2> QED
      BY <1>1, <2>1, <2>2
  <1>3. s \o u = su
    <2>1. /\ s \o u \in Seq(S) /\ Len(s \o u) = Len(s) + Len(u)
          /\ \A i \in 1..(Len(s) + Len(u)) : (s \o u)[i] = IF i <= Len(s) THEN s[i] ELSE u[i - Len(s)]
      BY <1>1, ConcatProperties
    <2>2. Len(s \o u) = 3 /\ (s \o u)[1] = a /\ (s \o u)[2] = d /\ (s \o u)[3] = l
      BY <1>1, <2>1
    <2> QED
      BY <1>1, <2>1, <2>2
  <1> QED
    BY <1>2, <1>3 DEF QoSName, s, t, u, st, su

\* No two apps have the same name.
LEMMA NamesDiffer ==
  /\ \A a, b \in PathApps, d, e \in Directions : PathName(a, d) = PathName(b, e) => a = b /\ d = e
  /\ \A a, b, d, e, c, k : LaneName(a, d, c) = LaneName(b, e, k) => a = b /\ d = e /\ c = k
  /\ \A a \in PathApps, d, e \in Directions : \A b, k : PathName(a, d) # LaneName(b, e, k)
  /\ \A x, a, d : <<x>> # PathName(a, d)
  /\ \A x, b, d, k : <<x>> # LaneName(b, d, k)
  <1>1. \A a, b \in PathApps, d, e \in Directions : PathName(a, d) = PathName(b, e) => a = b /\ d = e
    BY InterfacesAssumption DEF PathApps, PathName, Directions, Rx, Tx
  <1>2. \A a, b, d, e, c, k : LaneName(a, d, c) = LaneName(b, e, k) => a = b /\ d = e /\ c = k
    BY DEF LaneName
  <1>3. \A a \in PathApps, d, e \in Directions : \A b, k : PathName(a, d) # LaneName(b, e, k)
    BY DEF PathApps, PathName, LaneName, Directions
  <1>4. \A x, a, d : <<x>> # PathName(a, d)
    BY DEF PathName
  <1>5. \A x, b, d, k : <<x>> # LaneName(b, d, k)
    BY DEF LaneName
  <1> QED
    BY <1>1, <1>2, <1>3, <1>4, <1>5

LEMMA QoSPart ==
  ASSUME NEW dir, NEW class, NEW input, NEW output, NEW q, NEW c,
         c = configure_qos(Label(dir, class), input, output, q)
  PROVE  /\ DOMAIN c.apps = {LaneName(a, dir, class) : a \in QoSApps}
         /\ \A a \in QoSApps : c.apps[LaneName(a, dir, class)] = LaneArg(a, q)
         /\ c.links = Chain(input, output, dir, class)
  <1>1. \A a : QoSName(a, Label(dir, class)) = LaneName(a, dir, class)
    BY QoSNames DEF Label, LaneName
  <1> DEFINE rate == LaneName("rate", dir, class)
             loss == LaneName("loss", dir, class)
             latency == LaneName("latency", dir, class)
             jitter == LaneName("jitter", dir, class)
  <1>2. /\ rate # loss /\ rate # latency /\ rate # jitter /\ loss # latency /\ loss # jitter
        /\ latency # jitter
    BY NamesDiffer
  <1>3. /\ c.apps = [n \in {rate, loss, latency, jitter} |->
                       CASE n = rate -> LaneArg("rate", q)
                         [] n = loss -> LaneArg("loss", q)
                         [] n = latency -> LaneArg("latency", q)
                         [] n = jitter -> LaneArg("jitter", q)]
        /\ c.links = {Link(input, At(rate, "input")),
                      Link(At(rate, "output"), At(loss, "input")),
                      Link(At(loss, "output"), At(latency, "input")),
                      Link(At(latency, "output"), At(jitter, "input")),
                      Link(At(jitter, "output"), output)}
    BY <1>1 DEF configure_qos, Part, LaneArg
  <1>4. {LaneName(a, dir, class) : a \in QoSApps} = {rate, loss, latency, jitter}
    BY DEF QoSApps
  <1>5. \A a \in QoSApps : c.apps[LaneName(a, dir, class)] = LaneArg(a, q)
    <2>1. /\ c.apps[rate] = LaneArg("rate", q) /\ c.apps[loss] = LaneArg("loss", q)
          /\ c.apps[latency] = LaneArg("latency", q) /\ c.apps[jitter] = LaneArg("jitter", q)
      <3> HIDE DEF rate, loss, latency, jitter
      <3> QED
        BY <1>2, <1>3
    <2> QED
      BY <2>1 DEF QoSApps
  <1> QED
    BY <1>3, <1>4, <1>5 DEF Chain

\* The last part that has a name is the only one.
LEMMA OnlyOne ==
  ASSUME NEW i \in Nat
  PROVE  Max({i}) = i
  BY DEF Max

\* The lanes of the flows.
Lanes(c, s, dir, split, join) ==
  /\ \A n : n \in DOMAIN c.apps <=>
              \E i \in DOMAIN s.flows, a \in QoSApps : n = LaneName(a, dir, s.flows[i].label)
  /\ \A i \in DOMAIN s.flows, a \in QoSApps :
       c.apps[LaneName(a, dir, s.flows[i].label)] = LaneArg(a, s.flows[i].link[dir])
  /\ \A l : l \in c.links <=>
       \E i \in DOMAIN s.flows :
         l \in Chain(At(split, s.flows[i].label), At(join, s.flows[i].label), dir, s.flows[i].label)

LEMMA FlowsPart ==
  ASSUME NEW s \in Specs, sanitize_labels(s), NEW dir, NEW split, NEW join, NEW c,
         c = configure_flows(split, join, s.flows, dir)
  PROVE  Lanes(c, s, dir, split, join)
  <1> DEFINE D == DOMAIN s.flows
             lab(i) == s.flows[i].label
             part(i) == configure_qos(<<dir, lab(i)>>, At(split, lab(i)), At(join, lab(i)),
                                      FlowQoS(s.flows[i], dir))
             parts == [i \in D |-> part(i)]
  <1>1. \A i \in D : lab(i) # "default" /\ \A j \in D : lab(i) = lab(j) => i = j
    BY DEF sanitize_labels
  <1>2. D \subseteq Nat
    BY SpecsAssumption
  <1>3. c = Joined(parts)
    BY DEF configure_flows
  <1>4. ASSUME NEW i \in D
        PROVE  /\ parts[i] = part(i)
               /\ DOMAIN parts[i].apps = {LaneName(a, dir, lab(i)) : a \in QoSApps}
               /\ \A a \in QoSApps : parts[i].apps[LaneName(a, dir, lab(i))] = LaneArg(a, s.flows[i].link[dir])
               /\ parts[i].links = Chain(At(split, lab(i)), At(join, lab(i)), dir, lab(i))
    <2>1. parts[i] = part(i)
      OBVIOUS
    <2>2. part(i) = configure_qos(Label(dir, lab(i)), At(split, lab(i)), At(join, lab(i)), s.flows[i].link[dir])
      BY <1>1 DEF Label, FlowQoS
    <2> HIDE DEF part, parts, lab
    <2> QED
      BY <2>1, <2>2, QoSPart
  <1> HIDE DEF part, lab
  <1>5. DOMAIN parts = D
    OBVIOUS
  <1> HIDE DEF parts, D
  <1>6. /\ DOMAIN c.apps = UNION {DOMAIN parts[i].apps : i \in D}
        /\ \A n \in DOMAIN c.apps : c.apps[n] = parts[Max({i \in D : n \in DOMAIN parts[i].apps})].apps[n]
        /\ c.links = UNION {parts[i].links : i \in D}
    BY <1>3, <1>5 DEF Joined, Part
  <1>7. \A n : n \in DOMAIN c.apps <=> \E i \in D, a \in QoSApps : n = LaneName(a, dir, lab(i))
    BY <1>4, <1>6
  <1>8. ASSUME NEW i \in D, NEW a \in QoSApps
        PROVE  c.apps[LaneName(a, dir, lab(i))] = LaneArg(a, s.flows[i].link[dir])
    <2> DEFINE n == LaneName(a, dir, lab(i))
    <2>1. n \in DOMAIN c.apps /\ n \in DOMAIN parts[i].apps
      BY <1>4, <1>7
    <2>2. {j \in D : n \in DOMAIN parts[j].apps} = {i}
      <3>1. ASSUME NEW j \in D, n \in DOMAIN parts[j].apps
            PROVE  j = i
        <4>1. PICK b \in QoSApps : n = LaneName(b, dir, lab(j))
          BY <1>4, <3>1
        <4>2. lab(j) = lab(i)
          BY <4>1, NamesDiffer
        <4> QED
          BY <1>1, <4>2
      <3> QED
        BY <2>1, <3>1
    <2> HIDE DEF n
    <2>3. c.apps[n] = parts[i].apps[n]
      BY <1>2, <1>6, <2>1, <2>2, OnlyOne
    <2> QED
      BY <1>4, <2>3 DEF n
  <1>9. \A l : l \in c.links <=> \E i \in D : l \in parts[i].links
    BY <1>6
  <1> QED
    BY <1>4, <1>7, <1>8, <1>9 DEF D, lab, Lanes

\* A part of the configuration is what spec s says of the paths in dirs.
Describes(c, s, dirs) ==
  /\ \A n : n \in DOMAIN c.apps <=>
              \/ \E dir \in dirs, a \in PathApps : n = PathName(a, dir)
              \/ \E dir \in dirs, class \in Classes(s), a \in QoSApps : n = LaneName(a, dir, class)
  /\ \A dir \in dirs, a \in PathApps : c.apps[PathName(a, dir)] = PathArg(a, dir, s)
  /\ \A dir \in dirs, class \in Classes(s), a \in QoSApps :
       c.apps[LaneName(a, dir, class)] = LaneArg(a, LaneQoS(s, dir, class))
  /\ \A l : l \in c.links <=>
              \E dir \in dirs : l \in PathLinks(dir) \/ \E class \in Classes(s) : l \in LaneLinks(dir, class)

LEMMA LaneQoSFacts ==
  ASSUME NEW s \in Specs, sanitize_labels(s), NEW dir
  PROVE  /\ LaneQoS(s, dir, "default") = s.default_link[dir]
         /\ \A i \in DOMAIN s.flows : /\ s.flows[i].label # "default"
                                      /\ LaneQoS(s, dir, s.flows[i].label) = s.flows[i].link[dir]
  <1>1. ASSUME NEW i \in DOMAIN s.flows
        PROVE  /\ s.flows[i].label # "default"
               /\ LaneQoS(s, dir, s.flows[i].label) = s.flows[i].link[dir]
    <2>1. s.flows[i].label # "default"
      BY DEF sanitize_labels
    <2> DEFINE k == CHOOSE j \in DOMAIN s.flows : s.flows[j].label = s.flows[i].label
    <2>2. k \in DOMAIN s.flows /\ s.flows[k].label = s.flows[i].label
      OBVIOUS
    <2>3. k = i
      BY <2>2 DEF sanitize_labels
    <2> QED
      BY <2>1, <2>3 DEF LaneQoS
  <1> QED
    BY <1>1 DEF LaneQoS

\* A path, by the names of its apps and the label of its default QoS.
PathOf(tsd, offload, top, split, join, label, dir, s) ==
  LET apps == [n \in {tsd, offload, top, split, join} |->
                 CASE n = tsd -> [app |-> "TSD"]
                   [] n = offload -> [app |-> "Checksum"]
                   [] n = top -> [app |-> "Top", dir |-> dir]
                   [] n = split -> [app |-> "Split", flows |-> SplitFlows(s.flows, dir)]
                   [] n = join -> [app |-> "Join"]]
      links == {Link(At(<<Rx(dir)>>, "output"), At(tsd, "input")),
                Link(At(tsd, "output"), At(offload, "input")),
                Link(At(offload, "output"), At(split, "input")),
                Link(At(join, "output"), At(top, "input")),
                Link(At(top, "output"), At(<<Tx(dir)>>, "input"))}
  IN Both(Both(Part(apps, links),
               configure_qos(label, At(split, "default"), At(join, "default"), s.default_link[dir])),
          configure_flows(split, join, s.flows, dir))

LEMMA PathPart ==
  ASSUME NEW s \in Specs, sanitize_labels(s), NEW dir \in Directions, NEW c,
         c = ConfigurePath(Rx(dir), Tx(dir), dir, s)
  PROVE  Describes(c, s, {dir})
  <1> DEFINE tsd == PathName("tsd", dir)
             offload == PathName("offload", dir)
             top == PathName("top", dir)
             split == PathName("split", dir)
             join == PathName("join", dir)
             fixed == [n \in {tsd, offload, top, split, join} |->
                         CASE n = tsd -> PathArg("tsd", dir, s)
                           [] n = offload -> PathArg("offload", dir, s)
                           [] n = top -> PathArg("top", dir, s)
                           [] n = split -> PathArg("split", dir, s)
                           [] n = join -> PathArg("join", dir, s)]
             qos == configure_qos(Label(dir, "default"), At(split, "default"), At(join, "default"),
                                  s.default_link[dir])
             flows == configure_flows(split, join, s.flows, dir)
  <1>1. /\ tsd = <<Rx(dir), "tsd">> /\ offload = <<Rx(dir), "offload">> /\ top = <<Rx(dir), "top">>
        /\ split = <<Rx(dir), "split">> /\ join = <<Tx(dir), "join">> /\ Label(dir, "default") = <<dir>>
    BY DEF PathName, Label
  <1>2. c = Both(Both(Part(fixed, PathLinks(dir)), qos), flows)
    <2>1. c = PathOf(<<Rx(dir), "tsd">>, <<Rx(dir), "offload">>, <<Rx(dir), "top">>, <<Rx(dir), "split">>,
                     <<Tx(dir), "join">>, <<dir>>, dir, s)
      BY DEF ConfigurePath, PathOf
    <2>2. c = PathOf(tsd, offload, top, split, join, Label(dir, "default"), dir, s)
      BY <1>1, <2>1
    <2>3. fixed = [n \in {tsd, offload, top, split, join} |->
                     CASE n = tsd -> [app |-> "TSD"]
                       [] n = offload -> [app |-> "Checksum"]
                       [] n = top -> [app |-> "Top", dir |-> dir]
                       [] n = split -> [app |-> "Split", flows |-> SplitFlows(s.flows, dir)]
                       [] n = join -> [app |-> "Join"]]
      BY DEF PathArg
    <2>4. PathLinks(dir) =
            {Link(At(<<Rx(dir)>>, "output"), At(tsd, "input")),
             Link(At(tsd, "output"), At(offload, "input")),
             Link(At(offload, "output"), At(split, "input")),
             Link(At(join, "output"), At(top, "input")),
             Link(At(top, "output"), At(<<Tx(dir)>>, "input"))}
      BY DEF PathLinks
    <2> HIDE DEF fixed, tsd, offload, top, split, join
    <2> QED
      BY <2>2, <2>3, <2>4 DEF PathOf
  <1>3. /\ DOMAIN fixed = {tsd, offload, top, split, join}
        /\ \A a \in PathApps : fixed[PathName(a, dir)] = PathArg(a, dir, s)
    <2>1. /\ tsd # offload /\ tsd # top /\ tsd # split /\ tsd # join /\ offload # top
          /\ offload # split /\ offload # join /\ top # split /\ top # join /\ split # join
      BY NamesDiffer DEF PathApps
    <2>2. /\ fixed[tsd] = PathArg("tsd", dir, s) /\ fixed[offload] = PathArg("offload", dir, s)
          /\ fixed[top] = PathArg("top", dir, s) /\ fixed[split] = PathArg("split", dir, s)
          /\ fixed[join] = PathArg("join", dir, s)
      <3> HIDE DEF tsd, offload, top, split, join
      <3> QED
        BY <2>1
    <2> QED
      BY <2>2 DEF PathApps
  <1>4. /\ DOMAIN qos.apps = {LaneName(a, dir, "default") : a \in QoSApps}
        /\ \A a \in QoSApps : qos.apps[LaneName(a, dir, "default")] = LaneArg(a, s.default_link[dir])
        /\ qos.links = LaneLinks(dir, "default")
    BY QoSPart DEF LaneLinks
  <1>5. /\ \A n : n \in DOMAIN flows.apps <=>
                    \E i \in DOMAIN s.flows, a \in QoSApps : n = LaneName(a, dir, s.flows[i].label)
        /\ \A i \in DOMAIN s.flows, a \in QoSApps :
             flows.apps[LaneName(a, dir, s.flows[i].label)] = LaneArg(a, s.flows[i].link[dir])
        /\ \A l : l \in flows.links <=> \E i \in DOMAIN s.flows : l \in LaneLinks(dir, s.flows[i].label)
    <2>1. Lanes(flows, s, dir, split, join)
      <3> HIDE DEF split, join
      <3> QED
        BY FlowsPart
    <2>2. \A i : LaneLinks(dir, s.flows[i].label)
                 = Chain(At(split, s.flows[i].label), At(join, s.flows[i].label), dir, s.flows[i].label)
      BY DEF LaneLinks
    <2> HIDE DEF flows, split, join
    <2> QED
      BY <2>1, <2>2 DEF Lanes
  <1>6. DOMAIN fixed = {PathName(a, dir) : a \in PathApps}
    BY <1>3 DEF PathApps
  <1> HIDE DEF tsd, offload, top, split, join, fixed, qos, flows
  <1>7. /\ c.apps = Override(Override(fixed, qos.apps), flows.apps)
        /\ c.links = PathLinks(dir) \cup qos.links \cup flows.links
    BY <1>2 DEF Both, Part
  <1>8. \A class : class \in Classes(s) <=> class = "default" \/ \E i \in DOMAIN s.flows : class = s.flows[i].label
    BY DEF Classes
  <1>9. \A n : n \in DOMAIN c.apps <=>
                 \/ \E a \in PathApps : n = PathName(a, dir)
                 \/ \E class \in Classes(s), a \in QoSApps : n = LaneName(a, dir, class)
    <2>1. DOMAIN c.apps = DOMAIN fixed \cup DOMAIN qos.apps \cup DOMAIN flows.apps
      BY <1>7 DEF Override
    <2>2. ASSUME NEW n, n \in DOMAIN c.apps
          PROVE  \/ \E a \in PathApps : n = PathName(a, dir)
                 \/ \E class \in Classes(s), a \in QoSApps : n = LaneName(a, dir, class)
      <3>1. CASE n \in DOMAIN fixed
        BY <1>6, <3>1
      <3>2. CASE n \in DOMAIN qos.apps
        BY <1>4, <1>8, <3>2
      <3>3. CASE n \in DOMAIN flows.apps
        BY <1>5, <1>8, <3>3
      <3> QED
        BY <2>1, <2>2, <3>1, <3>2, <3>3
    <2>3. ASSUME NEW a \in PathApps
          PROVE  PathName(a, dir) \in DOMAIN c.apps
      BY <1>6, <2>1
    <2>4. ASSUME NEW class \in Classes(s), NEW a \in QoSApps
          PROVE  LaneName(a, dir, class) \in DOMAIN c.apps
      <3>1. CASE class = "default"
        BY <1>4, <2>1, <3>1
      <3>2. ASSUME NEW i \in DOMAIN s.flows, class = s.flows[i].label
            PROVE  LaneName(a, dir, class) \in DOMAIN c.apps
        BY <1>5, <2>1, <3>2
      <3> QED
        BY <1>8, <3>1, <3>2
    <2> QED
      BY <2>2, <2>3, <2>4
  <1>10. ASSUME NEW a \in PathApps
         PROVE  c.apps[PathName(a, dir)] = PathArg(a, dir, s)
    <2>1. /\ PathName(a, dir) \notin DOMAIN qos.apps /\ PathName(a, dir) \notin DOMAIN flows.apps
          /\ PathName(a, dir) \in DOMAIN fixed
      BY <1>4, <1>5, <1>6, NamesDiffer
    <2>2. c.apps[PathName(a, dir)] = fixed[PathName(a, dir)]
      BY <1>7, <2>1 DEF Override
    <2> QED
      BY <1>3, <2>2
  <1>11. ASSUME NEW class \in Classes(s), NEW a \in QoSApps
         PROVE  c.apps[LaneName(a, dir, class)] = LaneArg(a, LaneQoS(s, dir, class))
    <2>1. CASE class = "default"
      <3>1. LaneName(a, dir, class) \in DOMAIN qos.apps /\ LaneName(a, dir, class) \notin DOMAIN flows.apps
        BY <1>4, <1>5, <2>1, NamesDiffer, LaneQoSFacts
      <3>2. c.apps[LaneName(a, dir, class)] = qos.apps[LaneName(a, dir, class)]
        BY <1>7, <3>1 DEF Override
      <3> QED
        BY <1>4, <2>1, <3>2, LaneQoSFacts
    <2>2. ASSUME NEW i \in DOMAIN s.flows, class = s.flows[i].label
          PROVE  c.apps[LaneName(a, dir, class)] = LaneArg(a, LaneQoS(s, dir, class))
      <3>1. LaneName(a, dir, class) \in DOMAIN flows.apps
        BY <1>5, <2>2
      <3>2. c.apps[LaneName(a, dir, class)] = flows.apps[LaneName(a, dir, class)]
        BY <1>7, <3>1 DEF Override
      <3> QED
        BY <1>5, <2>2, <3>2, LaneQoSFacts
    <2> QED
      BY <1>8, <2>1, <2>2
  <1>12. \A l : l \in c.links <=> l \in PathLinks(dir) \/ \E class \in Classes(s) : l \in LaneLinks(dir, class)
    BY <1>4, <1>5, <1>7, <1>8
  <1> QED
    BY <1>9, <1>10, <1>11, <1>12 DEF Describes

\* The configuration is what spec s says: two paths between the interfaces.
Network(c, s) ==
  /\ \A n : n \in DOMAIN c.apps <=>
              \/ n = <<outer>> \/ n = <<inner>>
              \/ \E dir \in Directions, a \in PathApps : n = PathName(a, dir)
              \/ \E dir \in Directions, class \in Classes(s), a \in QoSApps : n = LaneName(a, dir, class)
  /\ c.apps[<<outer>>] = [app |-> "RawSocket"] /\ c.apps[<<inner>>] = [app |-> "RawSocket"]
  /\ \A dir \in Directions, a \in PathApps : c.apps[PathName(a, dir)] = PathArg(a, dir, s)
  /\ \A dir \in Directions, class \in Classes(s), a \in QoSApps :
       c.apps[LaneName(a, dir, class)] = LaneArg(a, LaneQoS(s, dir, class))
  /\ \A l : l \in c.links <=>
              \E dir \in Directions :
                l \in PathLinks(dir) \/ \E class \in Classes(s) : l \in LaneLinks(dir, class)

LEMMA NetworkPart ==
  ASSUME NEW s \in Specs, sanitize_labels(s), NEW c, c = configure_synthetic_network(s)
  PROVE  Network(c, s)
  <1> DEFINE interfaces == [n \in {<<outer>>, <<inner>>} |-> [app |-> "RawSocket"]]
             ingress == ConfigurePath(outer, inner, "ingress", s)
             egress == ConfigurePath(inner, outer, "egress", s)
  <1>1. c = Both(Part(interfaces, {}), Both(ingress, egress))
    BY DEF configure_synthetic_network
  <1>2. /\ Rx("ingress") = outer /\ Tx("ingress") = inner /\ Rx("egress") = inner /\ Tx("egress") = outer
        /\ "ingress" \in Directions /\ "egress" \in Directions
        /\ \A dir \in Directions : dir = "ingress" \/ dir = "egress"
    BY DEF Rx, Tx, Directions
  <1>3. Describes(ingress, s, {"ingress"}) /\ Describes(egress, s, {"egress"})
    BY <1>2, PathPart
  <1>4. /\ DOMAIN interfaces = {<<outer>>, <<inner>>}
        /\ interfaces[<<outer>>] = [app |-> "RawSocket"] /\ interfaces[<<inner>>] = [app |-> "RawSocket"]
    OBVIOUS
  <1> HIDE DEF interfaces, ingress, egress
  <1>5. /\ c.apps = Override(interfaces, Override(ingress.apps, egress.apps))
        /\ c.links = ingress.links \cup egress.links
    BY <1>1 DEF Both, Part
  <1>6. DOMAIN c.apps = {<<outer>>, <<inner>>} \cup DOMAIN ingress.apps \cup DOMAIN egress.apps
    BY <1>4, <1>5 DEF Override
  <1>7. \A n : n \in DOMAIN c.apps <=>
                 \/ n = <<outer>> \/ n = <<inner>>
                 \/ \E dir \in Directions, a \in PathApps : n = PathName(a, dir)
                 \/ \E dir \in Directions, class \in Classes(s), a \in QoSApps : n = LaneName(a, dir, class)
    BY <1>2, <1>3, <1>6 DEF Describes
  <1>8. ASSUME NEW x \in {outer, inner}
        PROVE  c.apps[<<x>>] = [app |-> "RawSocket"]
    <2>1. <<x>> \notin DOMAIN ingress.apps /\ <<x>> \notin DOMAIN egress.apps
      BY <1>3, NamesDiffer DEF Describes
    <2> QED
      BY <1>4, <1>5, <2>1 DEF Override
  <1>9. ASSUME NEW n \in DOMAIN ingress.apps
        PROVE  n \notin DOMAIN egress.apps /\ c.apps[n] = ingress.apps[n]
    <2>1. n \notin DOMAIN egress.apps
      <3>1. "ingress" # "egress"
        OBVIOUS
      <3> QED
        BY <1>2, <1>3, <3>1, NamesDiffer DEF Describes
    <2> QED
      BY <1>5, <2>1 DEF Override
  <1>10. ASSUME NEW n \in DOMAIN egress.apps
         PROVE  c.apps[n] = egress.apps[n]
    BY <1>5 DEF Override
  <1>11. \A dir \in Directions, a \in PathApps : c.apps[PathName(a, dir)] = PathArg(a, dir, s)
    BY <1>2, <1>3, <1>9, <1>10 DEF Describes
  <1>12. \A dir \in Directions, class \in Classes(s), a \in QoSApps :
           c.apps[LaneName(a, dir, class)] = LaneArg(a, LaneQoS(s, dir, class))
    BY <1>2, <1>3, <1>9, <1>10 DEF Describes
  <1>13. \A l : l \in c.links <=>
                  \E dir \in Directions :
                    l \in PathLinks(dir) \/ \E class \in Classes(s) : l \in LaneLinks(dir, class)
    BY <1>2, <1>3, <1>5 DEF Describes
  <1> QED
    BY <1>7, <1>8, <1>11, <1>12, <1>13 DEF Network

-----------------------------------------------------------------------------
(* Where the links of the translation go.                                  *)

LEMMA AtFacts ==
  /\ \A n, m, p, q : At(n, p) = At(m, q) => n = m /\ p = q
  /\ \A n, p : At(n, p).app = n /\ At(n, p).port = p
  BY DEF At

LEMMA LinkFacts ==
  \A x, y : Link(x, y).from = x /\ Link(x, y).to = y
  BY DEF Link

LEMMA EndFacts ==
  /\ \A d, e \in Directions : <<Rx(d)>> = <<Rx(e)>> => d = e
  /\ \A d, e \in Directions : <<Tx(d)>> = <<Tx(e)>> => d = e
  BY InterfacesAssumption DEF Directions, Rx, Tx

\* A link starts and ends at one of ten places of a path.
Hop(l, dir, class) ==
  \/ l = Link(At(<<Rx(dir)>>, "output"), At(PathName("tsd", dir), "input"))
  \/ l = Link(At(PathName("tsd", dir), "output"), At(PathName("offload", dir), "input"))
  \/ l = Link(At(PathName("offload", dir), "output"), At(PathName("split", dir), "input"))
  \/ l = Link(At(PathName("split", dir), class), At(LaneName("rate", dir, class), "input"))
  \/ l = Link(At(LaneName("rate", dir, class), "output"), At(LaneName("loss", dir, class), "input"))
  \/ l = Link(At(LaneName("loss", dir, class), "output"), At(LaneName("latency", dir, class), "input"))
  \/ l = Link(At(LaneName("latency", dir, class), "output"), At(LaneName("jitter", dir, class), "input"))
  \/ l = Link(At(LaneName("jitter", dir, class), "output"), At(PathName("join", dir), class))
  \/ l = Link(At(PathName("join", dir), "output"), At(PathName("top", dir), "input"))
  \/ l = Link(At(PathName("top", dir), "output"), At(<<Tx(dir)>>, "input"))

LEMMA Hops ==
  ASSUME NEW c, NEW s, Network(c, s), NEW l
  PROVE  l \in c.links <=> \E dir \in Directions, class \in Classes(s) : Hop(l, dir, class)
  <1>1. "default" \in Classes(s)
    BY DEF Classes
  <1>2. ASSUME NEW dir \in Directions, NEW class \in Classes(s)
        PROVE  Hop(l, dir, class) <=> l \in PathLinks(dir) \/ l \in LaneLinks(dir, class)
    BY Zenon DEF Hop, PathLinks, LaneLinks, Chain
  <1>3. l \in c.links <=>
              \E dir \in Directions :
                l \in PathLinks(dir) \/ \E class \in Classes(s) : l \in LaneLinks(dir, class)
    BY DEF Network
  <1> QED
    BY <1>1, <1>2, <1>3

\* Where a link starts tells where it goes ...
Forth(l, dir, class) ==
  /\ l.from = At(<<Rx(dir)>>, "output") => l.to = At(PathName("tsd", dir), "input")
  /\ l.from = At(PathName("tsd", dir), "output") => l.to = At(PathName("offload", dir), "input")
  /\ l.from = At(PathName("offload", dir), "output") => l.to = At(PathName("split", dir), "input")
  /\ l.from = At(PathName("split", dir), class) => l.to = At(LaneName("rate", dir, class), "input")
  /\ l.from = At(LaneName("rate", dir, class), "output") => l.to = At(LaneName("loss", dir, class), "input")
  /\ l.from = At(LaneName("loss", dir, class), "output") => l.to = At(LaneName("latency", dir, class), "input")
  /\ l.from = At(LaneName("latency", dir, class), "output") => l.to = At(LaneName("jitter", dir, class), "input")
  /\ l.from = At(LaneName("jitter", dir, class), "output") => l.to = At(PathName("join", dir), class)
  /\ l.from = At(PathName("join", dir), "output") => l.to = At(PathName("top", dir), "input")
  /\ l.from = At(PathName("top", dir), "output") => l.to = At(<<Tx(dir)>>, "input")

\* ... and where it ends, where it comes from.
Back(l, dir, class) ==
  /\ l.to = At(PathName("tsd", dir), "input") => l.from = At(<<Rx(dir)>>, "output")
  /\ l.to = At(PathName("offload", dir), "input") => l.from = At(PathName("tsd", dir), "output")
  /\ l.to = At(PathName("split", dir), "input") => l.from = At(PathName("offload", dir), "output")
  /\ l.to = At(LaneName("rate", dir, class), "input") => l.from = At(PathName("split", dir), class)
  /\ l.to = At(LaneName("loss", dir, class), "input") => l.from = At(LaneName("rate", dir, class), "output")
  /\ l.to = At(LaneName("latency", dir, class), "input") => l.from = At(LaneName("loss", dir, class), "output")
  /\ l.to = At(LaneName("jitter", dir, class), "input") => l.from = At(LaneName("latency", dir, class), "output")
  /\ l.to = At(PathName("join", dir), class) => l.from = At(LaneName("jitter", dir, class), "output")
  /\ l.to = At(PathName("top", dir), "input") => l.from = At(PathName("join", dir), "output")
  /\ l.to = At(<<Tx(dir)>>, "input") => l.from = At(PathName("top", dir), "output")

LEMMA OneWay ==
  ASSUME NEW l, NEW d \in Directions, NEW k, Hop(l, d, k), NEW dir \in Directions, NEW class
  PROVE  Forth(l, dir, class) /\ Back(l, dir, class)
  <1> USE AtFacts, LinkFacts, EndFacts, NamesDiffer DEF PathApps, Forth, Back
  <1>1. CASE l = Link(At(<<Rx(d)>>, "output"), At(PathName("tsd", d), "input"))
    BY <1>1
  <1>2. CASE l = Link(At(PathName("tsd", d), "output"), At(PathName("offload", d), "input"))
    BY <1>2
  <1>3. CASE l = Link(At(PathName("offload", d), "output"), At(PathName("split", d), "input"))
    BY <1>3
  <1>4. CASE l = Link(At(PathName("split", d), k), At(LaneName("rate", d, k), "input"))
    BY <1>4
  <1>5. CASE l = Link(At(LaneName("rate", d, k), "output"), At(LaneName("loss", d, k), "input"))
    BY <1>5
  <1>6. CASE l = Link(At(LaneName("loss", d, k), "output"), At(LaneName("latency", d, k), "input"))
    BY <1>6
  <1>7. CASE l = Link(At(LaneName("latency", d, k), "output"), At(LaneName("jitter", d, k), "input"))
    BY <1>7
  <1>8. CASE l = Link(At(LaneName("jitter", d, k), "output"), At(PathName("join", d), k))
    BY <1>8
  <1>9. CASE l = Link(At(PathName("join", d), "output"), At(PathName("top", d), "input"))
    BY <1>9
  <1>10. CASE l = Link(At(PathName("top", d), "output"), At(<<Tx(d)>>, "input"))
    BY <1>10
  <1> QED
    BY <1>1, <1>2, <1>3, <1>4, <1>5, <1>6, <1>7, <1>8, <1>9, <1>10 DEF Hop

\* A port is on one link.
LEMMA OnePort ==
  ASSUME NEW c, NEW s, Network(c, s), NEW l \in c.links, NEW m \in c.links,
         l.from = m.from \/ l.to = m.to
  PROVE  l = m
  <1>1. PICK d \in Directions, k \in Classes(s) : Hop(l, d, k)
    BY Hops
  <1>2. PICK e \in Directions, j \in Classes(s) : Hop(m, e, j)
    BY Hops
  <1>3. Forth(m, d, k) /\ Back(m, d, k)
    BY <1>2, OneWay
  <1>4. l.from = m.from /\ l.to = m.to
    BY <1>1, <1>3, LinkFacts DEF Hop, Forth, Back
  <1>5. l = Link(l.from, l.to)
    BY <1>1, LinkFacts DEF Hop
  <1>6. m = Link(m.from, m.to)
    BY <1>2, LinkFacts DEF Hop
  <1> QED
    BY <1>4, <1>5, <1>6

\* The ends of a link are apps.
LEMMA NetworkEnds ==
  ASSUME NEW c, NEW s, Network(c, s)
  PROVE  Ends(c)
  <1>1. SUFFICES ASSUME NEW l \in c.links
                 PROVE  l.from.app \in DOMAIN c.apps /\ l.to.app \in DOMAIN c.apps
    BY DEF Ends
  <1>2. PICK d \in Directions, k \in Classes(s) : Hop(l, d, k)
    BY Hops
  <1>3. /\ <<Rx(d)>> \in DOMAIN c.apps /\ <<Tx(d)>> \in DOMAIN c.apps
        /\ \A a \in PathApps : PathName(a, d) \in DOMAIN c.apps
        /\ \A a \in QoSApps : LaneName(a, d, k) \in DOMAIN c.apps
    BY DEF Network, Rx, Tx
  <1> QED
    BY <1>2, <1>3, LinkFacts, AtFacts DEF Hop, PathApps, QoSApps

\* A link at an app is on one of the ports that the app uses.
PortsOf(l, dir, class) ==
  /\ l.from.app = <<Rx(dir)>> => l.from.port = "output"
  /\ l.to.app = <<Tx(dir)>> => l.to.port = "input"
  /\ \A a \in PathApps \ {"split"} : l.from.app = PathName(a, dir) => l.from.port = "output"
  /\ \A a \in PathApps \ {"join"} : l.to.app = PathName(a, dir) => l.to.port = "input"
  /\ \A a \in QoSApps : l.from.app = LaneName(a, dir, class) => l.from.port = "output"
  /\ \A a \in QoSApps : l.to.app = LaneName(a, dir, class) => l.to.port = "input"

LEMMA UsedPorts ==
  ASSUME NEW l, NEW d \in Directions, NEW k, Hop(l, d, k), NEW dir \in Directions, NEW class
  PROVE  /\ PortsOf(l, dir, class)
         /\ l.from.app = PathName("split", dir) => dir = d /\ l.from.port = k
  <1>1. /\ "split" \in PathApps /\ "join" \in PathApps /\ "tsd" \in PathApps
        /\ "offload" \in PathApps /\ "top" \in PathApps
    BY DEF PathApps
  <1> USE <1>1, AtFacts, LinkFacts, EndFacts, NamesDiffer DEF PortsOf
  <1>2. CASE l = Link(At(<<Rx(d)>>, "output"), At(PathName("tsd", d), "input"))
    BY <1>2
  <1>3. CASE l = Link(At(PathName("tsd", d), "output"), At(PathName("offload", d), "input"))
    BY <1>3
  <1>4. CASE l = Link(At(PathName("offload", d), "output"), At(PathName("split", d), "input"))
    BY <1>4
  <1>5. CASE l = Link(At(PathName("split", d), k), At(LaneName("rate", d, k), "input"))
    <2>1. /\ l.from.app = PathName("split", d) /\ l.from.port = k
          /\ l.to.app = LaneName("rate", d, k) /\ l.to.port = "input"
      BY <1>5
    <2>2. \A a \in PathApps \ {"split"} : PathName("split", d) # PathName(a, dir)
      OBVIOUS
    <2> QED
      BY <2>1, <2>2
  <1>6. CASE l = Link(At(LaneName("rate", d, k), "output"), At(LaneName("loss", d, k), "input"))
    BY <1>6
  <1>7. CASE l = Link(At(LaneName("loss", d, k), "output"), At(LaneName("latency", d, k), "input"))
    BY <1>7
  <1>8. CASE l = Link(At(LaneName("latency", d, k), "output"), At(LaneName("jitter", d, k), "input"))
    BY <1>8
  <1>9. CASE l = Link(At(LaneName("jitter", d, k), "output"), At(PathName("join", d), k))
    <2>1. /\ l.from.app = LaneName("jitter", d, k) /\ l.from.port = "output"
          /\ l.to.app = PathName("join", d) /\ l.to.port = k
      BY <1>9
    <2>2. \A a \in PathApps \ {"join"} : PathName("join", d) # PathName(a, dir)
      OBVIOUS
    <2> QED
      BY <2>1, <2>2
  <1>10. CASE l = Link(At(PathName("join", d), "output"), At(PathName("top", d), "input"))
    BY <1>10
  <1>11. CASE l = Link(At(PathName("top", d), "output"), At(<<Tx(d)>>, "input"))
    BY <1>11
  <1> QED
    BY <1>2, <1>3, <1>4, <1>5, <1>6, <1>7, <1>8, <1>9, <1>10, <1>11 DEF Hop

\* Every app of a lane or path has a link on each of them.
Plugs(links, dir, class) ==
  /\ \E l \in links : l.from = At(<<Rx(dir)>>, "output")
  /\ \E l \in links : l.to = At(<<Tx(dir)>>, "input")
  /\ \A a \in PathApps \ {"split"} : \E l \in links : l.from = At(PathName(a, dir), "output")
  /\ \A a \in PathApps \ {"join"} : \E l \in links : l.to = At(PathName(a, dir), "input")
  /\ \A a \in QoSApps : \E l \in links : l.from = At(LaneName(a, dir, class), "output")
  /\ \A a \in QoSApps : \E l \in links : l.to = At(LaneName(a, dir, class), "input")
  /\ \E l \in links : l.from = At(PathName("split", dir), class)

LEMMA LinkedPorts ==
  ASSUME NEW c, NEW s, Network(c, s), NEW dir \in Directions, NEW class \in Classes(s)
  PROVE  Plugs(c.links, dir, class)
  <1>1. \A x, y : Hop(Link(x, y), dir, class) => Link(x, y) \in c.links
    BY Hops
  <1>2. /\ Link(At(<<Rx(dir)>>, "output"), At(PathName("tsd", dir), "input")) \in c.links
        /\ Link(At(PathName("tsd", dir), "output"), At(PathName("offload", dir), "input")) \in c.links
        /\ Link(At(PathName("offload", dir), "output"), At(PathName("split", dir), "input")) \in c.links
        /\ Link(At(PathName("join", dir), "output"), At(PathName("top", dir), "input")) \in c.links
        /\ Link(At(PathName("top", dir), "output"), At(<<Tx(dir)>>, "input")) \in c.links
    BY <1>1 DEF Hop
  <1>3. /\ Link(At(PathName("split", dir), class), At(LaneName("rate", dir, class), "input")) \in c.links
        /\ Link(At(LaneName("rate", dir, class), "output"), At(LaneName("loss", dir, class), "input")) \in c.links
        /\ Link(At(LaneName("loss", dir, class), "output"), At(LaneName("latency", dir, class), "input")) \in c.links
        /\ Link(At(LaneName("latency", dir, class), "output"), At(LaneName("jitter", dir, class), "input")) \in c.links
        /\ Link(At(LaneName("jitter", dir, class), "output"), At(PathName("join", dir), class)) \in c.links
    BY <1>1 DEF Hop
  <1> QED
    BY <1>2, <1>3, LinkFacts DEF PathApps, QoSApps, Plugs

\* The ports of app n are all called "output", or "input".
OutOnly(n, links) == /\ \A l \in links : l.from.app = n => l.from.port = "output"
                     /\ \E l \in links : l.from = At(n, "output")
InOnly(n, links) == /\ \A l \in links : l.to.app = n => l.to.port = "input"
                    /\ \E l \in links : l.to = At(n, "input")

LEMMA OnlyFacts ==
  /\ \A n, links : OutOnly(n, links) => Outputs(n, links) = {"output"}
  /\ \A n, links : InOnly(n, links) => Inputs(n, links) = {"input"}
  <1>1. ASSUME NEW n, NEW links, OutOnly(n, links)
        PROVE  Outputs(n, links) = {"output"}
    BY <1>1, AtFacts DEF Outputs, OutOnly
  <1>2. ASSUME NEW n, NEW links, InOnly(n, links)
        PROVE  Inputs(n, links) = {"input"}
    BY <1>2, AtFacts DEF Inputs, InOnly
  <1> QED
    BY <1>1, <1>2

RightPorts(links, s, dir, class) ==
  /\ Inputs(<<Tx(dir)>>, links) = {"input"} /\ Outputs(<<Rx(dir)>>, links) = {"output"}
  /\ \A a \in PathApps \ {"split"} : Outputs(PathName(a, dir), links) = {"output"}
  /\ \A a \in PathApps \ {"join"} : Inputs(PathName(a, dir), links) = {"input"}
  /\ \A a \in QoSApps : /\ Outputs(LaneName(a, dir, class), links) = {"output"}
                        /\ Inputs(LaneName(a, dir, class), links) = {"input"}
  /\ Outputs(PathName("split", dir), links) = Classes(s)

LEMMA NetworkPorts ==
  ASSUME NEW c, NEW s, Network(c, s), NEW dir \in Directions, NEW class \in Classes(s)
  PROVE  RightPorts(c.links, s, dir, class)
  <1>1. \A l \in c.links : /\ PortsOf(l, dir, class)
                           /\ l.from.app = PathName("split", dir) => l.from.port \in Classes(s)
    <2>1. SUFFICES ASSUME NEW l \in c.links
                   PROVE  /\ PortsOf(l, dir, class)
                          /\ l.from.app = PathName("split", dir) => l.from.port \in Classes(s)
      OBVIOUS
    <2>2. PICK d \in Directions, k \in Classes(s) : Hop(l, d, k)
      BY Hops
    <2> QED
      BY <2>2, UsedPorts
  <1>2. Plugs(c.links, dir, class)
    BY LinkedPorts
  <1> USE <1>1, <1>2, OnlyFacts DEF PortsOf, Plugs
  <1>4. Inputs(<<Tx(dir)>>, c.links) = {"input"}
    <2>1. InOnly(<<Tx(dir)>>, c.links)
      BY DEF InOnly
    <2> QED
      BY <2>1
  <1>5. Outputs(<<Rx(dir)>>, c.links) = {"output"}
    <2>1. OutOnly(<<Rx(dir)>>, c.links)
      BY DEF OutOnly
    <2> QED
      BY <2>1
  <1>6. ASSUME NEW a \in PathApps \ {"split"}
        PROVE  Outputs(PathName(a, dir), c.links) = {"output"}
    <2>1. OutOnly(PathName(a, dir), c.links)
      BY DEF OutOnly
    <2> QED
      BY <2>1
  <1>7. ASSUME NEW a \in PathApps \ {"join"}
        PROVE  Inputs(PathName(a, dir), c.links) = {"input"}
    <2>1. InOnly(PathName(a, dir), c.links)
      BY DEF InOnly
    <2> QED
      BY <2>1
  <1>8. ASSUME NEW a \in QoSApps
        PROVE  Outputs(LaneName(a, dir, class), c.links) = {"output"}
    <2>1. OutOnly(LaneName(a, dir, class), c.links)
      BY DEF OutOnly
    <2> QED
      BY <2>1
  <1>9. ASSUME NEW a \in QoSApps
        PROVE  Inputs(LaneName(a, dir, class), c.links) = {"input"}
    <2>1. InOnly(LaneName(a, dir, class), c.links)
      BY DEF InOnly
    <2> QED
      BY <2>1
  <1>10. Outputs(PathName("split", dir), c.links) = Classes(s)
    <2>1. ASSUME NEW k \in Classes(s)
          PROVE  k \in Outputs(PathName("split", dir), c.links)
      <3>1. Plugs(c.links, dir, k)
        BY LinkedPorts
      <3> QED
        BY <3>1, AtFacts DEF Outputs
    <2>2. ASSUME NEW k \in Outputs(PathName("split", dir), c.links)
          PROVE  k \in Classes(s)
      BY <1>1, <2>2 DEF Outputs
    <2> QED
      BY <2>1, <2>2
  <1> QED
    BY <1>4, <1>5, <1>6, <1>7, <1>8, <1>9, <1>10 DEF RightPorts

-----------------------------------------------------------------------------
(* Reloads.                                                                *)

\* The configuration is the translation of the spec, or there was none yet.
Applied == /\ spec \in Specs /\ sanitize_labels(spec)
           /\ config = configure_synthetic_network(spec)
Translated == \/ spec = NoSpec /\ config.apps = Empty /\ config.links = {}
              \/ Applied

LEMMA TranslatedPorts ==
  ASSUME Translated
  PROVE  PortsAreLinked
  <1>1. CASE config.apps = Empty /\ config.links = {}
    BY <1>1, EmptyFacts DEF PortsAreLinked
  <1>2. CASE Applied
    <2> DEFINE c == config
               s == spec
    <2>1. Network(c, s)
      BY <1>2, NetworkPart DEF Applied
    <2> HIDE DEF c, s
    <2>2. \A l \in c.links : {l.from.app, l.to.app} \subseteq DOMAIN c.apps
      BY <2>1, NetworkEnds DEF Ends
    <2>3. \A l, m \in c.links : l.from = m.from \/ l.to = m.to => l = m
      BY <2>1, OnePort
    <2>4. ASSUME NEW n \in DOMAIN c.apps
          PROVE  IF c.apps[n].app = "Split"
                 THEN /\ Inputs(n, c.links) = {"input"}
                      /\ Outputs(n, c.links)
                           = {"default"} \cup {c.apps[n].flows[i].label : i \in DOMAIN c.apps[n].flows}
                      /\ \A i \in DOMAIN c.apps[n].flows : c.apps[n].flows[i].label # "default"
                 ELSE c.apps[n].app # "Join" =>
                        Inputs(n, c.links) = {"input"} /\ Outputs(n, c.links) = {"output"}
      <3>0. "default" \in Classes(s)
        BY DEF Classes
      <3>1. CASE n = <<outer>> \/ n = <<inner>>
        <4>1. c.apps[n] = [app |-> "RawSocket"]
          BY <2>1, <3>1 DEF Network
        <4>2. PICK d \in Directions, e \in Directions : n = <<Rx(d)>> /\ n = <<Tx(e)>>
          BY <3>1 DEF Directions, Rx, Tx
        <4>3. Inputs(n, c.links) = {"input"} /\ Outputs(n, c.links) = {"output"}
          <5>1. RightPorts(c.links, s, d, "default") /\ RightPorts(c.links, s, e, "default")
            BY <2>1, <3>0, NetworkPorts
          <5> QED
            BY <4>2, <5>1 DEF RightPorts
        <4> QED
          BY <4>1, <4>3
      <3>2. ASSUME NEW dir \in Directions, NEW a \in PathApps, n = PathName(a, dir)
            PROVE  IF c.apps[n].app = "Split"
                   THEN /\ Inputs(n, c.links) = {"input"}
                        /\ Outputs(n, c.links)
                             = {"default"} \cup {c.apps[n].flows[i].label : i \in DOMAIN c.apps[n].flows}
                        /\ \A i \in DOMAIN c.apps[n].flows : c.apps[n].flows[i].label # "default"
                   ELSE c.apps[n].app # "Join" =>
                          Inputs(n, c.links) = {"input"} /\ Outputs(n, c.links) = {"output"}
        <4>0. RightPorts(c.links, s, dir, "default")
          BY <2>1, <3>0, NetworkPorts
        <4>1. c.apps[n] = PathArg(a, dir, s)
          BY <2>1, <3>2 DEF Network
        <4>2. CASE a = "split"
          <5>1. c.apps[n] = [app |-> "Split", flows |-> SplitFlows(s.flows, dir)]
            BY <4>1, <4>2 DEF PathArg
          <5>2. /\ DOMAIN SplitFlows(s.flows, dir) = DOMAIN s.flows
                /\ \A i \in DOMAIN s.flows : SplitFlows(s.flows, dir)[i].label = s.flows[i].label
            BY DEF SplitFlows
          <5>3. Inputs(n, c.links) = {"input"} /\ Outputs(n, c.links) = Classes(s)
            BY <3>2, <4>0, <4>2 DEF RightPorts, PathApps
          <5>4. \A i \in DOMAIN s.flows : s.flows[i].label # "default"
            BY <1>2, LaneQoSFacts DEF s, Applied
          <5>5. Classes(s) = {"default"} \cup {c.apps[n].flows[i].label : i \in DOMAIN c.apps[n].flows}
            BY <5>1, <5>2 DEF Classes
          <5> QED
            BY <5>1, <5>2, <5>3, <5>4, <5>5
        <4>3. CASE a = "join"
          BY <4>1, <4>3 DEF PathArg
        <4>4. CASE a \notin {"split", "join"}
          <5>1. Inputs(n, c.links) = {"input"} /\ Outputs(n, c.links) = {"output"}
            BY <3>2, <4>0, <4>4 DEF RightPorts
          <5>2. c.apps[n].app # "Split"
            BY <4>1, <4>4 DEF PathArg, PathApps
          <5> QED
            BY <5>1, <5>2
        <4> QED
          BY <4>2, <4>3, <4>4
      <3>3. ASSUME NEW dir \in Directions, NEW class \in Classes(s), NEW a \in QoSApps,
                   n = LaneName(a, dir, class)
            PROVE  /\ Inputs(n, c.links) = {"input"} /\ Outputs(n, c.links) = {"output"}
                   /\ c.apps[n].app # "Split"
        <4>1. Inputs(n, c.links) = {"input"} /\ Outputs(n, c.links) = {"output"}
          <5>1. RightPorts(c.links, s, dir, class)
            BY <2>1, NetworkPorts
          <5> QED
            BY <3>3, <5>1 DEF RightPorts
        <4>2. c.apps[n] = LaneArg(a, LaneQoS(s, dir, class))
          BY <2>1, <3>3 DEF Network
        <4>3. c.apps[n].app # "Split"
          BY <4>2 DEF LaneArg, QoSApps
        <4> QED
          BY <4>1, <4>3
      <3> QED
        BY <2>1, <3>1, <3>2, <3>3 DEF Network
    <2> QED
      BY <2>2, <2>3, <2>4 DEF PortsAreLinked, c
  <1> QED
    BY <1>1, <1>2 DEF Translated

LEMMA NextIs ==
  ASSUME Network(config, spec), NEW n, NEW p, NEW m, NEW q,
         Link(At(n, p), At(m, q)) \in config.links
  PROVE  NextHop(n, p) = m
  <1> DEFINE k == Link(At(n, p), At(m, q))
             l == CHOOSE h \in config.links : h.from = At(n, p)
  <1>1. k \in config.links /\ k.from = At(n, p) /\ k.to.app = m
    BY LinkFacts, AtFacts
  <1>2. l \in config.links /\ l.from = At(n, p)
    BY <1>1
  <1> HIDE DEF k, l
  <1>3. l = k
    BY <1>1, <1>2, OnePort
  <1>4. NextHop(n, p) = l.to.app
    BY DEF NextHop, l
  <1> QED
    BY <1>1, <1>3, <1>4

\* The way of a packet: its lane's QoS apps, the join, top and the interface.
LEMMA JourneyIs ==
  ASSUME Network(config, spec), NEW dir \in Directions, NEW class \in Classes(spec)
  PROVE  Journey(Rx(dir), class) = Promised(LaneQoS(spec, dir, class), dir, Tx(dir))
  <1> DEFINE split == PathName("split", dir)
             rate == LaneName("rate", dir, class)
             loss == LaneName("loss", dir, class)
             latency == LaneName("latency", dir, class)
             jitter == LaneName("jitter", dir, class)
             join == PathName("join", dir)
             top == PathName("top", dir)
             q == LaneQoS(spec, dir, class)
  <1>1. \A x, y : Hop(Link(x, y), dir, class) => Link(x, y) \in config.links
    BY Hops
  <1>2. /\ Link(At(split, class), At(rate, "input")) \in config.links
        /\ Link(At(rate, "output"), At(loss, "input")) \in config.links
        /\ Link(At(loss, "output"), At(latency, "input")) \in config.links
        /\ Link(At(latency, "output"), At(jitter, "input")) \in config.links
        /\ Link(At(jitter, "output"), At(join, class)) \in config.links
        /\ Link(At(join, "output"), At(top, "input")) \in config.links
        /\ Link(At(top, "output"), At(<<Tx(dir)>>, "input")) \in config.links
    BY <1>1 DEF Hop
  <1>3. /\ config.apps[rate] = [app |-> "RateLimiter", rate |-> q.rate]
        /\ config.apps[loss] = [app |-> "Loss", ratio |-> clamp(q.loss)]
        /\ config.apps[latency] = [app |-> "Latency", ms |-> q.latency]
        /\ config.apps[jitter] = [app |-> "Jitter", ms |-> q.jitter, reorder |-> q.reorder_packets,
                                  strength |-> clamp(q.jitter_strength)]
    <2>1. /\ config.apps[rate] = LaneArg("rate", q) /\ config.apps[loss] = LaneArg("loss", q)
          /\ config.apps[latency] = LaneArg("latency", q) /\ config.apps[jitter] = LaneArg("jitter", q)
      BY DEF Network, QoSApps
    <2> HIDE DEF rate, loss, latency, jitter, q
    <2> QED
      BY <2>1 DEF LaneArg
  <1>4. config.apps[join] = [app |-> "Join"] /\ config.apps[top] = [app |-> "Top", dir |-> dir]
    <2>1. config.apps[join] = PathArg("join", dir, spec) /\ config.apps[top] = PathArg("top", dir, spec)
      BY DEF Network, PathApps
    <2> HIDE DEF join, top
    <2> QED
      BY <2>1 DEF PathArg
  <1>5. split = <<Rx(dir), "split">>
    BY DEF PathName
  <1> HIDE DEF split, rate, loss, latency, jitter, join, top, q
  <1>6. /\ NextHop(split, class) = rate
        /\ NextHop(rate, "output") = loss
        /\ NextHop(loss, "output") = latency
        /\ NextHop(latency, "output") = jitter
        /\ NextHop(jitter, "output") = join
        /\ NextHop(join, "output") = top
        /\ NextHop(top, "output") = <<Tx(dir)>>
    BY <1>2, NextIs
  <1>7. Journey(Rx(dir), class)
          = <<config.apps[rate], config.apps[loss], config.apps[latency], config.apps[jitter],
              config.apps[join], config.apps[top], <<Tx(dir)>> >>
    BY <1>5, <1>6 DEF Journey
  <1> QED
    BY <1>3, <1>4, <1>7 DEF Promised, q

LEMMA TranslatedFlows ==
  ASSUME Translated
  PROVE  FlowsGetTheirQoS
  <1>1. SUFFICES ASSUME Applied, NEW dir \in Directions
                 PROVE  /\ Journey(Rx(dir), "default") = Promised(spec.default_link[dir], dir, Tx(dir))
                        /\ \A i \in DOMAIN spec.flows :
                             Journey(Rx(dir), spec.flows[i].label)
                               = Promised(spec.flows[i].link[dir], dir, Tx(dir))
    BY DEF FlowsGetTheirQoS, Translated, Rx, Tx
  <1>2. Network(config, spec)
    BY <1>1, NetworkPart DEF Applied
  <1>3. /\ "default" \in Classes(spec)
        /\ \A i \in DOMAIN spec.flows : spec.flows[i].label \in Classes(spec)
    BY DEF Classes
  <1>4. /\ LaneQoS(spec, dir, "default") = spec.default_link[dir]
        /\ \A i \in DOMAIN spec.flows : LaneQoS(spec, dir, spec.flows[i].label) = spec.flows[i].link[dir]
    BY <1>1, LaneQoSFacts DEF Applied
  <1> QED
    BY <1>2, <1>3, <1>4, JourneyIs

NetworkInv == EngineInv /\ Translated

LEMMA NetworkInitInv ==
  ASSUME Init
  PROVE  NetworkInv
  BY EngineInitInv DEF Init, EngineInit, NetworkInv, Translated

LEMMA ApplyStep ==
  ASSUME NetworkInv, NEW s \in Specs, Apply(s)
  PROVE  NetworkInv' /\ Applied'
  <1> DEFINE c == configure_synthetic_network(s)
  <1>1. Ends(c)
    BY NetworkPart, NetworkEnds DEF Apply
  <1>2. configure(c) /\ config' = c /\ spec' = s /\ sanitize_labels(s)
    BY DEF Apply, configure
  <1>3. EngineInv'
    <2> HIDE DEF c
    <2> QED
      BY <1>1, <1>2, ConfigureStep DEF NetworkInv
  <1>4. Applied'
    BY <1>2 DEF Applied
  <1> QED
    BY <1>3, <1>4 DEF NetworkInv, Translated

LEMMA NetworkStep ==
  ASSUME NetworkInv, [Next]_vars
  PROVE  NetworkInv'
  <1>1. ASSUME NEW s \in Specs, Apply(s)
        PROVE  NetworkInv'
    BY <1>1, ApplyStep
  <1>2. ASSUME UNCHANGED vars
        PROVE  NetworkInv'
    <2>1. EngineInv'
      <3>0. /\ app_table' = app_table /\ link_table' = link_table /\ config' = config /\ pc' = pc
            /\ calls' = calls /\ panicked' = panicked /\ before' = before /\ EngineInv
        BY <1>2 DEF vars, engineVars, NetworkInv
      <3>1. Ends(config)' /\ Ports'
        BY <3>0 DEF EngineInv, Ends, Ports, Cell, Outputs, Inputs
      <3>2. MatchesConfig' <=> MatchesConfig
        BY <3>0 DEF MatchesConfig, Configured, OnOutputs, OnInputs, Outputs, Inputs
      <3>3. Progress'
        BY <3>0, <3>2 DEF EngineInv, Progress, EndsExist
      <3>4. KeptApps' /\ KeptLinks'
        BY <3>0 DEF EngineInv, KeptApps, KeptLinks
      <3> QED
        BY <3>0, <3>1, <3>3, <3>4 DEF EngineInv
    <2> QED
      BY <1>2, <2>1 DEF NetworkInv, Translated, Applied, vars, engineVars
  <1>3. CASE EngineNext /\ UNCHANGED spec
    <2>1. EngineInv'
      BY <1>3, EngineStep DEF NetworkInv
    <2>2. UNCHANGED config
      BY <1>3 DEF EngineNext, unlink_apps, stop_app, start_app, link_apps, Loop
    <2> QED
      BY <1>3, <2>1, <2>2 DEF NetworkInv, Translated, Applied
  <1> QED
    BY <1>1, <1>2, <1>3 DEF Next, Reject

LEMMA NetworkInvariant == Spec => []NetworkInv
  <1>1. Init => NetworkInv
    BY NetworkInitInv
  <1>2. NetworkInv /\ [Next]_vars => NetworkInv'
    BY NetworkStep
  <1> QED
    BY <1>1, <1>2, PTL DEF Spec

\* engine::configure: after any number of reloads, of specs with any flows, the
\* running network is the one a start from the last spec would have made, and no
\* unwrap() of its four loops has failed.
THEOREM NetworkMatches == Spec => []MatchesConfig
  <1>1. NetworkInv => MatchesConfig
    BY EngineInvFacts DEF NetworkInv
  <1> QED
    BY <1>1, NetworkInvariant, PTL

\* engine::configure: a reload leaves an app alone exactly when its arguments
\* are the same, and keeps every link that both configurations have.
THEOREM NetworkKeeps == Spec => []KeepsUnchanged
  <1>1. NetworkInv => KeepsUnchanged
    BY EngineInvFacts DEF NetworkInv
  <1> QED
    BY <1>1, NetworkInvariant, PTL

\* configure_synthetic_network: for every spec that sanitize_labels accepts,
\* links run between apps of the configuration, no two share a port, and every
\* port that an app unwraps is linked.
THEOREM TranslationIsLinked == Spec => []PortsAreLinked
  <1>1. NetworkInv => PortsAreLinked
    BY TranslatedPorts DEF NetworkInv
  <1> QED
    BY <1>1, NetworkInvariant, PTL

\* configure_synthetic_network: for every spec that sanitize_labels accepts, a
\* packet of a flow meets the four QoS apps of its flow and direction, with that
\* flow's arguments, and leaves by the other interface.
THEOREM TranslationKeepsFlowsApart == Spec => []FlowsGetTheirQoS
  <1>1. NetworkInv => FlowsGetTheirQoS
    BY TranslatedFlows DEF NetworkInv
  <1> QED
    BY <1>1, NetworkInvariant, PTL

-----------------------------------------------------------------------------
(* What a reload restarts.                                                 *)

\* The arguments of a QoS app are made of its own fields.
LEMMA FieldFacts ==
  ASSUME NEW a \in QoSApps, NEW q, NEW r, LaneArg(a, q) # LaneArg(a, r)
  PROVE  a \in DOMAIN Fields /\ \E f \in Fields[a] : q[f] # r[f]
  <1>1. CASE a = "rate"
    BY <1>1 DEF LaneArg, Fields
  <1>2. CASE a = "loss"
    BY <1>2 DEF LaneArg, Fields
  <1>3. CASE a = "latency"
    BY <1>3 DEF LaneArg, Fields
  <1>4. CASE a = "jitter"
    BY <1>4 DEF LaneArg, Fields
  <1> QED
    BY <1>1, <1>2, <1>3, <1>4 DEF QoSApps

LEMMA NameFacts ==
  ASSUME NEW a, NEW dir, NEW class
  PROVE  /\ LaneName(a, dir, class)[1] = a
         /\ Tail(LaneName(a, dir, class)) = Label(dir, class)
  BY DEF LaneName, Label

\* A name and a spec give one QoS.
LEMMA OneQoS ==
  ASSUME NEW s \in Specs, sanitize_labels(s), NEW dir, NEW class \in Classes(s)
  PROVE  QoSOf(s, Label(dir, class)) = {LaneQoS(s, dir, class)}
  <1>1. CASE class = "default"
    <2>1. Label(dir, class) = <<dir>>
      BY <1>1 DEF Label
    <2>2. Len(<<dir>>) = 1 /\ <<dir>>[1] = dir
      OBVIOUS
    <2>3. QoSOf(s, Label(dir, class)) = {s.default_link[dir]}
      BY <2>1, <2>2 DEF QoSOf
    <2> QED
      BY <1>1, <2>3 DEF LaneQoS
  <1>2. CASE class # "default"
    <2>1. PICK i \in DOMAIN s.flows : s.flows[i].label = class
      BY <1>2 DEF Classes
    <2>2. {j \in DOMAIN s.flows : s.flows[j].label = class} = {i}
      BY <2>1 DEF sanitize_labels
    <2>3. Label(dir, class) = <<dir, class>>
      BY <1>2 DEF Label
    <2>4. Len(<<dir, class>>) = 2 /\ <<dir, class>>[1] = dir /\ <<dir, class>>[2] = class
      OBVIOUS
    <2>5. QoSOf(s, Label(dir, class))
            = {s.flows[k].link[dir] : k \in {j \in DOMAIN s.flows : s.flows[j].label = class}}
      BY <2>3, <2>4 DEF QoSOf
    <2>6. QoSOf(s, Label(dir, class)) = {s.flows[i].link[dir]}
      BY <2>2, <2>5
    <2> QED
      BY <2>1, <2>6, LaneQoSFacts
  <1> QED
    BY <1>1, <1>2

\* A field of app n is not the same in specs s and r.
OwnField(n, s, r) ==
  /\ n[1] \in DOMAIN Fields
  /\ \E f \in Fields[n[1]] :
       {q[f] : q \in QoSOf(s, Tail(n))} # {q[f] : q \in QoSOf(r, Tail(n))}

\* A change of an app's arguments, from spec s to spec r, is one of its own
\* fields.
LEMMA ChangeIsLocal ==
  ASSUME NEW s \in Specs, sanitize_labels(s), NEW c, Network(c, s),
         NEW r \in Specs, sanitize_labels(r), NEW d, Network(d, r),
         NEW n \in DOMAIN c.apps \cap DOMAIN d.apps, c.apps[n] # d.apps[n]
  PROVE  c.apps[n].app = "Split" \/ OwnField(n, s, r)
  <1>1. ~ (n = <<outer>> \/ n = <<inner>>)
    BY DEF Network
  <1>2. ASSUME NEW dir \in Directions, NEW a \in PathApps, n = PathName(a, dir)
        PROVE  c.apps[n].app = "Split"
    <2>1. c.apps[n] = PathArg(a, dir, s) /\ d.apps[n] = PathArg(a, dir, r)
      BY <1>2 DEF Network
    <2>2. a = "split"
      BY <2>1 DEF PathArg, PathApps
    <2> QED
      BY <2>1, <2>2 DEF PathArg
  <1>3. ASSUME NEW dir \in Directions, NEW class \in Classes(s), NEW a \in QoSApps,
               n = LaneName(a, dir, class)
        PROVE  OwnField(n, s, r)
    <2>1. class \in Classes(r)
      <3>1. ~ (n = <<outer>> \/ n = <<inner>>)
        BY <1>1
      <3>2. ~ \E e \in Directions, b \in PathApps : n = PathName(b, e)
        BY <1>3, NamesDiffer
      <3>3. PICK e \in Directions, k \in Classes(r), b \in QoSApps : n = LaneName(b, e, k)
        BY <3>1, <3>2 DEF Network
      <3> QED
        <4>1. LaneName(a, dir, class) = LaneName(b, e, k)
          BY <1>3, <3>3
        <4>2. class = k
          BY <4>1, NamesDiffer
        <4> QED
          BY <4>2
    <2> DEFINE x == LaneQoS(s, dir, class)
               y == LaneQoS(r, dir, class)
    <2>2. c.apps[n] = LaneArg(a, x) /\ d.apps[n] = LaneArg(a, y)
      BY <1>3, <2>1 DEF Network
    <2>3. n[1] = a /\ Tail(n) = Label(dir, class)
      BY <1>3, NameFacts
    <2>4. QoSOf(s, Tail(n)) = {x} /\ QoSOf(r, Tail(n)) = {y}
      BY <2>1, <2>3, OneQoS
    <2> HIDE DEF x, y
    <2>5. a \in DOMAIN Fields /\ \E f \in Fields[a] : x[f] # y[f]
      BY <2>2, FieldFacts
    <2> QED
      BY <2>3, <2>4, <2>5 DEF OwnField
  <1>4. \/ \E dir \in Directions, a \in PathApps : n = PathName(a, dir)
        \/ \E dir \in Directions, class \in Classes(s), a \in QoSApps : n = LaneName(a, dir, class)
    BY <1>1 DEF Network
  <1> QED
    BY <1>2, <1>3, <1>4

Local(s, r) ==
  /\ \A n \in DOMAIN config.apps \cap DOMAIN config'.apps :
       config.apps[n] # config'.apps[n] =>
         config.apps[n].app = "Split" \/ OwnField(n, s, r)
  /\ {<<outer>>, <<inner>>} \subseteq DOMAIN config'.apps

LEMMA StepIsLocal ==
  ASSUME NetworkInv, [Next]_vars, spec # NoSpec
  PROVE  Local(spec, spec')
  <1>1. Applied
    BY DEF NetworkInv, Translated
  <1>2. Network(config, spec) /\ spec \in Specs /\ sanitize_labels(spec)
    BY <1>1, NetworkPart DEF Applied
  <1>3. ASSUME NEW s \in Specs, Apply(s)
        PROVE  Local(spec, spec')
    <2>1. config' = configure_synthetic_network(s) /\ spec' = s /\ sanitize_labels(s)
      BY <1>3 DEF Apply, configure
    <2>2. Network(config', s)
      BY <2>1, NetworkPart
    <2> DEFINE c == config
               d == config'
    <2>3. Network(c, spec) /\ Network(d, s)
      BY <1>2, <2>2
    <2> HIDE DEF c, d
    <2>4. {<<outer>>, <<inner>>} \subseteq DOMAIN d.apps
      BY <2>3 DEF Network
    <2>5. \A n \in DOMAIN c.apps \cap DOMAIN d.apps :
            c.apps[n] # d.apps[n] => c.apps[n].app = "Split" \/ OwnField(n, spec, s)
      BY <1>2, <2>1, <2>3, ChangeIsLocal
    <2> QED
      BY <2>1, <2>4, <2>5 DEF Local, c, d
  <1>4. CASE UNCHANGED config
    <2>1. {<<outer>>, <<inner>>} \subseteq DOMAIN config.apps
      BY <1>2 DEF Network
    <2> QED
      BY <1>4, <2>1 DEF Local
  <1>5. EngineNext \/ UNCHANGED vars => UNCHANGED config
    BY DEF EngineNext, unlink_apps, stop_app, start_app, link_apps, Loop, vars, engineVars
  <1> QED
    BY <1>3, <1>4, <1>5 DEF Next, Reject

\* main's reload: from one spec to the next, only Split and the QoS apps whose
\* own fields changed in their own flow and direction get other arguments, so
\* that no other app is restarted, and both interfaces stay.
THEOREM ReloadsAreLocal == Spec => ReloadIsLocal
  <1>1. NetworkInv /\ [Next]_vars =>
          [spec # NoSpec =>
             /\ \A n \in DOMAIN config.apps \cap DOMAIN config'.apps :
                  config.apps[n] # config'.apps[n] =>
                    \/ config.apps[n].app = "Split"
                    \/ /\ n[1] \in DOMAIN Fields
                       /\ \E f \in Fields[n[1]] :
                            {q[f] : q \in QoSOf(spec, Tail(n))} # {q[f] : q \in QoSOf(spec', Tail(n))}
             /\ {<<outer>>, <<inner>>} \subseteq DOMAIN config'.apps]_vars
    BY StepIsLocal DEF Local, OwnField
  <1> QED
    BY <1>1, NetworkInvariant, PTL DEF Spec, ReloadIsLocal
=============================================================================
