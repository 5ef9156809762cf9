------------------------------- MODULE Client -------------------------------
(***************************************************************************)
(* frontend/client/client.js: the SyntheticNetwork object through which a  *)
(* script or a control page (module Page) edits the QoS spec.  It keeps    *)
(* the flows twice, as the list _flows that commit sends and as the table  *)
(* flows by which a script gets at them.  A script awaits get and commit;  *)
(* others run meanwhile.  A spec is a value for the default link and a     *)
(* list of flows, each a label with a value.  As the table has at most one *)
(* flow for a label, a flow object is the list's element and whether the   *)
(* table has it; `detached' are the labels of flows only the table has.    *)
(***************************************************************************)
EXTENDS Naturals, Sequences, SequencesExt

CONSTANTS Script, Page,   \* the clients
          Label,          \* flow labels
          Value,          \* values of a link's QoS
          DefaultValue,   \* of a new QoS object
          Default,        \* stands for the default link
          Absent,         \* no such flow
          Settable,       \* bound: links and flows whose QoS is changed
          MaxFlows,       \* bound: flows in a list
          MaxEdits,       \* bound: targets a script edits between commits
          MaxCommits      \* bound: POSTs numbered, but for those of a click's other handlers

ASSUME BoundsAssumption == MaxFlows \in Nat /\ MaxEdits \in Nat /\ MaxCommits \in Nat /\ DefaultValue \in Value
ASSUME NamesAssumption == Default \notin Label /\ Absent \notin Value /\ Script \cap Page = {}
                          /\ Settable \subseteq Label \cup {Default}

Client == Script \cup Page
Target == Label \cup {Default}

VARIABLES net,       \* client -> its SyntheticNetwork: [default, list, detached]
          pc,        \* script -> "run", "post" or "thrown"
          gets,      \* answers to GETs of pages under way: [to, id, spec]
          posts,     \* POSTs under way: [from, id, parent, spec]
          file,      \* the spec file and the number of the POST that wrote it
          ids,       \* POSTs numbered so far
          base,      \* history: client -> the POST its spec derives from
          edits,     \* history: client -> the edits it has not committed
          last,      \* history: what the last edit committed of each target said
          raced,     \* history: a POST was not derived from what it overwrote
          misspliced \* history: a removeFlow cut the wrong flow

netVars == <<net, pc>>
httpVars == <<gets, posts, file>>
historyVars == <<ids, base, edits, last, raced, misspliced>>
vars == <<netVars, httpVars, historyVars>>

\* Edits are a function from the targets edited to what was said of them last.
NoEdits == [t \in {} |-> Absent]
Noted(said, t, v) == [x \in DOMAIN said \cup {t} |-> IF x = t THEN v ELSE said[x]]

\* config(): what commit sends.
config(n) == [default |-> n.default,
              flows |-> [i \in DOMAIN n.list |-> [label |-> n.list[i].label, val |-> n.list[i].val]]]

Labels(flows) == [i \in DOMAIN flows |-> flows[i].label]

\* Whether addFlow throws in the middle of update.
Throws(spec) == ~IsInjective(Labels(spec.flows))

\* The longest prefix of s that names no label twice: what update adds.
Added(s) == SubSeq(s, 1, Max({i \in 0..Len(s) : IsInjective(Labels(SubSeq(s, 1, i)))}))

\* update(spec) on the object n: the flows are made anew.
update(n, spec) ==
  [n EXCEPT !.default = spec.default,
            !.list = [i \in DOMAIN Added(spec.flows) |->
                        [label |-> spec.flows[i].label, val |-> spec.flows[i].val, tabled |-> TRUE]],
            !.detached = {}]

\* Where the flow that the table has for the label is in the list, or 0.
FindIndex(n, l) == SelectInSeq(n.list, LAMBDA f : f.label = l /\ f.tabled)
InTable(n, l) == FindIndex(n, l) # 0 \/ l \in n.detached

\* Where splice(flowIndex(label), 1) cuts the list.  flowIndex turns the index 0,
\* like the index -1 of a flow that is not there, into -1: the last element.
flowIndex(n, l) == IF FindIndex(n, l) \in {0, 1} THEN Len(n.list) ELSE FindIndex(n, l)

\* Mutant: a label may be used again.
CanAdd_Always(n, l) == TRUE
\* addFlow throws if the table has the label.
CanAdd(n, l) == ~InTable(n, l)
addFlow(n, l) == [n EXCEPT !.list = Append(@, [label |-> l, val |-> DefaultValue, tabled |-> TRUE])]

\* The flow cut from the list stays in the table if it was another one, and the
\* label's own flow stays in the list without its place in the table.
removeFlow(n, l) ==
  LET i == flowIndex(n, l)
      rest == IF n.list = << >> THEN << >> ELSE RemoveAt(n.list, i)
      lost == IF n.list # << >> /\ n.list[i].tabled THEN {n.list[i].label} ELSE {}
  IN [n EXCEPT !.list = [j \in DOMAIN rest |->
                           IF rest[j].label = l THEN [rest[j] EXCEPT !.tabled = FALSE] ELSE rest[j]],
               !.detached = (@ \cup lost) \ {l}]
Missplices(n, l) == n.list # << >> /\ ~(FindIndex(n, l) # 0 /\ flowIndex(n, l) = FindIndex(n, l))

\* The setters of a link's QoS, through default_link or flows[label].
SetValue(n, t, v) ==
  IF t = Default THEN [n EXCEPT !.default = v]
  ELSE IF FindIndex(n, t) = 0 THEN n
  ELSE [n EXCEPT !.list[FindIndex(n, t)].val = v]

ClientInit ==
  /\ net = [c \in Client |-> [default |-> DefaultValue, list |-> << >>, detached |-> {}]]
  /\ pc = [c \in Script |-> "run"]
  /\ gets = {} /\ posts = {}
  /\ file = [id |-> 1, spec |-> [default |-> DefaultValue, flows |-> << >>]]
  /\ ids = 1 /\ base = [c \in Client |-> 0]
  /\ edits = [c \in Client |-> NoEdits]
  /\ last = [t \in Target |-> IF t = Default THEN DefaultValue ELSE Absent]
  /\ raced = FALSE /\ misspliced = FALSE

-----------------------------------------------------------------------------
(* The frontend, and sending a spec to it.                                 *)

\* A POST with the spec, which says `said' of the targets edited.
Send(c, spec, said) ==
  /\ ids' = ids + 1
  /\ posts' = posts \cup {[from |-> c, id |-> ids', spec |-> spec, parent |-> base[c]]}
  /\ base' = [base EXCEPT ![c] = ids']
  /\ last' = [t \in Target |-> IF t \in DOMAIN said THEN said[t] ELSE last[t]]
  /\ edits' = [edits EXCEPT ![c] = NoEdits]

\* The frontend writes the file and answers; rush reloads (module Reload).
Posted(r) ==
  /\ posts' = posts \ {r}
  /\ file' = [id |-> r.id, spec |-> r.spec]
  /\ raced' = (raced \/ r.parent # file.id)
  /\ pc' = IF r.from \in Script THEN [pc EXCEPT ![r.from] = "run"] ELSE pc
  /\ UNCHANGED <<net, gets, ids, base, edits, last, misspliced>>

\* The frontend answers a GET with what is in the file.
Answer(c) == gets' = gets \cup {[to |-> c, id |-> file.id, spec |-> file.spec]}

-----------------------------------------------------------------------------
(* Scripts.                                                                *)

\* A call of addFlow, removeFlow or of a setter.
Edit(c, n, t, v) ==
  /\ pc[c] = "run"
  /\ net' = [net EXCEPT ![c] = n]
  /\ edits' = [edits EXCEPT ![c] = Noted(@, t, v)]
  /\ Cardinality(DOMAIN edits'[c]) <= MaxEdits
  /\ UNCHANGED <<pc, httpVars, ids, base, last, raced>>

ScriptAdd(c, l) == /\ CanAdd(net[c], l) /\ Len(net[c].list) < MaxFlows
                   /\ Edit(c, addFlow(net[c], l), l, DefaultValue)
                   /\ UNCHANGED misspliced

ScriptSet(c, t, v) == /\ t = Default \/ InTable(net[c], t)
                      /\ Edit(c, SetValue(net[c], t, v), t, v)
                      /\ UNCHANGED misspliced

ScriptRemove(c, l) ==
  /\ Edit(c, removeFlow(net[c], l), l, Absent)
  /\ misspliced' = (misspliced \/ Missplices(net[c], l))

\* commit: the request is sent with the configuration as it is; Posted answers.
commit(c) == /\ pc[c] = "run" /\ pc' = [pc EXCEPT ![c] = "post"]
             /\ ids < MaxCommits
             /\ Send(c, config(net[c]), edits[c])
             /\ UNCHANGED <<net, gets, file, raced, misspliced>>

\* get: nobody looks at the object of a script that awaits the answer, so that
\* the request, the answer and the update are one step.
get(c) ==
  /\ pc[c] = "run"
  /\ net' = [net EXCEPT ![c] = update(@, file.spec)]
  /\ pc' = [pc EXCEPT ![c] = IF Throws(file.spec) THEN "thrown" ELSE "run"]
  /\ base' = [base EXCEPT ![c] = file.id]
  /\ edits' = [edits EXCEPT ![c] = NoEdits]
  /\ UNCHANGED <<httpVars, ids, last, raced, misspliced>>

ScriptNext ==
  \/ \E c \in Script :
       \/ \E l \in Label : ScriptAdd(c, l) \/ ScriptRemove(c, l)
       \/ \E t \in Settable, v \in Value : ScriptSet(c, t, v)
       \/ commit(c) \/ get(c)
  \/ \E r \in posts : Posted(r)

-----------------------------------------------------------------------------

\* The table has exactly the flows in the list, one for each label.
Consistent(n) == /\ n.detached = {} /\ IsInjective(Labels(n.list))
                 /\ \A i \in DOMAIN n.list : n.list[i].tabled

\* As long as removeFlow cut the right flow (not the first of several, nor one
\* that is not there), a client's two views of its flows agree: what it changes
\* through flows[label] is what commit sends, and the file names no label twice,
\* whoever commits: rush would reject it, and every later get would throw.
ViewsAgree ==
  ~misspliced => ~Throws(file.spec) /\ \A c \in Client : Consistent(net[c])

=============================================================================
