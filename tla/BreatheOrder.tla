---------------------------- MODULE BreatheOrder ----------------------------
(***************************************************************************)
(* rush/src/engine.rs compute_breathe_order: the order in which breathe    *)
(* calls the apps' pull and push.  The loops over HashSets visit elements  *)
(* in an order that changes from run to run: each is stepped here, with a  *)
(* free choice of the next element.  Vec loops keep their order.           *)
(***************************************************************************)
EXTENDS Integers, Sequences, FiniteSets, SequencesExt

CONSTANT Configs   \* app networks to start from: [order, links, pull, push], order
                   \* being the apps' names in the order Vec::sort puts them

ASSUME ConfigsAssumption ==
  \A c \in Configs : /\ c.order \in Seq(Range(c.order)) /\ IsInjective(c.order)
                     /\ c.links \subseteq Range(c.order) \X Range(c.order)
                     /\ \A l \in c.links : l[1] # l[2]
                     /\ c.pull \subseteq Range(c.order)
                     /\ c.push \subseteq Range(c.order)

VARIABLES config,       \* the app network at hand
          pc,           \* "collect", "select" or "done"
          inhale,       \* state.inhale
          exhale,       \* state.exhale
          successors,   \* map of successors; a missing key is {}
          dependents,   \* the Vec dependents
          selected,     \* the HashSet selected
          names,        \* the Vec a loop runs over, from its current element on
          todo          \* successors of the current element not yet visited

orderVars == <<config, pc, inhale, exhale, successors, dependents, selected, names, todo>>

App == Range(config.order)

\* The elements of s that are in S, in the order of s.
Nth(I, i) == CHOOSE j \in I : Cardinality({k \in I : k <= j}) = i
Kept(s, S) == LET I == {j \in DOMAIN s : s[j] \in S}
              IN [i \in 1..Cardinality(I) |-> s[Nth(I, i)]]

Sorted(S) == Kept(config.order, S)
Successors == [a \in App |-> {b \in App : <<a, b>> \in config.links}]

\* The successors of the element a loop over v starts with.
FirstTodo(v, succ) == IF v = << >> THEN {} ELSE succ[Head(v)]

\* Mutant: every app is taken for one that pulls.
OrderInit_AllPull == /\ config \in Configs
                     /\ pc = "collect"
                     /\ inhale = config.order
                     /\ exhale = << >>
                     /\ successors = Successors
                     /\ dependents = << >>
                     /\ selected = {}
                     /\ names = inhale
                     /\ todo = FirstTodo(inhale, successors)
\* inhale, sorted by name, and the map of successors; exhale is cleared.
OrderInit == /\ config \in Configs
             /\ pc = "collect"
             /\ inhale = Sorted(config.pull)
             /\ exhale = << >>
             /\ successors = Successors
             /\ dependents = << >>
             /\ selected = {}
             /\ names = inhale
             /\ todo = FirstTodo(inhale, successors)

\* The next element of the Vec the loop runs over.
NextName == /\ names # << >>
            /\ todo = {}
            /\ names' = Tail(names)
            /\ todo' = FirstTodo(Tail(names), successors)
            /\ UNCHANGED <<config, pc, inhale, exhale, successors, dependents, selected>>

IsNewDependent(s) ==
  s \in config.push /\ s \notin Range(exhale) /\ s \notin Range(dependents)

\* Collecting the dependents of names (the inhalers at first, then those just
\* exhaled), one successor.
Collect(s) ==
  /\ pc = "collect"
  /\ s \in todo
  /\ todo' = todo \ {s}
  /\ dependents' = IF IsNewDependent(s) THEN Append(dependents, s) ELSE dependents
  /\ UNCHANGED <<config, pc, inhale, exhale, successors, selected, names>>

\* Removal of the apps just processed from the map of successors.
Processed == Range(inhale) \cup Range(exhale)
Pruned == [a \in App |-> IF a \in Processed THEN {} ELSE successors[a]]

\* Mutant: the main loop has no end.
Collected_Forever ==
  /\ pc = "collect"
  /\ names = << >>
  /\ successors' = Pruned
  /\ selected' = {}
  /\ names' = dependents
  /\ todo' = FirstTodo(dependents, Pruned)
  /\ pc' = "select"
  /\ UNCHANGED <<config, inhale, exhale, dependents>>
\* The collecting is over: next round of the main loop, or its end.
Collected ==
  /\ pc = "collect"
  /\ names = << >>
  /\ successors' = Pruned
  /\ selected' = {}
  /\ names' = dependents
  /\ todo' = FirstTodo(dependents, Pruned)
  /\ pc' = IF dependents = << >> THEN "done" ELSE "select"
  /\ UNCHANGED <<config, inhale, exhale, dependents>>

\* Mutant: an app that others were put behind may itself be put off.
Delays_Selected(s) == s \in Range(dependents) /\ Len(dependents) > 1
\* Does the current element, an input of s, put s off to a later round?
Delays(s) == s \notin selected /\ s \in Range(dependents) /\ Len(dependents) > 1

Select(s) ==
  /\ pc = "select"
  /\ s \in todo
  /\ todo' = todo \ {s}
  /\ IF Delays(s)
     THEN /\ selected' = selected \cup {Head(names)}
          /\ dependents' = Kept(dependents, App \ {s})
     ELSE UNCHANGED <<selected, dependents>>
  /\ UNCHANGED <<config, pc, inhale, exhale, successors, names>>

\* Mutant: the dependents left are appended in the order they were found.
Exhaled_Unsorted == dependents
\* The dependents that are left, in the order they go to exhale.
Exhaled == Sorted(Range(dependents))

\* The selection is over: append to exhale and collect their dependents.
Exhale ==
  /\ pc = "select"
  /\ names = << >>
  /\ exhale' = exhale \o Exhaled
  /\ dependents' = << >>
  /\ names' = Exhaled
  /\ todo' = FirstTodo(Exhaled, successors)
  /\ pc' = "collect"
  /\ UNCHANGED <<config, inhale, successors, selected>>

OrderNext == \/ NextName
             \/ \E s \in App : Collect(s)
             \/ Collected
             \/ \E s \in App : Select(s)
             \/ Exhale

\* The function runs to its end.
OrderSpec == OrderInit /\ [][OrderNext]_orderVars /\ WF_orderVars(OrderNext)

-----------------------------------------------------------------------------

\* "executes each app's callbacks at most once": neither list names an app
\* twice, though an app is collected, put off and collected again.  And one that
\* was put off to break a cycle or to follow its inputs comes back: exhaled are the
\* push apps that packets can reach, which are those that are linked to an app that
\* pulls or to one exhaled before (the callback of an app without push panics), and
\* in the end every one of them.  Packets sent to an app that is missing would wait
\* for ever.
ExhalesReachableOnce ==
  /\ IsInjective(inhale) /\ IsInjective(exhale) /\ IsInjective(dependents)
  /\ \A j \in DOMAIN exhale :
       /\ exhale[j] \in config.push
       /\ \E a \in config.pull \cup {exhale[i] : i \in 1..(j - 1)} : <<a, exhale[j]>> \in config.links
  /\ pc = "done" => \A l \in config.links :
       l[1] \in config.pull \cup Range(exhale) /\ l[2] \in config.push => l[2] \in Range(exhale)

\* Every round of the main loop exhales some app, so compute_breathe_order
\* returns, whatever cycles the app network has.
Terminates == <>[](pc = "done")

\* The order of exhale follows link l.
Follows(l) == l[1] # l[2] =>
  \A i, j \in DOMAIN exhale : exhale[i] = l[1] /\ exhale[j] = l[2] => i < j

\* "follows link dependencies when possible", for links from apps that only
\* push: on a network without cycles the source is exhaled before the target.
FollowsPushLinks ==
  pc = "done" => \A l \in config.links : l[1] \notin config.pull => Follows(l)
=============================================================================
