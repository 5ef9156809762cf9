------------------------------- MODULE Engine -------------------------------
(***************************************************************************)
(* rush/src/engine.rs configure: migrates the running app network to a new *)
(* configuration in four loops (unlink, stop, start, link), one action     *)
(* each.  A round of a loop touches the one app or the one pair of ports   *)
(* it is for, and no unwrap() depends on another round of the same loop:   *)
(* the order in which the HashMaps are walked does not matter.  An app or  *)
(* a link is told apart from its successor by the call of configure that   *)
(* made it: a kept app keeps its delay queue or token bucket, a kept link  *)
(* its packets.  A failed unwrap() is a panic.                             *)
(***************************************************************************)
EXTENDS Naturals, Functions

CONSTANT MaxConfigure   \* bound: calls of configure

ASSUME MaxConfigureAssumption == MaxConfigure \in Nat

VARIABLES app_table,    \* name -> [app, conf, input, output]; app is the call that
                        \* made the instance, the others map ports to links
          link_table,   \* link [from, to] -> the call that made the instance
          config,       \* the configuration being applied, or applied last:
                        \* [apps, links], apps from names to arguments
          pc,           \* "idle" or the loop that is next
          calls,        \* calls of configure so far
          panicked,     \* an unwrap() failed
          before        \* history: app_table and link_table at the call

engineVars == <<app_table, link_table, config, pc, calls, panicked, before>>

Empty == [x \in {} |-> x]

EngineInit == /\ app_table = Empty /\ link_table = Empty
              /\ config = [apps |-> Empty, links |-> {}]
              /\ pc = "idle" /\ calls = 0
              /\ panicked = FALSE
              /\ before = [apps |-> Empty, links |-> Empty]

\* The order of the four loops.
Phases == [unlink |-> "stop", stop |-> "start", start |-> "link", link |-> "idle"]

\* One of the loops runs to its end, or panics.
Loop(name) == /\ pc = name /\ ~panicked
              /\ pc' = Phases[name]
              /\ UNCHANGED <<config, calls, before>>

configure(c) ==
  /\ pc = "idle" /\ ~panicked
  /\ calls < MaxConfigure
  /\ calls' = calls + 1
  /\ config' = c
  /\ before' = [apps |-> app_table, links |-> link_table]
  /\ pc' = "unlink"
  /\ UNCHANGED <<app_table, link_table, panicked>>

\* app_table.get_mut(name).unwrap() for the two ends of a set of links.
EndsExist(links) == \A l \in links : {l.from.app, l.to.app} \subseteq DOMAIN app_table

Panic == panicked' = TRUE /\ UNCHANGED <<app_table, link_table>>

\* The ports of app n that the links use, by direction.
Outputs(n, links) == {l.from.port : l \in {m \in links : m.from.app = n}}
Inputs(n, links) == {l.to.port : l \in {m \in links : m.to.app = n}}

Gone == DOMAIN link_table \ config.links

\* Mutant: the apps at its ends keep their reference to a link removed.
unlink_apps_TableOnly ==
  /\ Loop("unlink")
  /\ link_table' = Restrict(link_table, DOMAIN link_table \ Gone)
  /\ UNCHANGED <<app_table, panicked>>
\* First loop: the links that are going away.
unlink_apps ==
  /\ Loop("unlink")
  /\ IF ~EndsExist(Gone) THEN Panic
     ELSE /\ link_table' = Restrict(link_table, DOMAIN link_table \ Gone)
          /\ app_table' = [n \in DOMAIN app_table |->
               [app_table[n] EXCEPT !.output = Restrict(@, DOMAIN @ \ Outputs(n, Gone)),
                                    !.input = Restrict(@, DOMAIN @ \ Inputs(n, Gone))]]
          /\ UNCHANGED panicked

\* The app is in the new configuration, unchanged.
Stays(n) == n \in DOMAIN config.apps /\ config.apps[n] = app_table[n].conf

\* Second loop: the apps that are gone or changed.
stop_app ==
  /\ Loop("stop")
  /\ app_table' = Restrict(app_table, {n \in DOMAIN app_table : Stays(n)})
  /\ UNCHANGED <<link_table, panicked>>

\* Third loop: the apps that are not running.
start_app ==
  /\ Loop("start")
  /\ app_table' = [n \in DOMAIN app_table \cup DOMAIN config.apps |->
                     IF n \in DOMAIN app_table THEN app_table[n]
                     ELSE [app |-> calls, conf |-> config.apps[n],
                           input |-> Empty, output |-> Empty]]
  /\ UNCHANGED <<link_table, panicked>>

\* The instances of the configured links, by the ports of app n they are on.
OnOutputs(n, table) ==
  [p \in Outputs(n, config.links) |->
     table[CHOOSE l \in config.links : l.from = [app |-> n, port |-> p]]]
OnInputs(n, table) ==
  [p \in Inputs(n, config.links) |->
     table[CHOOSE l \in config.links : l.to = [app |-> n, port |-> p]]]

\* f with g's values where g has any.
Override(f, g) == [x \in DOMAIN f \cup DOMAIN g |-> IF x \in DOMAIN g THEN g[x] ELSE f[x]]

Plugged(table) ==
  [n \in DOMAIN app_table |->
     [app_table[n] EXCEPT !.output = Override(@, OnOutputs(n, table)),
                          !.input = Override(@, OnInputs(n, table))]]

\* Mutant: a fresh link is made for every link of the configuration.
link_apps_Fresh ==
  /\ Loop("link")
  /\ link_table' = [l \in config.links |-> calls]
  /\ app_table' = Plugged(link_table')
  /\ UNCHANGED panicked
\* Fourth loop: every configured link is found or made, and plugged into both
\* apps.
link_apps ==
  /\ Loop("link")
  /\ IF ~EndsExist(config.links) THEN Panic
     ELSE /\ link_table' = Override([l \in config.links |-> calls], link_table)
          /\ app_table' = Plugged(link_table')
          /\ UNCHANGED panicked

EngineNext == unlink_apps \/ stop_app \/ start_app \/ link_apps

-----------------------------------------------------------------------------

Configured == pc = "idle" /\ ~panicked

\* "Configure the running app network to match (new) config": after configure
\* the network is what a start from nothing would have made of it.  Every app
\* runs with its configured arguments, and its ports hold exactly the links
\* the configuration gives it, shared with the app on the other end; no port
\* holds a link of an earlier configuration.  No unwrap() fails on the way: an
\* app is there when its links are removed or made.
MatchesConfig ==
  /\ ~panicked
  /\ Configured =>
       /\ DOMAIN app_table = DOMAIN config.apps
       /\ DOMAIN link_table = config.links
       /\ \A n \in DOMAIN app_table :
            /\ app_table[n].conf = config.apps[n]
            /\ app_table[n].output = OnOutputs(n, link_table)
            /\ app_table[n].input = OnInputs(n, link_table)

\* "by making the changes needed", and no others: an app whose configuration
\* stayed the same is the same instance (its queued packets and tokens live
\* on), and so is a link in both configurations (its packets are not dropped),
\* even when an app on its end was restarted.
KeepsUnchanged ==
  Configured =>
    /\ \A n \in DOMAIN app_table \cap DOMAIN before.apps :
         app_table[n].app = before.apps[n].app <=> app_table[n].conf = before.apps[n].conf
    /\ \A l \in DOMAIN link_table \cap DOMAIN before.links :
         link_table[l] = before.links[l]
=============================================================================
