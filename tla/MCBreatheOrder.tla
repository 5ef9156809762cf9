--------------------------- MODULE MCBreatheOrder ---------------------------
(***************************************************************************)
(* compute_breathe_order, twice, on every app network of four apps one of  *)
(* which only pulls and has no input, without links from an app to itself, *)
(* and on the app network that configure_synthetic_network builds for one  *)
(* flow "f" besides the default links, with the interfaces of setup.sh.    *)
(***************************************************************************)
EXTENDS BreatheTwice

SmallOrder == <<"a", "b", "c", "d">>
Pairs == {l \in Range(SmallOrder) \X Range(SmallOrder) : l[1] # l[2]}

\* Every network in which d only pulls, b and c only push, and a does either or
\* both.
Roles == {[pull |-> {"d"}, push |-> {"a", "b", "c"}],
          [pull |-> {"a", "d"}, push |-> {"a", "b", "c"}],
          [pull |-> {"a", "d"}, push |-> {"b", "c"}]}
SmallNetworks ==
  {[order |-> SmallOrder, links |-> ls, pull |-> r.pull, push |-> r.push] :
     ls \in SUBSET {l \in Pairs : l[2] # "d"}, r \in Roles}

\* The apps by name, sorted.  eth0 is the outer, veth0 the inner interface.
NetworkOrder ==
  << "eth0", "eth0_join", "eth0_offload", "eth0_split", "eth0_top", "eth0_tsd",
     "jitter_egress", "jitter_egress_f", "jitter_ingress", "jitter_ingress_f",
     "latency_egress", "latency_egress_f", "latency_ingress", "latency_ingress_f",
     "loss_egress", "loss_egress_f", "loss_ingress", "loss_ingress_f",
     "rate_egress", "rate_egress_f", "rate_ingress", "rate_ingress_f",
     "veth0", "veth0_join", "veth0_offload", "veth0_split", "veth0_top", "veth0_tsd" >>

\* The apps with a pull callback.
Pullers == {"eth0", "veth0",
            "jitter_egress", "jitter_egress_f", "jitter_ingress", "jitter_ingress_f",
            "latency_egress", "latency_egress_f", "latency_ingress", "latency_ingress_f"}

Chain(s) == {<<s[i], s[i + 1]>> : i \in 1..(Len(s) - 1)}

Ingress == Chain(<<"eth0", "eth0_tsd", "eth0_offload", "eth0_split", "rate_ingress",
                   "loss_ingress", "latency_ingress", "jitter_ingress", "veth0_join",
                   "eth0_top", "veth0">>)
IngressFlow == Chain(<<"eth0_split", "rate_ingress_f", "loss_ingress_f",
                       "latency_ingress_f", "jitter_ingress_f", "veth0_join">>)
Egress == Chain(<<"veth0", "veth0_tsd", "veth0_offload", "veth0_split", "rate_egress",
                  "loss_egress", "latency_egress", "jitter_egress", "eth0_join",
                  "veth0_top", "eth0">>)
EgressFlow == Chain(<<"veth0_split", "rate_egress_f", "loss_egress_f",
                      "latency_egress_f", "jitter_egress_f", "eth0_join">>)

TheNetwork == [order |-> NetworkOrder, pull |-> Pullers, push |-> Range(NetworkOrder),
               links |-> Ingress \cup IngressFlow \cup Egress \cup EgressFlow]

MCConfigs == SmallNetworks \cup {TheNetwork}

\* engine.rs says of the order that it "is deterministic with regard to the
\* configuration".  It is for the network of this program, at every reload.
NetworkIsDeterministic == config = TheNetwork => Deterministic

\* engine.rs: "follows link dependencies when possible (to optimize for
\* latency)".  In the network of this program a packet that comes in is pushed
\* from the interface to the first delay queue in one breath, whatever flow it
\* is in: no app that only pushes is exhaled after the one it feeds.
NetworkFollowsPushLinks == config = TheNetwork => FollowsPushLinks
=============================================================================
