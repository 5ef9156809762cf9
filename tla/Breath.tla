------------------------------- MODULE Breath -------------------------------
(***************************************************************************)
(* The engine at work: main, breathe and pace_breathing of                 *)
(* rush/src/engine.rs call the apps of a network that is in place (module  *)
(* Engine) in an order that is given (module BreatheOrder).  The apps are  *)
(* those that only move packets: RawSocket (rawsocket_app.rs), Source,     *)
(* Sink, Join, Tee (basic_apps.rs) and Loss (qos.rs).  They take buffers   *)
(* from the pool (module PacketPool) and pass them on over links, which    *)
(* are the queues that module Link implements.  Each round of an app's     *)
(* loop is an action; a buffer in scope is in `hand'.  Frames are told     *)
(* apart by their lengths.                                                 *)
(***************************************************************************)
EXTENDS PacketPool, Sequences, SequencesExt

CONSTANTS App, LinkName,
          Kind,           \* app -> "RawSocket", "Source", "Sink", "Join", "Tee", "Loss"
          In, Out,        \* app -> its input links, its output links
          Inhale, Exhale, \* the breathe order
          LINK_MAX_PACKETS, PULL_NPACKETS, MAXSLEEP,
          Size,           \* Source's size
          ratio, Scale,   \* Loss drops `ratio' of `Scale' packets
          Arrivals,       \* app -> frames that come in on its interface
          MaxMade,        \* bound: packets that Source makes
          NoLink

ASSUME NetworkAssumption ==
  /\ In \in [App -> SUBSET LinkName] /\ Out \in [App -> SUBSET LinkName]
  /\ NoLink \notin LinkName
  /\ Inhale \in Seq(App) \ {<< >>} /\ Exhale \in Seq(App)
  /\ Size \in Nat
  /\ Arrivals \in [App -> Seq(Nat \ {0, Size})]
  /\ \A a \in App : Kind[a] = "Loss" => Out[a] # {}  \* unwrap()

VARIABLES link,      \* link -> packets on it
          coming,    \* app -> frames that have yet to reach its interface
          rx, wire,  \* app -> frames its interface has for it, and got from it
          hand,      \* packets in scope, the last one taken last
          todo,      \* callbacks of this breath that have not returned, [app, op]
          at, left,  \* the link the callback is at, and those it has yet to visit
          limit,     \* packets the pull may still take
          outs,      \* Tee: outputs that have yet to get a copy
          paused,    \* between two breaths
          SLEEP, LASTFREES,
          made,      \* packets that Source made
          refused,   \* history: links that had no room for a packet (txdrop > 0)
          blocked    \* history: an interface was not ready for a packet

loopVars == <<todo, at, left, limit, outs, paused>>
paceVars == <<SLEEP, LASTFREES>>
ioVars == <<coming, rx, wire, made, blocked>>
breathVars == <<link, hand, refused, loopVars, paceVars, ioVars>>

BreathInit == /\ Init
              /\ link = [l \in LinkName |-> << >>] /\ hand = << >> /\ refused = {}
              /\ coming = Arrivals /\ rx = [a \in App |-> << >>] /\ wire = [a \in App |-> << >>]
              /\ todo = << >> /\ at = NoLink /\ left = {} /\ limit = 0 /\ outs = {}
              /\ paused = FALSE
              /\ SLEEP = 0 /\ LASTFREES = 0 /\ made = 0 /\ blocked = FALSE

-----------------------------------------------------------------------------
(* The engine.                                                             *)

Callbacks == [i \in DOMAIN Inhale |-> [app |-> Inhale[i], op |-> "pull"]]
               \o [i \in DOMAIN Exhale |-> [app |-> Exhale[i], op |-> "push"]]
\* Mutant: a callback serves one of its links.
Visits_One(cb) == LET links == IF cb.op = "pull" THEN Out[cb.app] ELSE In[cb.app]
                  IN IF links = {} THEN {} ELSE {CHOOSE l \in links : TRUE}
\* The links a callback loops over; Join leaves its inputs alone without an output.
Visits(cb) == CASE cb.op = "pull" -> Out[cb.app]
                [] cb.op = "push" -> IF Kind[cb.app] = "Join" /\ Out[cb.app] = {}
                                     THEN {} ELSE In[cb.app]

\* breathe: the callbacks are called one by one.
breathe ==
  /\ Ready /\ todo = << >> /\ ~paused
  /\ todo' = Callbacks /\ left' = Visits(Callbacks[1])
  /\ UNCHANGED <<vars, link, hand, refused, at, limit, outs, paused, paceVars, ioVars>>

\* A callback goes on to the next of its links, in the order of a HashMap.
Visit(l) ==
  /\ Ready /\ at = NoLink /\ l \in left
  /\ at' = l /\ left' = left \ {l}
  /\ limit' = PULL_NPACKETS
  /\ UNCHANGED <<vars, link, hand, refused, todo, outs, paused, paceVars, ioVars>>

\* It returns; after the last one the breath is over.
Return ==
  /\ Ready /\ todo # << >> /\ at = NoLink /\ left = {}
  /\ todo' = Tail(todo)
  /\ left' = IF Len(todo) > 1 THEN Visits(todo[2]) ELSE {}
  /\ paused' = (Len(todo) = 1)
  /\ UNCHANGED <<vars, link, hand, refused, at, limit, outs, paceVars, ioVars>>

\* main after a breath: sleep or not, and breathe again ...
pace_breathing ==
  /\ Ready /\ paused /\ paused' = FALSE
  /\ SLEEP' = IF LASTFREES # frees THEN SLEEP \div 2
              ELSE IF SLEEP < MAXSLEEP THEN SLEEP + 1 ELSE MAXSLEEP
  /\ LASTFREES' = frees
  /\ UNCHANGED <<vars, link, hand, refused, todo, at, left, limit, outs, ioVars>>

\* ... or, when done() says so, return; main is called again, and breathes.
main == /\ Ready /\ paused /\ paused' = FALSE
        /\ UNCHANGED <<vars, link, hand, refused, todo, at, left, limit, outs, paceVars, ioVars>>

-----------------------------------------------------------------------------
(* What the apps' loops are made of.                                       *)

\* The app whose callback is at a link.
Running(kind, op) == /\ Ready /\ todo # << >> /\ at # NoLink
                     /\ Kind[todo[1].app] = kind /\ todo[1].op = op
Self == todo[1].app
Output == CHOOSE l \in Out[Self] : TRUE

\* The loop at a link ends.
Leave == /\ at' = NoLink
         /\ UNCHANGED <<vars, link, hand, refused, todo, left, limit, outs, paused, paceVars>>

\* packet::allocate and fill: the new packet is in scope, unless the pool gave up.
Newest == IF nfree > 0 THEN list[nfree - 1] ELSE allocated + step
Take(n, others) == /\ allocate(n)
                   /\ IF panic' = "none" THEN hand' = Append(hand, Newest) /\ others
                                         ELSE UNCHANGED breathVars

\* link::receive
Receive == /\ hand = << >> /\ link[at] # << >>
           /\ hand' = <<Head(link[at])>>
           /\ link' = [link EXCEPT ![at] = Tail(@)]
           /\ UNCHANGED <<vars, refused, ioVars>>

\* link::transmit of the packet taken last.
Transmit(l) ==
  /\ hand' = Front(hand)
  /\ IF Len(link[l]) < LINK_MAX_PACKETS
     THEN /\ link' = [link EXCEPT ![l] = Append(@, Last(hand))]
          /\ UNCHANGED <<vars, refused>>
     ELSE /\ free(Last(hand))
          /\ refused' = refused \cup {l}
          /\ UNCHANGED link
  /\ UNCHANGED ioVars

Free == /\ free(Last(hand))
        /\ hand' = Front(hand)
        /\ UNCHANGED <<link, refused>>

Keep == UNCHANGED <<todo, at, left, limit, outs, paused, paceVars>>

-----------------------------------------------------------------------------
(* The apps.                                                               *)

\* can_receive: select(2) says that there is a frame; a call that a signal
\* interrupted is repeated.
can_receive == rx[Self] # << >>

\* Mutant: the pull goes on for as long as there are frames.
RawSocketPull_NoLimit ==
  /\ Running("RawSocket", "pull")
  /\ \/ /\ hand = << >> /\ can_receive
        /\ Take(Head(rx[Self]),
                /\ rx' = [rx EXCEPT ![Self] = Tail(@)]
                /\ UNCHANGED <<link, refused, loopVars, paceVars, coming, wire, made, blocked>>)
     \/ hand # << >> /\ Transmit(at) /\ Keep
     \/ hand = << >> /\ ~can_receive /\ Leave /\ UNCHANGED ioVars
RawSocketPull ==
  /\ Running("RawSocket", "pull")
  /\ \/ /\ hand = << >> /\ limit > 0 /\ can_receive
        /\ Take(Head(rx[Self]),
                /\ rx' = [rx EXCEPT ![Self] = Tail(@)]
                /\ limit' = limit - 1
                /\ UNCHANGED <<link, refused, todo, at, left, outs, paused, paceVars,
                               coming, wire, made, blocked>>)
     \/ hand # << >> /\ Transmit(at) /\ Keep
     \/ /\ hand = << >> /\ ~(limit > 0 /\ can_receive)
        /\ Leave /\ UNCHANGED ioVars

SourcePull ==
  /\ Running("Source", "pull")
  /\ \/ /\ hand = << >> /\ limit > 0 /\ made < MaxMade
        /\ Take(Size, /\ made' = made + 1
                      /\ limit' = limit - 1
                      /\ UNCHANGED <<link, refused, todo, at, left, outs, paused, paceVars,
                                     coming, rx, wire, blocked>>)
     \/ hand # << >> /\ Transmit(at) /\ Keep
     \/ /\ hand = << >> /\ ~(limit > 0 /\ made < MaxMade)
        /\ Leave /\ UNCHANGED ioVars

SinkPush == /\ Running("Sink", "push")
            /\ \/ Receive /\ Keep
               \/ hand # << >> /\ Free /\ Keep /\ UNCHANGED ioVars

JoinPush == /\ Running("Join", "push")
            /\ \/ Receive /\ Keep
               \/ hand # << >> /\ Transmit(Output) /\ Keep

\* Mutant: the original is sent to the output instead of a copy, and freed.
TeeClone_Original(l) ==
  /\ Len(hand) = 1 /\ l \in outs
  /\ link' = [link EXCEPT ![l] = Append(@, hand[1])]
  /\ outs' = outs \ {l}
  /\ UNCHANGED <<vars, hand, refused, todo, at, left, limit, paused, paceVars, ioVars>>
\* A copy for the output l, which outs loses when the copy is sent.
TeeClone(l) ==
  /\ Len(hand) = 1 /\ l \in outs
  /\ Take(length[hand[1]], UNCHANGED <<link, refused, loopVars, paceVars, ioVars>>)

TeePush ==
  /\ Running("Tee", "push")
  /\ \/ Receive /\ outs' = Out[Self] /\ UNCHANGED <<todo, at, left, limit, paused, paceVars>>
     \/ \E l \in outs : TeeClone(l)
     \/ \E l \in outs : /\ Len(hand) = 2 /\ Transmit(l) /\ outs' = outs \ {l}
                        /\ UNCHANGED <<todo, at, left, limit, paused, paceVars>>
     \/ Len(hand) = 1 /\ outs = {} /\ Free /\ Keep /\ UNCHANGED ioVars

\* Loss draws a number below Scale for each packet.
LossPush ==
  /\ Running("Loss", "push")
  /\ \/ Receive /\ Keep
     \/ \E draw \in 0..(Scale - 1) :
          /\ hand # << >> /\ Keep
          /\ IF draw >= ratio THEN Transmit(Output) ELSE Free /\ UNCHANGED ioVars

\* The end of the loop over an input.
InputEmpty == /\ \E k \in {"Sink", "Join", "Tee", "Loss"} : Running(k, "push")
              /\ hand = << >> /\ link[at] = << >>
              /\ Leave /\ UNCHANGED ioVars

\* Mutant: the packet is freed before it is written.
Write_AfterFree ==
  /\ Running("RawSocket", "push")
  /\ link[at] # << >>
  /\ free(Head(link[at]))
  /\ wire' = [wire EXCEPT ![Self] = Append(@, length'[Head(link[at])])]
  /\ link' = [link EXCEPT ![at] = Tail(@)]
  /\ UNCHANGED <<hand, refused, coming, rx, made, blocked>> /\ Keep
\* RawSocket's push, a packet for which can_transmit holds: it is written ...
Write == /\ Running("RawSocket", "push")
         /\ link[at] # << >>
         /\ wire' = [wire EXCEPT ![Self] = Append(@, length[Head(link[at])])]
         /\ free(Head(link[at]))
         /\ link' = [link EXCEPT ![at] = Tail(@)]
         /\ UNCHANGED <<hand, refused, coming, rx, made, blocked>> /\ Keep

\* ... and the loop's end, with packets left when the interface is not ready.
WriteEnd == /\ Running("RawSocket", "push")
            /\ blocked' = (blocked \/ link[at] # << >>)
            /\ Leave /\ UNCHANGED <<coming, rx, wire, made>>

\* The assertions on select(2), read(2) and write(2).
SocketError ==
  /\ \/ Running("RawSocket", "pull")
     \/ Running("RawSocket", "push") /\ link[at] # << >>
  /\ Abort
  /\ UNCHANGED breathVars

\* A frame comes in on an interface.
Arrive(a) == /\ panic = "none" /\ coming[a] # << >>
             /\ rx' = [rx EXCEPT ![a] = Append(@, Head(coming[a]))]
             /\ coming' = [coming EXCEPT ![a] = Tail(@)]
             /\ UNCHANGED <<vars, link, hand, refused, loopVars, paceVars, wire, made, blocked>>

\* The program may preallocate packets before its first breath.
Preallocate == /\ \/ \E n \in Packet : preallocate(n) /\ allocated = 0
                  \/ PreallocateLoop
               /\ todo = << >> /\ ~paused
               /\ UNCHANGED breathVars

EngineNext == \/ breathe \/ (\E l \in LinkName : Visit(l)) \/ Return
              \/ pace_breathing \/ main
              \/ RawSocketPull \/ SourcePull \/ SinkPush \/ JoinPush \/ TeePush \/ LossPush
              \/ InputEmpty \/ Write \/ WriteEnd \/ SocketError

BreathNext == EngineNext \/ Preallocate \/ (\E a \in App : Arrive(a))

\* The engine is a loop that never waits; an interface that is not ready for
\* a packet becomes ready again and again.
BreathSpec == /\ BreathInit /\ [][BreathNext]_<<vars, breathVars>>
              /\ WF_<<vars, breathVars>>(EngineNext \/ Preallocate)
              /\ SF_<<vars, breathVars>>(Write)

-----------------------------------------------------------------------------

InOrder(s) == \A i, j \in DOMAIN s : i < j => s[i] < s[j]
Received(s) == SelectSeq(s, LAMBDA n : n # Size)

\* A frame that came in on some interface, or one of Source.
Frame == {Size} \cup UNION {Range(Arrivals[a]) : a \in App}
WrittenIntact == \A a \in App : \A i \in DOMAIN wire[a] : wire[a][i] \in Frame

\* packet.rs: "A packet may never go out of scope.  It is either on the
\* freelist, a link, or in active use (in-scope)."  Every packet that left the
\* freelist is at one place of one link or in one app's scope: no app forgets
\* one, sends one twice or uses one after it gave it away.
OneHolder ==
  /\ \A p \in inUse : \/ \E l \in LinkName : p \in Range(link[l])
                      \/ p \in Range(hand)
  /\ \A l \in LinkName : /\ Range(link[l]) \subseteq inUse \ Range(hand)
                         /\ IsInjective(link[l])
                         /\ \A m \in LinkName \ {l} : Range(link[l]) \cap Range(link[m]) = {}
  /\ Range(hand) \subseteq inUse /\ IsInjective(hand)
  /\ todo = << >> => hand = << >>

\* A frame that was received is written at most once, with the length it had,
\* and never before one that came in earlier: although its buffer was copied,
\* refused, freed and used again on the way (rawsocket_app.rs: receive and
\* transmit; Tee, Loss and Join between them).
WrittenInOrder == WrittenIntact /\ \A a \in App : InOrder(Received(wire[a]))

\* PULL_NPACKETS is a tenth of a link's room so that links do not fill up: in
\* this network a packet is refused by a link only after an interface was not
\* ready and left packets behind (rawsocket_app.rs: pull's limit).
DropsOnlyBehindBlocked == refused # {} => blocked

\* Once no more frames come in, every packet leaves the network within a few
\* breaths, although an interface may refuse for a while and a packet may have to wait
\* for the breath in which the app that holds it is called (engine.rs: breathe).
Drains == <>[](panic # "none" \/ (inUse = {} /\ \A a \in App : rx[a] = << >>))
=============================================================================
