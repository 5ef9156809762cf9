------------------------------- MODULE Delay -------------------------------
(***************************************************************************)
(* rush/src/qos.rs LatencyApp and JitterApp, the two users of DelayQueue.  *)
(* A push of Latency puts one delay and then the whole waiting batch into  *)
(* the queue.  Jitter gives each packet, at random, a delay of its own;    *)
(* with reorder set, a packet without one is transmitted at once and       *)
(* overtakes the queue.                                                    *)
(***************************************************************************)
EXTENDS DelayQueue

CONSTANTS Apps,    \* apps to check: "latency", "jitter" and "reorder" (Jitter with
                   \* reorder set)
          delay    \* Latency's ms, and the longest delay (us) that Jitter adds

ASSUME AppsAssumption == Apps \subseteq {"latency", "jitter", "reorder"}
ASSUME DelayAssumption == delay \in Nat

VARIABLES app,      \* the app at hand
          filled    \* history: the queue has been full at some time

vars == <<qvars, app, filled>>

-----------------------------------------------------------------------------
(* Latency                                                                 *)

\* Mutant: a breath without input leaves a delay as well.
PushDelay_EmptyBatch ==
  /\ app = "latency" /\ pc = "arrive" /\ panic = "none"
  /\ pc' = "push"
  /\ queue' = IF ~full THEN Append(queue, Delay(now + delay)) ELSE queue
  /\ UNCHANGED <<input, now, panic, arrived, delivered, freed, enqueued, due, direct>>
\* push begins: one delay for the batch, if there is a batch and room.
PushDelay ==
  /\ app = "latency" /\ pc = "arrive" /\ panic = "none"
  /\ pc' = "push"
  /\ queue' = IF input # << >> /\ ~full THEN Append(queue, Delay(now + delay)) ELSE queue
  /\ UNCHANGED <<input, now, panic, arrived, delivered, freed, enqueued, due, direct>>

\* Mutant: the batch is taken from the link newest first.
PushPacket_Lifo ==
  /\ app = "latency" /\ pc = "push" /\ panic = "none"
  /\ input # << >> /\ ~full
  /\ queue' = Append(queue, Pkt(Last(input)))
  /\ input' = Front(input)
  /\ Record(Last(input), now + delay)
  /\ UNCHANGED <<now, pc, panic, arrived, delivered, freed, direct>>
PushPacket ==
  /\ app = "latency" /\ pc = "push" /\ panic = "none"
  /\ input # << >> /\ ~full
  /\ queue' = Append(queue, Pkt(Head(input)))
  /\ input' = Tail(input)
  /\ Record(Head(input), now + delay)
  /\ UNCHANGED <<now, pc, panic, arrived, delivered, freed, direct>>

-----------------------------------------------------------------------------
(* Jitter.  0 < strength < 1: rng < strength may go either way.            *)

PushBegin ==
  /\ app # "latency" /\ pc = "arrive" /\ panic = "none"
  /\ pc' = "push"
  /\ UNCHANGED <<queue, input, now, panic, arrived, delivered, freed, enqueued, due, direct>>

\* The queue after enqueue_delay(t) of a push round on a queue with room.
WithDelay(t) == Append(queue, Delay(t))

\* add_jitter: a delay, and the packet behind it if there is still room.
PushJittered ==
  /\ \E t \in now..(now + delay) :
       IF Len(WithDelay(t)) >= capacity
       THEN queue' = WithDelay(t) /\ UNCHANGED <<input, enqueued, due>>
       ELSE /\ queue' = Append(WithDelay(t), Pkt(Head(input)))
            /\ input' = Tail(input)
            /\ Record(Head(input), t)
  /\ UNCHANGED <<delivered, direct, panic>>

PushDirect ==
  /\ app = "reorder"
  /\ delivered' = Append(delivered, <<Head(input), now>>)
  /\ direct' = direct \cup {Head(input)}
  /\ input' = Tail(input)
  /\ Record(Head(input), now)
  /\ UNCHANGED <<queue, panic>>

PushPlain ==
  /\ app = "jitter"
  /\ queue' = Append(queue, Pkt(Head(input)))
  /\ input' = Tail(input)
  /\ Record(Head(input), now)
  /\ UNCHANGED <<delivered, direct, panic>>

\* One round of push's loop.
PushRound ==
  /\ app # "latency" /\ pc = "push" /\ panic = "none"
  /\ input # << >> /\ ~full
  /\ PushJittered \/ PushDirect \/ PushPlain
  /\ UNCHANGED <<now, pc, arrived, freed>>

-----------------------------------------------------------------------------

\* The loop of either push ends.
PushReturn ==
  /\ pc = "push" /\ panic = "none"
  /\ input = << >> \/ full
  /\ pc' = "idle"
  /\ UNCHANGED <<queue, input, now, panic, arrived, delivered, freed, enqueued, due, direct>>

Init == QInit /\ app \in Apps /\ filled = FALSE

Step == \/ Breathe \/ PullRound \/ PullReturn \/ Arrive \/ Drop
        \/ PushDelay \/ PushPacket
        \/ PushBegin \/ PushRound
        \/ PushReturn

Next == /\ Step
        /\ UNCHANGED app
        /\ filled' = (filled \/ Len(queue') >= capacity)

Spec == Init /\ [][Next]_vars

-----------------------------------------------------------------------------

\* When pull returns, no packet has been in the queue for the latency, or the
\* longest jitter: the delays of the batches and packets ahead of it do not add
\* up.
NotLate == pc = "arrive" /\ panic = "none"
             => \A p \in PacketsIn(queue) : now < enqueued[p] + delay

\* Pull asks for a packet that is not there ("Queue underflow.", "Expected
\* packet.") only when the queue has been full: as long as it is large enough,
\* every delay has a packet behind it.
PanicsOnlyOnceFilled == panic # "none" => filled

\* synthetic_network.rs:291 says of the queue's capacity: "If this value is too
\* small we'll start dropping packets that would overflow the queues".  Packets
\* may be dropped; the process goes on.
NeverPanics == panic = "none"
=============================================================================
