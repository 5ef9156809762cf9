----------------------------- MODULE DelayQueue -----------------------------
(***************************************************************************)
(* rush/src/qos.rs DelayQueue and the pull callback that Latency and       *)
(* Jitter share.  The queue interleaves packets with delays: a delay holds *)
(* back everything behind it until engine::now() reaches its ttx.  A       *)
(* breath of the engine reads the clock, pulls, lets the upstream apps     *)
(* transmit to the input link, and pushes.  The callbacks run to           *)
(* completion on one thread; their loops are stepped round by round, and   *)
(* the push of each app is in the module Delay.                            *)
(***************************************************************************)
EXTENDS Integers, Sequences, FiniteSets, SequencesExt

CONSTANTS capacity,       \* DelayQueue::capacity
          LinkCapacity,   \* packets the input link holds
          MaxPackets,     \* bound: packets that arrive in all
          MaxTime         \* bound: the last breath

ASSUME CapacityAssumption == capacity \in Nat /\ LinkCapacity \in Nat
ASSUME BoundAssumption == MaxPackets \in Nat /\ MaxTime \in Nat

VARIABLES queue,       \* DelayQueue::packets
          input,       \* packets on the input link, named by arrival: 1, 2, ...
          now,         \* engine::now()
          pc,          \* "idle", "pull", "arrive" or "push"
          panic,       \* "none" or the message the process died with
          arrived,     \* history: packets that came in
          delivered,   \* history: <<packet, time>> transmitted, in order
          freed,       \* history: packets the link refused or Drop freed
          enqueued,    \* history: when a packet entered the queue
          due,         \* history: the earliest time it may leave
          direct       \* history: packets forwarded without being queued

qvars == <<queue, input, now, pc, panic, arrived, delivered, freed,
           enqueued, due, direct>>

Packet == 1..MaxPackets
Delay(t) == [kind |-> "Delay", ttx |-> t]
Pkt(p) == [kind |-> "Packet", p |-> p]
IsDelay(e) == e.kind = "Delay"

full == Len(queue) >= capacity
empty == queue = << >>

QInit == /\ queue = << >> /\ input = << >>
         /\ now = 0 /\ pc = "idle" /\ panic = "none"
         /\ arrived = 0 /\ delivered = << >> /\ freed = {}
         /\ enqueued = [p \in Packet |-> 0] /\ due = [p \in Packet |-> 0]
         /\ direct = {}

\* The engine's next breath: the clock is read, the apps' pulls run.
Breathe == /\ pc = "idle" /\ panic = "none"
           /\ now < MaxTime
           /\ \E t \in (now + 1)..MaxTime : now' = t
           /\ pc' = "pull"
           /\ UNCHANGED <<queue, input, panic, arrived, delivered, freed, enqueued, due, direct>>

\* Mutant: a delay is let go one tick before its time.
Expired_Early(e) == IsDelay(e) => now + 1 >= e.ttx
\* need_tx's answer for the entry at the front.
Expired(e) == IsDelay(e) => now >= e.ttx

\* The condition of pull's loop.
MorePull == ~empty /\ Expired(Head(queue))

\* One round of pull's loop: need_tx drops an expired delay, dequeue_packet
\* takes the packet behind it or panics, and the packet is transmitted.
PullRound ==
  /\ pc = "pull" /\ panic = "none"
  /\ MorePull
  /\ LET rest == IF IsDelay(Head(queue)) THEN Tail(queue) ELSE queue IN
     IF rest # << >> /\ ~IsDelay(Head(rest))
     THEN /\ queue' = Tail(rest)
          /\ delivered' = Append(delivered, <<Head(rest).p, now>>)
          /\ UNCHANGED panic
     ELSE /\ queue' = IF rest = << >> THEN rest ELSE Tail(rest)
          /\ panic' = IF rest = << >> THEN "Queue underflow." ELSE "Expected packet."
          /\ UNCHANGED delivered
  /\ UNCHANGED <<input, now, pc, arrived, freed, enqueued, due, direct>>

\* Mutant: pull hands over one packet per breath.
PullReturn_One ==
  /\ pc = "pull" /\ panic = "none"
  /\ pc' = "arrive"
  /\ UNCHANGED <<queue, input, now, panic, arrived, delivered, freed, enqueued, due, direct>>
PullReturn ==
  /\ pc = "pull" /\ panic = "none"
  /\ ~MorePull
  /\ pc' = "arrive"
  /\ UNCHANGED <<queue, input, now, panic, arrived, delivered, freed, enqueued, due, direct>>

\* The app upstream transmits a packet; a full input link frees it.
Arrive ==
  /\ pc = "arrive" /\ panic = "none"
  /\ arrived < MaxPackets
  /\ arrived' = arrived + 1
  /\ IF Len(input) < LinkCapacity
     THEN input' = Append(input, arrived + 1) /\ UNCHANGED freed
     ELSE freed' = freed \cup {arrived + 1} /\ UNCHANGED input
  /\ UNCHANGED <<queue, now, pc, panic, delivered, enqueued, due, direct>>

PacketsIn(q) == {q[i].p : i \in {j \in DOMAIN q : ~IsDelay(q[j])}}

\* Mutant: stopping the app forgets the packets behind the first delay.
Drop_Leak ==
  /\ pc = "idle" /\ panic = "none" /\ ~empty
  /\ queue' = << >>
  /\ freed' = freed \cup (IF IsDelay(Head(queue)) THEN {} ELSE PacketsIn(queue))
  /\ UNCHANGED <<input, now, pc, panic, arrived, delivered, enqueued, due, direct>>
\* The app is reconfigured between two breaths: DelayQueue::drop frees what is
\* queued and its successor starts with an empty queue on the same links.
Drop ==
  /\ pc = "idle" /\ panic = "none" /\ ~empty
  /\ queue' = << >>
  /\ freed' = freed \cup PacketsIn(queue)
  /\ UNCHANGED <<input, now, pc, panic, arrived, delivered, enqueued, due, direct>>

\* The history of a packet that push puts into the queue, to leave at t.
Record(p, t) == /\ enqueued' = [enqueued EXCEPT ![p] = now]
                /\ due' = [due EXCEPT ![p] = t]

-----------------------------------------------------------------------------

\* A packet is never transmitted before its delay is over.
NotEarly == \A i \in DOMAIN delivered : delivered[i][2] >= due[delivered[i][1]]

\* Packets leave in the order they came in, but for one case: a packet that
\* was never queued may overtake one that was.
OnlyDirectOvertakes ==
  \A i, j \in DOMAIN delivered :
    i < j /\ delivered[i][1] > delivered[j][1]
      => delivered[i][1] \in direct /\ delivered[j][1] \notin direct

Sent == {delivered[i][1] : i \in DOMAIN delivered}

\* Every packet that came in is in exactly one place: on the input link, in
\* the queue, transmitted, or freed; also across a reconfiguration.
NothingLost ==
  /\ Range(input) \cup PacketsIn(queue) \cup Sent \cup freed = 1..arrived
  /\ Range(input) \cap PacketsIn(queue) = {} /\ Range(input) \cap Sent = {}
  /\ Range(input) \cap freed = {} /\ PacketsIn(queue) \cap Sent = {}
  /\ PacketsIn(queue) \cap freed = {} /\ Sent \cap freed = {}
  /\ IsInjective(input)
  /\ \A i, j \in DOMAIN queue :
       ~IsDelay(queue[i]) /\ ~IsDelay(queue[j]) /\ queue[i].p = queue[j].p => i = j
  /\ \A i, j \in DOMAIN delivered : delivered[i][1] = delivered[j][1] => i = j
=============================================================================
