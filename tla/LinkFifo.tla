------------------------------ MODULE LinkFifo ------------------------------
(***************************************************************************)
(* What a network link promises the apps on its two ends: a bounded        *)
(* drop-tail FIFO of packets.  A packet has one owner at any time: an app  *)
(* that holds it, the freelist, or the link.  No ring, no cursors.         *)
(***************************************************************************)
EXTENDS Naturals, Sequences

CONSTANTS Packet,    \* packet buffers
          Capacity   \* packets the link can hold

VARIABLES queue,     \* packets on the link, oldest first
          held,      \* packets in scope in some app (an owned Box<Packet>)
          freelist,  \* packets on the freelist
          refused    \* packets this link refused so far

vars == <<queue, held, freelist, refused>>

\* The set of packets that occur in a sequence.
Elements(s) == {s[i] : i \in 1..Len(s)}

Init == queue = <<>> /\ held = {} /\ freelist = Packet /\ refused = 0

Allocate == \E p \in freelist :
               /\ held' = held \cup {p}
               /\ freelist' = freelist \ {p}
               /\ UNCHANGED <<queue, refused>>

Free == \E p \in held :
           /\ held' = held \ {p}
           /\ freelist' = freelist \cup {p}
           /\ UNCHANGED <<queue, refused>>

\* A packet offered to a link with room left goes to the back of the queue ...
Enqueue == \E p \in held :
              /\ Len(queue) < Capacity
              /\ queue' = Append(queue, p)
              /\ held' = held \ {p}
              /\ UNCHANGED <<freelist, refused>>

\* ... and one offered to a link at capacity goes to the freelist, never
\* displacing a packet that is already queued.
DropTail == \E p \in held :
               /\ Len(queue) = Capacity
               /\ held' = held \ {p}
               /\ freelist' = freelist \cup {p}
               /\ refused' = refused + 1
               /\ UNCHANGED queue

Dequeue == /\ queue # <<>>
           /\ held' = held \cup {Head(queue)}
           /\ queue' = Tail(queue)
           /\ UNCHANGED <<freelist, refused>>

\* Dropping the link returns every queued packet to the freelist.
Discard == /\ freelist' = freelist \cup Elements(queue)
           /\ queue' = <<>>
           /\ UNCHANGED <<held, refused>>

\* The next link of the same name starts its count again.
Renew == /\ queue = <<>>
         /\ refused' = 0
         /\ UNCHANGED <<queue, held, freelist>>

Next == Allocate \/ Free \/ Enqueue \/ DropTail \/ Dequeue \/ Discard \/ Renew

Spec == Init /\ [][Next]_vars
=============================================================================
