-------------------------------- MODULE Link --------------------------------
(***************************************************************************)
(* rush/src/link.rs: a unidirectional link as a ring of raw packet         *)
(* pointers with a read and a write cursor, together with the packet       *)
(* ownership its unsafe Box::from_raw/forget pairs rely on.  The engine is *)
(* single-threaded, so every operation is one atomic action.  Callers of   *)
(* receive test empty first, so receive's panic is its guard here.         *)
(***************************************************************************)
EXTENDS Integers, Sequences, FiniteSets

CONSTANTS Packet,       \* packet buffers that exist
          NullPtr,      \* the null pointer in a slot never written
          SIZE,         \* LINK_RING_SIZE
          Lengths,      \* payload lengths an app may give a packet
          MaxTransmit   \* bound: calls of transmit over a link's life

ASSUME PacketAssumption == NullPtr \notin Packet
ASSUME SizeAssumption == SIZE \in Nat /\ SIZE > 1
ASSUME LengthsAssumption == Lengths \subseteq Nat
ASSUME BoundAssumption == MaxTransmit \in Nat

VARIABLES packets, read, write,           \* the ring
          txpackets, txbytes, txdrop,     \* link stats
          rxpackets, rxbytes,
          dropped,                        \* the Link value went out of scope
          length,                         \* p.length of every packet
          held,                           \* packets in scope in some app
          freelist                        \* packets on the freelist

ring == <<packets, read, write>>
stats == <<txpackets, txbytes, txdrop, rxpackets, rxbytes>>
vars == <<ring, stats, dropped, length, held, freelist>>

Slots == 0..(SIZE - 1)

\* The mask x & (SIZE - 1) of a power-of-two SIZE.
Wrap(x) == x % SIZE

empty == read = write

\* Mutant: the full test forgets the sentinel slot that tells full from empty.
full_NoSentinel == FALSE
\* Mutant: the full test gives up one slot too early.
full_Early == Wrap(write + 2) = read
full == Wrap(write + 1) = read

\* Number of packets on the link and its k-th packet, oldest first from 0.
Count == Wrap(write - read)
Slot(k) == packets[Wrap(read + k)]
OnLink == {Slot(k) : k \in 0..(Count - 1)}
Contents == [i \in 1..Count |-> Slot(i - 1)]

Init == /\ packets = [i \in Slots |-> NullPtr]
        /\ read = 0 /\ write = 0
        /\ txpackets = 0 /\ txbytes = 0 /\ txdrop = 0
        /\ rxpackets = 0 /\ rxbytes = 0
        /\ dropped = FALSE
        /\ length = [p \in Packet |-> 0]
        /\ held = {}
        /\ freelist = Packet

\* packet::allocate by an app, which then fills in n bytes of payload.
Allocate(p, n) ==
  /\ p \in freelist
  /\ freelist' = freelist \ {p}
  /\ held' = held \cup {p}
  /\ length' = [length EXCEPT ![p] = n]
  /\ UNCHANGED <<ring, stats, dropped>>

\* packet::free by an app.
Free(p) ==
  /\ p \in held
  /\ held' = held \ {p}
  /\ freelist' = freelist \cup {p}
  /\ length' = [length EXCEPT ![p] = 0]
  /\ UNCHANGED <<ring, stats, dropped>>

\* transmit on a full link: count the drop and free the packet.
TransmitDrop(p) ==
  /\ full
  /\ txdrop' = txdrop + 1
  /\ freelist' = freelist \cup {p}
  /\ length' = [length EXCEPT ![p] = 0]
  /\ UNCHANGED <<ring, txpackets, txbytes>>

\* transmit with room left: store the pointer and forget the Box.
TransmitEnqueue(p) ==
  /\ ~full
  /\ txpackets' = txpackets + 1
  /\ txbytes' = txbytes + length[p]
  /\ packets' = [packets EXCEPT ![write] = p]
  /\ write' = Wrap(write + 1)
  /\ UNCHANGED <<read, txdrop, freelist, length>>

\* Mutant: the sender keeps the Box it enqueued (no mem::forget).
transmit_NoForget(p) ==
  /\ p \in held
  /\ ~dropped
  /\ txpackets + txdrop < MaxTransmit
  /\ held' = IF full THEN held \ {p} ELSE held
  /\ TransmitDrop(p) \/ TransmitEnqueue(p)
  /\ UNCHANGED <<rxpackets, rxbytes, dropped>>
transmit(p) ==
  /\ p \in held
  /\ ~dropped
  /\ txpackets + txdrop < MaxTransmit
  /\ held' = held \ {p}
  /\ TransmitDrop(p) \/ TransmitEnqueue(p)
  /\ UNCHANGED <<rxpackets, rxbytes, dropped>>

receive ==
  /\ ~dropped
  /\ ~empty
  /\ held' = held \cup {packets[read]}
  /\ read' = Wrap(read + 1)
  /\ rxpackets' = rxpackets + 1
  /\ rxbytes' = rxbytes + length[packets[read]]
  /\ UNCHANGED <<packets, write, txpackets, txbytes, txdrop, dropped, length, freelist>>

\* Drop for Link: receive and free until the ring is empty.  The stats die
\* with the link and are left as they were.
Drop ==
  /\ ~dropped
  /\ dropped' = TRUE
  /\ read' = write
  /\ freelist' = freelist \cup OnLink
  /\ length' = [p \in Packet |-> IF p \in OnLink THEN 0 ELSE length[p]]
  /\ UNCHANGED <<packets, write, stats, held>>

\* link::new for the next link of the same name.
new ==
  /\ dropped
  /\ dropped' = FALSE
  /\ packets' = [i \in Slots |-> NullPtr]
  /\ read' = 0 /\ write' = 0
  /\ txpackets' = 0 /\ txbytes' = 0 /\ txdrop' = 0
  /\ rxpackets' = 0 /\ rxbytes' = 0
  /\ UNCHANGED <<length, held, freelist>>

Next == \/ \E p \in Packet, n \in Lengths : Allocate(p, n)
        \/ \E p \in Packet : Free(p) \/ transmit(p)
        \/ receive
        \/ Drop
        \/ new

Spec == Init /\ [][Next]_vars

-----------------------------------------------------------------------------

TypeOK == /\ packets \in [Slots -> Packet \cup {NullPtr}]
          /\ read \in Slots /\ write \in Slots
          /\ txpackets \in Nat /\ txbytes \in Nat /\ txdrop \in Nat
          /\ rxpackets \in Nat /\ rxbytes \in Nat
          /\ dropped \in BOOLEAN
          /\ length \in [Packet -> Nat]
          /\ held \subseteq Packet /\ freelist \subseteq Packet

\* Two positions of the link never hold the same packet, and none is null.
Distinct == /\ \A j, k \in 0..(Count - 1) : Slot(j) = Slot(k) => j = k
            /\ \A k \in 0..(Count - 1) : Slot(k) \in Packet

\* link.rs: "any Packet is either on a single Link, or on no Link at all"
\* (so that Box::from_raw never aliases), and packet.rs: "A packet may never
\* go out of scope. It is either on the freelist, a link, or in active use":
\* every packet has exactly one owner, through wrap-around, drops and reuse
\* of stale slots.
SingleOwner == /\ Distinct
               /\ held \cap freelist = {}
               /\ OnLink \cap held = {}
               /\ OnLink \cap freelist = {}
               /\ Packet = held \cup freelist \cup OnLink

\* The packet counters that reports and the selftests read agree with the
\* cursors: what was sent and not received is what the ring holds, so a link
\* of txpackets - rxpackets = SIZE - 1 packets is full and drops the next one.
CountersMatchCursors == ~dropped => txpackets - rxpackets = Count

\* The inductive invariant: the above, and a dropped link is empty, which is
\* what lets new reset the cursors without losing a packet.
IInv == /\ TypeOK
        /\ SingleOwner
        /\ CountersMatchCursors
        /\ dropped => read = write

\* The ring with its cursors is a drop-tail FIFO of capacity SIZE - 1
\* (LINK_MAX_PACKETS): packets leave in the order they were accepted, none is
\* overwritten, and one is refused, and counted in txdrop, only when SIZE - 1
\* packets are queued.
Fifo == INSTANCE LinkFifo WITH queue <- Contents, Capacity <- SIZE - 1, refused <- txdrop
FifoSpec == Fifo!Spec
=============================================================================
