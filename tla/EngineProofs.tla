---------------------------- MODULE EngineProofs ----------------------------
(***************************************************************************)
(* Proofs about two parts of the engine.  The link, for every ring size,   *)
(* packet set and bound: packet ownership is an invariant, and the ring    *)
(* implements the drop-tail FIFO.  The breathe order, for every app        *)
(* network: compute_breathe_order names each push app that packets reach,  *)
(* once.                                                                   *)
(***************************************************************************)
EXTENDS Link, BreatheTwice, SequenceTheorems, FiniteSetTheorems, TLAPS

(* The link.                                                               *)

\* The mask of a cursor moved by at most one turn.
LEMMA WrapOnce ==
  \A x \in 0..(2 * SIZE - 1) : Wrap(x) = IF x < SIZE THEN x ELSE x - SIZE
  <1>. SUFFICES ASSUME NEW x \in 0..(2 * SIZE - 1)
                PROVE  Wrap(x) = IF x < SIZE THEN x ELSE x - SIZE
    OBVIOUS
  <1>. DEFINE S == SIZE
  <1>1. S \in Nat /\ S > 1
    BY SizeAssumption
  <1>. QED BY <1>1, Z3 DEF Wrap

\* The mask of the difference of two cursors.
LEMMA WrapDifference ==
  \A a, b \in Slots : Wrap(a - b) = IF a >= b THEN a - b ELSE a - b + SIZE
  <1>. SUFFICES ASSUME NEW a \in Slots, NEW b \in Slots
                PROVE  Wrap(a - b) = IF a >= b THEN a - b ELSE a - b + SIZE
    OBVIOUS
  <1>1. SIZE \in Nat /\ SIZE > 1
    BY SizeAssumption
  <1>2. CASE a >= b
    BY <1>1, <1>2, Z3 DEF Wrap, Slots
  <1>3. CASE ~ (a >= b)
    BY <1>1, <1>3, Z3 DEF Wrap, Slots
  <1>. QED BY <1>2, <1>3

\* Facts about the ring used by every step below.
LEMMA CursorFacts ==
  ASSUME TypeOK
  PROVE  /\ Count = IF write >= read THEN write - read ELSE write - read + SIZE
         /\ Count \in 0..(SIZE - 1)
         /\ Wrap(write + 1) \in Slots
         /\ Wrap(read + 1) \in Slots
         /\ full <=> Count = SIZE - 1
         /\ empty <=> Count = 0
         /\ \A k \in 0..(Count - 1) : Wrap(read + k) \in Slots \ {write}
  <1>1. read \in Slots /\ write \in Slots /\ SIZE \in Nat /\ SIZE > 1
    BY SizeAssumption DEF TypeOK
  <1>2. Count = IF write >= read THEN write - read ELSE write - read + SIZE
    BY <1>1, WrapDifference DEF Count
  <1>3. Wrap(write + 1) = IF write + 1 < SIZE THEN write + 1 ELSE write + 1 - SIZE
    BY <1>1, WrapOnce DEF Slots
  <1>4. Wrap(read + 1) = IF read + 1 < SIZE THEN read + 1 ELSE read + 1 - SIZE
    BY <1>1, WrapOnce DEF Slots
  <1>5. Count \in 0..(SIZE - 1)
    BY <1>1, <1>2 DEF Slots
  <1>6. ASSUME NEW k \in 0..(Count - 1)
        PROVE  Wrap(read + k) \in Slots \ {write}
    <2>1. read + k \in 0..(2 * SIZE - 1)
      BY <1>1, <1>5 DEF Slots
    <2>2. Wrap(read + k) = IF read + k < SIZE THEN read + k ELSE read + k - SIZE
      BY <1>1, <1>5, <2>1, WrapOnce DEF Slots
    <2>. QED BY <1>1, <1>2, <1>5, <2>1, <2>2 DEF Slots
  <1>. QED BY <1>1, <1>2, <1>3, <1>4, <1>5, <1>6 DEF Slots, full, empty

\* Storing a packet at the write cursor appends it behind the queued packets.
LEMMA EnqueueContents ==
  ASSUME TypeOK, TypeOK', NEW p \in Packet, TransmitEnqueue(p)
  PROVE  /\ Count' = Count + 1
         /\ \A k \in 0..(Count - 1) : Slot(k)' = Slot(k)
         /\ \A k : k = Count => Slot(k)' = p
  <1>1. read \in Slots /\ write \in Slots /\ SIZE \in Nat /\ SIZE > 1
    BY SizeAssumption DEF TypeOK
  <1>2. /\ read' = read
        /\ write' = IF write + 1 < SIZE THEN write + 1 ELSE write + 1 - SIZE
        /\ packets' = [packets EXCEPT ![write] = p]
    BY <1>1, WrapOnce DEF TransmitEnqueue, Slots
  <1>3. Count < SIZE - 1
    BY <1>1, CursorFacts DEF TransmitEnqueue
  <1>4. Count' = IF write' >= read' THEN write' - read' ELSE write' - read' + SIZE
    BY WrapDifference DEF Count, TypeOK
  <1>5. Count' = Count + 1
    BY <1>1, <1>2, <1>3, <1>4, CursorFacts DEF Slots
  <1>6. ASSUME NEW k \in 0..(Count - 1)
        PROVE  Slot(k)' = Slot(k)
    <2>1. Wrap(read + k) \in Slots \ {write}
      BY CursorFacts
    <2>2. packets'[Wrap(read + k)] = packets[Wrap(read + k)]
      BY <1>2, <2>1 DEF TypeOK
    <2>. QED BY <1>2, <2>2 DEF Slot
  <1>7. ASSUME NEW k, k = Count
        PROVE  Slot(k)' = p
    <2>1. k \in 0..(SIZE - 1)
      BY <1>7, CursorFacts
    <2>2. read + k \in 0..(2 * SIZE - 1)
      BY <1>1, <2>1 DEF Slots
    <2>3. Wrap(read + k) = IF read + k < SIZE THEN read + k ELSE read + k - SIZE
      BY <1>1, <2>1, <2>2, WrapOnce DEF Slots
    <2>4. Wrap(read + k) = write
      BY <1>1, <1>7, <2>1, <2>3, CursorFacts DEF Slots
    <2>5. packets'[write] = p
      BY <1>1, <1>2 DEF TypeOK
    <2>. QED BY <1>2, <2>4, <2>5 DEF Slot
  <1>. QED BY <1>5, <1>6, <1>7

\* Advancing the read cursor takes the oldest packet off the front.
LEMMA ReceiveContents ==
  ASSUME TypeOK, TypeOK', receive
  PROVE  /\ Count > 0
         /\ Count' = Count - 1
         /\ Slot(0) = packets[read]
         /\ \A k \in 0..(Count' - 1) : Slot(k)' = Slot(k + 1)
  <1>1. read \in Slots /\ write \in Slots /\ SIZE \in Nat /\ SIZE > 1
    BY SizeAssumption DEF TypeOK
  <1>2. /\ write' = write
        /\ packets' = packets
        /\ read' = IF read + 1 < SIZE THEN read + 1 ELSE read + 1 - SIZE
    BY <1>1, WrapOnce DEF receive, Slots
  <1>3. Count > 0 /\ Count \in 0..(SIZE - 1)
    BY <1>1, CursorFacts DEF receive
  <1>4. Count' = IF write' >= read' THEN write' - read' ELSE write' - read' + SIZE
    BY WrapDifference DEF Count, TypeOK
  <1>5. Count' = Count - 1
    BY <1>1, <1>2, <1>3, <1>4, CursorFacts DEF Slots
  <1>6. Wrap(read + 0) = read
    BY <1>1, WrapOnce DEF Slots
  <1>7. ASSUME NEW k \in 0..(Count' - 1)
        PROVE  Slot(k)' = Slot(k + 1)
    <2>1. k \in Nat /\ k + 1 < Count
      BY <1>3, <1>5
    <2>2. Wrap(read + (k + 1))
            = IF read + k + 1 < SIZE THEN read + k + 1 ELSE read + k + 1 - SIZE
      BY <1>1, <1>3, <2>1, WrapOnce DEF Slots
    <2>3. Wrap(read' + k)
            = IF read' + k < SIZE THEN read' + k ELSE read' + k - SIZE
      BY <1>1, <1>2, <1>3, <2>1, WrapOnce DEF Slots
    <2>4. Wrap(read' + k) = Wrap(read + (k + 1))
      BY <1>1, <1>2, <1>3, <2>1, <2>2, <2>3 DEF Slots
    <2>. QED BY <1>2, <2>4 DEF Slot
  <1>. QED BY <1>3, <1>5, <1>6, <1>7 DEF Slot

\* A ring and a set of holders that did not change own what they owned.
LEMMA SameRing ==
  ASSUME UNCHANGED ring
  PROVE  Count' = Count /\ OnLink' = OnLink /\ Contents' = Contents
         /\ (Distinct' <=> Distinct)
  BY DEF ring, Count, OnLink, Contents, Slot, Distinct

LEMMA InitIInv == Init => IInv
  <1>. SUFFICES ASSUME Init PROVE IInv
    OBVIOUS
  <1>1. TypeOK
    <2>1. 0 \in Slots
      BY SizeAssumption DEF Slots
    <2>2. [i \in Slots |-> NullPtr] \in [Slots -> Packet \cup {NullPtr}]
      OBVIOUS
    <2>3. [p \in Packet |-> 0] \in [Packet -> Nat]
      OBVIOUS
    <2>. QED BY <2>1, <2>2, <2>3 DEF Init, TypeOK
  <1>2. Count = 0
    BY <1>1, CursorFacts DEF Init
  <1>. QED BY <1>1, <1>2 DEF Init, IInv, SingleOwner, Distinct, OnLink, CountersMatchCursors

\* Every step that leaves the ring alone and moves packets between the apps
\* and the freelist only.
LEMMA OffLinkStep ==
  ASSUME IInv, NEW p \in Packet,
         (\E n \in Lengths : Allocate(p, n)) \/ Free(p)
  PROVE  IInv'
  <1>1. UNCHANGED <<ring, stats, dropped>>
    BY DEF Allocate, Free
  <1>2. Count' = Count /\ OnLink' = OnLink /\ (Distinct' <=> Distinct)
    BY <1>1, SameRing
  <1>3. TypeOK'
    BY <1>1, LengthsAssumption DEF IInv, TypeOK, Allocate, Free, ring, stats
  <1>4. SingleOwner'
    BY <1>2 DEF IInv, TypeOK, SingleOwner, Allocate, Free
  <1>. QED BY <1>1, <1>2, <1>3, <1>4 DEF IInv, CountersMatchCursors, ring, stats

LEMMA TransmitDropStep ==
  ASSUME IInv, NEW p \in Packet, transmit(p), TransmitDrop(p)
  PROVE  IInv'
  <1>1. /\ UNCHANGED <<ring, txpackets, txbytes, rxpackets, rxbytes, dropped>>
        /\ p \in held
        /\ held' = held \ {p}
        /\ freelist' = freelist \cup {p}
    BY DEF transmit, TransmitDrop
  <1>2. Count' = Count /\ OnLink' = OnLink /\ (Distinct' <=> Distinct)
    BY <1>1, SameRing
  <1>3. TypeOK'
    BY <1>1 DEF IInv, TypeOK, TransmitDrop, ring
  <1>4. SingleOwner'
    BY <1>1, <1>2 DEF IInv, TypeOK, SingleOwner
  <1>. QED BY <1>1, <1>2, <1>3, <1>4 DEF IInv, CountersMatchCursors, ring

LEMMA TransmitEnqueueStep ==
  ASSUME IInv, NEW p \in Packet, transmit(p), TransmitEnqueue(p)
  PROVE  IInv'
  <1>1. /\ UNCHANGED <<rxpackets, rxbytes, dropped, freelist>>
        /\ ~dropped
        /\ p \in held
        /\ held' = held \ {p}
        /\ txpackets' = txpackets + 1
    BY DEF transmit, TransmitEnqueue
  <1>2. TypeOK /\ Count \in 0..(SIZE - 1) /\ SIZE \in Nat
    BY CursorFacts, SizeAssumption DEF IInv
  <1>3. TypeOK'
    BY <1>1, CursorFacts DEF IInv, TypeOK, TransmitEnqueue
  <1>4. /\ Count' = Count + 1
        /\ \A k \in 0..(Count - 1) : Slot(k)' = Slot(k)
        /\ \A k : k = Count => Slot(k)' = p
    BY <1>2, <1>3, EnqueueContents
  <1>5. \A k \in 0..(Count' - 1) : k \in 0..(Count - 1) \/ k = Count
    BY <1>2, <1>4
  <1>6. OnLink' = OnLink \cup {p}
    <2>1. \A x \in OnLink' : x \in OnLink \cup {p}
      BY <1>4, <1>5 DEF OnLink
    <2>2. p \in OnLink'
      BY <1>2, <1>4 DEF OnLink
    <2>3. \A x \in OnLink : x \in OnLink'
      BY <1>2, <1>4 DEF OnLink
    <2>. QED BY <2>1, <2>2, <2>3
  <1>7. Distinct'
    <2>1. \A k \in 0..(Count - 1) : Slot(k) # p /\ Slot(k) \in Packet
      BY <1>1 DEF IInv, SingleOwner, Distinct, OnLink
    <2>2. ASSUME NEW j \in 0..(Count' - 1), NEW k \in 0..(Count' - 1),
                 Slot(j)' = Slot(k)'
          PROVE  j = k
      BY <1>4, <1>5, <2>1, <2>2 DEF IInv, SingleOwner, Distinct
    <2>3. \A k \in 0..(Count' - 1) : Slot(k)' \in Packet
      BY <1>4, <1>5, <2>1
    <2>. QED BY <2>2, <2>3 DEF Distinct
  <1>8. SingleOwner'
    BY <1>1, <1>6, <1>7 DEF IInv, TypeOK, SingleOwner
  <1>9. CountersMatchCursors'
    BY <1>1, <1>2, <1>4 DEF IInv, CountersMatchCursors, TypeOK
  <1>. QED BY <1>1, <1>3, <1>8, <1>9 DEF IInv

LEMMA ReceiveStep ==
  ASSUME IInv, receive
  PROVE  IInv'
  <1>1. /\ UNCHANGED <<txpackets, txbytes, txdrop, dropped, freelist, length>>
        /\ ~dropped /\ ~empty
        /\ held' = held \cup {packets[read]}
        /\ rxpackets' = rxpackets + 1
    BY DEF receive
  <1>2. TypeOK /\ Count \in 0..(SIZE - 1) /\ SIZE \in Nat /\ Count # 0
    BY <1>1, CursorFacts, SizeAssumption DEF IInv
  <1>3. Wrap(read + 0) = read /\ 0 \in 0..(Count - 1)
    BY <1>2, SizeAssumption, WrapOnce DEF TypeOK, Slots
  <1>4. packets[read] = Slot(0) /\ packets[read] \in Packet
    BY <1>3 DEF IInv, SingleOwner, Distinct, Slot
  <1>5. TypeOK'
    BY <1>1, <1>2, <1>4, CursorFacts DEF IInv, TypeOK, receive
  <1>6. /\ Count' = Count - 1
        /\ \A k \in 0..(Count' - 1) : Slot(k)' = Slot(k + 1)
    BY <1>2, <1>5, ReceiveContents
  <1>7. \A k \in 0..(Count' - 1) : k + 1 \in 0..(Count - 1) /\ k + 1 # 0 /\ k \in Int
    BY <1>2, <1>6
  <1>8. OnLink' = OnLink \ {packets[read]}
    <2>1. ASSUME NEW x \in OnLink' PROVE x \in OnLink \ {packets[read]}
      <3>1. PICK k \in 0..(Count' - 1) : x = Slot(k)'
        BY DEF OnLink
      <3>2. x = Slot(k + 1) /\ k + 1 \in 0..(Count - 1) /\ k + 1 # 0
        BY <1>6, <1>7, <3>1
      <3>. QED BY <1>3, <1>4, <3>2 DEF OnLink, IInv, SingleOwner, Distinct
    <2>2. ASSUME NEW x \in OnLink, x # packets[read] PROVE x \in OnLink'
      <3>1. PICK k \in 0..(Count - 1) : x = Slot(k)
        BY DEF OnLink
      <3>2. k # 0 /\ k - 1 \in 0..(Count' - 1) /\ (k - 1) + 1 = k
        BY <1>2, <1>4, <1>6, <2>2, <3>1
      <3>3. x = Slot(k - 1)'
        BY <1>6, <3>1, <3>2
      <3>. QED BY <3>2, <3>3 DEF OnLink
    <2>. QED BY <2>1, <2>2
  <1>9. Distinct'
    <2>1. ASSUME NEW j \in 0..(Count' - 1), NEW k \in 0..(Count' - 1),
                 Slot(j)' = Slot(k)'
          PROVE  j = k
      <3>1. Slot(j + 1) = Slot(k + 1)
        BY <1>6, <2>1
      <3>2. j + 1 = k + 1
        BY <1>7, <3>1 DEF IInv, SingleOwner, Distinct
      <3>. QED BY <1>7, <3>2
    <2>2. \A k \in 0..(Count' - 1) : Slot(k)' \in Packet
      BY <1>6, <1>7 DEF IInv, SingleOwner, Distinct
    <2>. QED BY <2>1, <2>2 DEF Distinct
  <1>10. packets[read] \in OnLink
    BY <1>3, <1>4 DEF OnLink
  <1>11. SingleOwner'
    BY <1>1, <1>4, <1>8, <1>9, <1>10 DEF IInv, TypeOK, SingleOwner
  <1>12. CountersMatchCursors'
    BY <1>1, <1>2, <1>6 DEF IInv, CountersMatchCursors, TypeOK
  <1>. QED BY <1>1, <1>5, <1>11, <1>12 DEF IInv

\* A ring whose cursors a step brings together holds nothing.
LEMMA EmptiedRing ==
  ASSUME TypeOK', read' = write'
  PROVE  Count' = 0 /\ OnLink' = {} /\ Distinct'
  <1>1. Count' = 0
    BY SizeAssumption, WrapDifference DEF Count, TypeOK, Slots
  <1>. QED BY <1>1 DEF OnLink, Distinct

LEMMA DropStep ==
  ASSUME IInv, Drop
  PROVE  IInv'
  <1>1. TypeOK'
    BY DEF IInv, TypeOK, Drop, stats, SingleOwner
  <1>2. OnLink' = {} /\ Distinct'
    BY <1>1, EmptiedRing DEF Drop
  <1>3. SingleOwner'
    BY <1>2 DEF IInv, TypeOK, SingleOwner, Drop
  <1>. QED BY <1>1, <1>3 DEF IInv, CountersMatchCursors, Drop

LEMMA NewStep ==
  ASSUME IInv, new
  PROVE  IInv'
  <1>1. TypeOK'
    <2>1. 0 \in Slots
      BY SizeAssumption DEF Slots
    <2>2. [i \in Slots |-> NullPtr] \in [Slots -> Packet \cup {NullPtr}]
      OBVIOUS
    <2>. QED BY <2>1, <2>2 DEF IInv, TypeOK, new
  <1>2. Count' = 0 /\ OnLink' = {} /\ Distinct'
    BY <1>1, EmptiedRing DEF new
  <1>3. OnLink = {}
    <2>1. Count = 0
      BY CursorFacts DEF IInv, empty, new
    <2>. QED BY <2>1 DEF OnLink
  <1>4. SingleOwner'
    BY <1>2, <1>3 DEF IInv, SingleOwner, new
  <1>. QED BY <1>1, <1>2, <1>4 DEF IInv, CountersMatchCursors, new

LEMMA IInvStep ==
  ASSUME IInv, [Next]_vars
  PROVE  IInv'
  <1>1. ASSUME NEW p \in Packet, NEW n \in Lengths, Allocate(p, n) PROVE IInv'
    BY <1>1, OffLinkStep
  <1>2. ASSUME NEW p \in Packet, Free(p) PROVE IInv'
    BY <1>2, OffLinkStep
  <1>3. ASSUME NEW p \in Packet, transmit(p) PROVE IInv'
    BY <1>3, TransmitDropStep, TransmitEnqueueStep DEF transmit
  <1>4. CASE receive
    BY <1>4, ReceiveStep
  <1>5. CASE Drop
    BY <1>5, DropStep
  <1>6. CASE new
    BY <1>6, NewStep
  <1>7. CASE UNCHANGED vars
    <2>1. UNCHANGED ring
      BY <1>7 DEF vars
    <2>. QED BY <1>7, <2>1, SameRing
             DEF vars, ring, stats, IInv, TypeOK, SingleOwner, CountersMatchCursors
  <1>. QED BY <1>1, <1>2, <1>3, <1>4, <1>5, <1>6, <1>7 DEF Next

THEOREM InductiveInvariant == Spec => []IInv
  <1>1. Init => IInv
    BY InitIInv
  <1>2. IInv /\ [Next]_vars => IInv'
    BY IInvStep
  <1>. QED BY <1>1, <1>2, PTL DEF Spec

\* link.rs's safety argument for Box::from_raw, for every ring size and packet
\* set: at all times each packet is owned by one app, by the freelist or by one
\* position of the link, and by nothing else.
THEOREM PacketHasSingleOwner == Spec => []SingleOwner
  <1>1. IInv => SingleOwner
    BY DEF IInv
  <1>. QED BY <1>1, InductiveInvariant, PTL

\* The ring's stats and its cursors never disagree about how much is queued.
THEOREM StatsMatchRing == Spec => [](TypeOK /\ CountersMatchCursors)
  <1>1. IInv => TypeOK /\ CountersMatchCursors
    BY DEF IInv
  <1>. QED BY <1>1, InductiveInvariant, PTL

-----------------------------------------------------------------------------
(* The ring implements the drop-tail FIFO.                                 *)

LEMMA ContentsIsSequence ==
  ASSUME IInv
  PROVE  /\ Contents \in Seq(Packet)
         /\ Len(Contents) = Count
         /\ Count \in Nat
         /\ Fifo!Elements(Contents) = OnLink
  <1>1. Count \in Nat
    BY CursorFacts, SizeAssumption DEF IInv
  <1>2. \A i \in 1..Count : i - 1 \in 0..(Count - 1)
    BY <1>1
  <1>3. Contents \in [1..Count -> Packet]
    BY <1>2 DEF Contents, IInv, SingleOwner, Distinct
  <1>4. Contents \in Seq(Packet) /\ Len(Contents) = Count
    BY <1>1, <1>3
  <1>5. \A k \in 0..(Count - 1) : k + 1 \in 1..Count /\ (k + 1) - 1 = k
    BY <1>1
  <1>6. Fifo!Elements(Contents) = OnLink
    BY <1>1, <1>2, <1>4, <1>5 DEF Fifo!Elements, OnLink, Contents
  <1>. QED BY <1>1, <1>4, <1>6

LEMMA EnqueueRefines ==
  ASSUME IInv, IInv', NEW p \in Packet, transmit(p), TransmitEnqueue(p)
  PROVE  Fifo!Enqueue
  <1>1. /\ Count' = Count + 1
        /\ \A k \in 0..(Count - 1) : Slot(k)' = Slot(k)
        /\ \A k : k = Count => Slot(k)' = p
    BY EnqueueContents DEF IInv
  <1>2. Contents \in Seq(Packet) /\ Len(Contents) = Count /\ Count \in Nat
    BY ContentsIsSequence
  <1>3. Count < SIZE - 1
    BY CursorFacts, SizeAssumption DEF IInv, TransmitEnqueue
  <1>4. Contents' = Append(Contents, p)
    <2>1. ASSUME NEW i \in 1..(Count + 1)
          PROVE  Slot(i - 1)' = (IF i = Count + 1 THEN p ELSE Contents[i])
                 /\ Slot(i - 1)' \in Packet
      BY <1>1, <1>2 DEF Contents
    <2>2. Contents' \in [1..(Count + 1) -> Packet]
      BY <1>1, <2>1 DEF Contents
    <2>3. Contents' \in Seq(Packet) /\ Len(Contents') = Count + 1
      BY <1>2, <2>2
    <2>4. /\ Append(Contents, p) \in Seq(Packet)
          /\ Len(Append(Contents, p)) = Count + 1
          /\ \A i \in 1..Count : Append(Contents, p)[i] = Contents[i]
          /\ Append(Contents, p)[Count + 1] = p
      BY <1>2, AppendProperties
    <2>5. \A i \in 1..(Count + 1) : Contents'[i] = Append(Contents, p)[i]
      BY <1>1, <1>2, <2>1, <2>4 DEF Contents
    <2>. QED BY <2>3, <2>4, <2>5, SeqEqual
  <1>. QED BY <1>2, <1>3, <1>4 DEF Fifo!Enqueue, transmit, TransmitEnqueue

LEMMA DequeueRefines ==
  ASSUME IInv, IInv', receive
  PROVE  Fifo!Dequeue
  <1>1. /\ Count > 0
        /\ Count' = Count - 1
        /\ Slot(0) = packets[read]
        /\ \A k \in 0..(Count' - 1) : Slot(k)' = Slot(k + 1)
    BY ReceiveContents DEF IInv
  <1>2. Contents \in Seq(Packet) /\ Len(Contents) = Count /\ Count \in Nat
    BY ContentsIsSequence
  <1>3. Contents # << >> /\ Head(Contents) = packets[read]
    BY <1>1, <1>2 DEF Contents
  <1>4. Contents' = Tail(Contents)
    <2>1. ASSUME NEW i \in 1..(Count - 1)
          PROVE  Slot(i - 1)' = Contents[i + 1] /\ Contents[i + 1] \in Packet
      <3>1. i - 1 \in 0..(Count' - 1) /\ (i - 1) + 1 = i
        BY <1>1, <1>2
      <3>2. i + 1 \in 1..Count /\ (i + 1) - 1 = i
        BY <1>2
      <3>. QED BY <1>1, <1>2, <3>1, <3>2 DEF Contents
    <2>2. Contents' \in [1..(Count - 1) -> Packet]
      BY <1>1, <2>1 DEF Contents
    <2>3. Contents' \in Seq(Packet) /\ Len(Contents') = Count - 1
      BY <1>1, <1>2, <2>2
    <2>4. /\ Tail(Contents) \in Seq(Packet)
          /\ Len(Tail(Contents)) = Count - 1
          /\ \A i \in 1..(Count - 1) : Tail(Contents)[i] = Contents[i + 1]
      BY <1>2, <1>3, HeadTailProperties
    <2>5. \A i \in 1..(Count - 1) : Contents'[i] = Tail(Contents)[i]
      BY <1>1, <2>1, <2>4 DEF Contents
    <2>. QED BY <2>3, <2>4, <2>5, SeqEqual
  <1>. QED BY <1>3, <1>4 DEF Fifo!Dequeue, receive

LEMMA DiscardRefines ==
  ASSUME IInv, IInv', Drop
  PROVE  Fifo!Discard
  <1>1. Count' = 0
    BY EmptiedRing DEF IInv, Drop
  <1>2. Contents' = << >>
    BY <1>1 DEF Contents
  <1>3. Fifo!Elements(Contents) = OnLink
    BY ContentsIsSequence
  <1>. QED BY <1>2, <1>3 DEF Fifo!Discard, Drop, stats

\* The code's ring of SIZE slots with two cursors, for every SIZE > 1, behaves
\* as a FIFO of capacity SIZE - 1 that refuses packets only when it is full.
THEOREM RingImplementsFifo == Spec => FifoSpec
  <1>1. Init => Fifo!Init
    <2>. SUFFICES ASSUME Init PROVE Fifo!Init
      OBVIOUS
    <2>1. Count = 0
      BY InitIInv, CursorFacts DEF IInv, Init, empty
    <2>2. Contents = << >>
      BY <2>1 DEF Contents
    <2>. QED BY <2>2 DEF Fifo!Init, Init
  <1>2. IInv /\ IInv' /\ [Next]_vars => [Fifo!Next]_(Fifo!vars)
    <2>. SUFFICES ASSUME IInv, IInv', [Next]_vars
                  PROVE  Fifo!Next \/ UNCHANGED Fifo!vars
      OBVIOUS
    <2>1. ASSUME NEW p \in Packet, NEW n \in Lengths, Allocate(p, n)
          PROVE  Fifo!Allocate
      <3>1. Contents' = Contents
        BY <2>1, SameRing DEF Allocate
      <3>. QED BY <2>1, <3>1 DEF Fifo!Allocate, Allocate, stats
    <2>2. ASSUME NEW p \in Packet, Free(p)
          PROVE  Fifo!Free
      <3>1. Contents' = Contents
        BY <2>2, SameRing DEF Free
      <3>. QED BY <2>2, <3>1 DEF Fifo!Free, Free, stats
    <2>3. ASSUME NEW p \in Packet, transmit(p), TransmitDrop(p)
          PROVE  Fifo!DropTail
      <3>1. Contents' = Contents
        BY <2>3, SameRing DEF TransmitDrop
      <3>2. Len(Contents) = SIZE - 1
        BY <2>3, CursorFacts, ContentsIsSequence DEF IInv, TransmitDrop
      <3>. QED BY <2>3, <3>1, <3>2 DEF Fifo!DropTail, transmit, TransmitDrop
    <2>4. ASSUME NEW p \in Packet, transmit(p), TransmitEnqueue(p)
          PROVE  Fifo!Enqueue
      BY <2>4, EnqueueRefines
    <2>5. ASSUME receive PROVE Fifo!Dequeue
      BY <2>5, DequeueRefines
    <2>6. ASSUME Drop PROVE Fifo!Discard
      BY <2>6, DiscardRefines
    <2>7. ASSUME new PROVE Fifo!Renew
      <3>1. Count' = 0
        BY <2>7, EmptiedRing DEF IInv, new
      <3>2. Count = 0
        BY <2>7, CursorFacts DEF IInv, new, empty
      <3>3. Contents' = << >> /\ Contents = << >>
        BY <3>1, <3>2 DEF Contents
      <3>. QED BY <2>7, <3>3 DEF Fifo!Renew, new
    <2>8. ASSUME UNCHANGED vars PROVE UNCHANGED Fifo!vars
      BY <2>8, SameRing DEF vars, stats, Fifo!vars
    <2>. QED BY <2>1, <2>2, <2>3, <2>4, <2>5, <2>6, <2>7, <2>8
             DEF Next, Fifo!Next, transmit
  <1>. QED BY <1>1, <1>2, InductiveInvariant, PTL DEF Spec, FifoSpec, Fifo!Spec

-----------------------------------------------------------------------------
(* The breathe order: the invariant.                                       *)

\* The push apps that c's apps that pull and those in ex feed and that are not in ex.
Unserved(c, ex) ==
  {s \in c.push : s \notin Range(ex) /\ \E a \in c.pull \cup Range(ex) : <<a, s>> \in c.links}
U == Unserved(config, exhale)

\* The successors that the loop over v has yet to visit.
Rest(v, succ) == UNION {succ[v[i]] : i \in 2..Len(v)}
Pending == todo \cup Rest(names, successors)

\* The apps of W wait for each other, and in the end for one that is not in W: in
\* every set of them is one with an input that is unserved and not in the set.  The
\* input's successors are yet to be looked at, as it does not pull.
Waits(c, un, W) ==
  \A T \in SUBSET W : T # {} =>
    \E s \in T, d \in un \ T : <<d, s>> \in c.links /\ d \notin c.pull

\* The apps put off in this round wait for apps selected.
PutOff(c, sel, deps, P) ==
  \A T \in SUBSET P : T # {} =>
    \E s \in T, d \in (sel \cap (P \cup deps)) \ T : <<d, s>> \in c.links /\ d \notin c.pull

ListsInv ==
  /\ config \in Configs /\ pc \in {"collect", "select", "done"}
  /\ inhale \in Seq(App) /\ Range(inhale) = config.pull /\ IsInjective(inhale)
  /\ exhale \in Seq(App) /\ IsInjective(exhale)
  /\ dependents \in Seq(App) /\ IsInjective(dependents) /\ Range(dependents) \subseteq U
  /\ names \in Seq(App)

FedInv ==
  \A j \in DOMAIN exhale :
    /\ exhale[j] \in config.push
    /\ \E a \in config.pull \cup {exhale[i] : i \in 1..(j - 1)} : <<a, exhale[j]>> \in config.links

SuccessorsInv ==
  /\ successors \in [App -> SUBSET App] /\ \A a \in App : successors[a] \subseteq Successors[a]
  /\ todo \subseteq FirstTodo(names, successors)
  /\ \A a \in App : a \notin Processed => successors[a] = Successors[a]
  /\ pc = "select" => \A a \in Processed : successors[a] = {}
  /\ pc = "collect" => Range(names) \subseteq Processed

WaitsInv ==
  /\ pc = "collect" => Waits(config, U, U \ (Range(dependents) \cup Pending))
  /\ pc = "select" =>
       /\ Waits(config, U, U \ Range(dependents))
       /\ \E P \in SUBSET (U \ Range(dependents)) :
            /\ Range(names) \subseteq P \cup Range(dependents)
            /\ PutOff(config, selected, Range(dependents), P)
  /\ pc = "done" => U = {}

OrderInv == ListsInv /\ FedInv /\ SuccessorsInv /\ WaitsInv

\* Where a computation starts.
Start == /\ config \in Configs /\ pc = "collect" /\ inhale = Sorted(config.pull) /\ exhale = << >>
         /\ successors = Successors /\ dependents = << >> /\ names = inhale
         /\ todo = FirstTodo(inhale, successors)

-----------------------------------------------------------------------------
(* What is kept of a list.                                                 *)

\* The i-th of the numbers in I.
LEMMA NthIs ==
  ASSUME NEW n \in Nat, NEW I \in SUBSET (1..n)
  PROVE  /\ Cardinality(I) \in Nat
         /\ \A i \in 1..Cardinality(I) : Nth(I, i) \in I
         /\ \A i, j \in 1..Cardinality(I) : Nth(I, i) = Nth(I, j) => i = j
         /\ \A j \in I : \E i \in 1..Cardinality(I) : Nth(I, i) = j
<1> DEFINE m == Cardinality(I)
           L(j) == {k \in I : k <= j}
           f == [j \in I |-> Cardinality(L(j))]
<1>1. IsFiniteSet(I) /\ m \in Nat
  <2>1. IsFiniteSet(1..n)
    BY FS_Interval
  <2>2. IsFiniteSet(I)
    BY <2>1, FS_Subset
  <2> QED BY <2>2, FS_CardinalityType
<1>2. \A j \in I : j \in L(j) /\ L(j) \in SUBSET I
  BY SMT
<1>3. \A j \in I : IsFiniteSet(L(j)) /\ Cardinality(L(j)) \in Nat /\ Cardinality(L(j)) <= m
  BY <1>1, <1>2, FS_Subset, FS_CardinalityType
<1>4. \A j \in I : Cardinality(L(j)) \in 1..m
  <2> TAKE j \in I
  <2>1. Cardinality(L(j)) # 0
    BY <1>2, <1>3, FS_EmptySet
  <2> QED BY <1>1, <1>3, <2>1
<1>5. ASSUME NEW j \in I, NEW k \in I, j < k PROVE Cardinality(L(j)) # Cardinality(L(k))
  <2>0. I \subseteq Int
    OBVIOUS
  <2>1. L(j) \in SUBSET L(k)
    <3>1. j \in Int /\ k \in Int
      OBVIOUS
    <3>2. ASSUME NEW i \in I, i <= j PROVE i <= k
      BY <1>5, <2>0, <3>1, <3>2
    <3> QED BY <3>2
  <2>3. k \in L(k) /\ k \notin L(j)
    BY <1>5, <2>0
  <2>2. Cardinality(L(k)) = Cardinality(L(j)) => L(k) = L(j)
    BY <1>3, <2>1, FS_Subset
  <2> QED BY <2>3, <2>2
<1>6. \A j, k \in I : Cardinality(L(j)) = Cardinality(L(k)) => j = k
  <2> SUFFICES ASSUME NEW j \in I, NEW k \in I, Cardinality(L(j)) = Cardinality(L(k)) PROVE j = k
    OBVIOUS
  <2>1. ~(j < k) /\ ~(k < j)
    BY <1>5
  <2>2. j \in Int /\ k \in Int
    OBVIOUS
  <2> HIDE DEF L
  <2> QED BY <2>1, <2>2
<1>7. f \in Injection(I, 1..m)
  <2> HIDE DEF L, m
  <2>1. f \in [I -> 1..m]
    BY <1>4
  <2>2. \A j, k \in I : f[j] = f[k] => j = k
    BY <1>6
  <2> HIDE DEF f
  <2> QED BY <2>1, <2>2 DEF Injection, IsInjective
<1>8. f \in Surjection(I, 1..m)
  <2>1. IsFiniteSet(1..m) /\ Cardinality(1..m) = m
    BY <1>1, FS_Interval
  <2> HIDE DEF f
  <2> QED BY <1>7, <2>1, FS_Injection
<1>9. \A i \in 1..m : \E j \in I : Cardinality(L(j)) = i
  <2>1. \A i \in 1..m : \E j \in I : f[j] = i
    <3> HIDE DEF f
    <3> QED BY <1>8 DEF Surjection
  <2> QED BY <2>1
<1>10. \A i \in 1..m : Nth(I, i) \in I /\ Cardinality(L(Nth(I, i))) = i
  BY <1>9 DEF Nth
<1>11. \A j \in I : \E i \in 1..m : Nth(I, i) = j
  <2> HIDE DEF L, m
  <2> QED BY <1>4, <1>6, <1>10
<1>12. \A i, j \in 1..m : Nth(I, i) = Nth(I, j) => i = j
  <2> HIDE DEF L, m
  <2> QED BY <1>10
<1> QED BY <1>1, <1>10, <1>11, <1>12

LEMMA KeptIs ==
  ASSUME NEW A, NEW s \in Seq(A), NEW S
  PROVE  /\ Kept(s, S) \in Seq(A)
         /\ Range(Kept(s, S)) = Range(s) \cap S
         /\ IsInjective(s) => IsInjective(Kept(s, S))
<1> DEFINE I == {j \in DOMAIN s : s[j] \in S}
           m == Cardinality(I)
           k == [i \in 1..m |-> s[Nth(I, i)]]
<1>1. Kept(s, S) = k
  BY DEF Kept
<1>2. Len(s) \in Nat /\ DOMAIN s = 1..Len(s) /\ I \in SUBSET (1..Len(s)) /\ \A j \in DOMAIN s : s[j] \in A
  OBVIOUS
<1>3. \A j \in DOMAIN s : j \in I <=> s[j] \in S
  OBVIOUS
<1> HIDE DEF I
<1>4. /\ m \in Nat /\ \A i \in 1..m : Nth(I, i) \in I
      /\ \A i, j \in 1..m : Nth(I, i) = Nth(I, j) => i = j
      /\ \A j \in I : \E i \in 1..m : Nth(I, i) = j
  BY <1>2, NthIs
<1> HIDE DEF m
<1>5. \A i \in 1..m : Nth(I, i) \in DOMAIN s /\ s[Nth(I, i)] \in S /\ s[Nth(I, i)] \in A
  BY <1>2, <1>3, <1>4
<1>6. k \in Seq(A)
  BY <1>4, <1>5
<1>7. Range(k) = Range(s) \cap S
  <2>1. \A x \in Range(k) : x \in Range(s) \cap S
    BY <1>5 DEF Range
  <2>2. ASSUME NEW x \in Range(s) \cap S PROVE x \in Range(k)
    <3>1. PICK j \in DOMAIN s : s[j] = x
      BY <2>2 DEF Range
    <3>2. PICK i \in 1..m : Nth(I, i) = j
      BY <1>3, <1>4, <2>2, <3>1
    <3>3. k[i] = x
      BY <3>1, <3>2
    <3> QED BY <3>3 DEF Range
  <2> QED BY <2>1, <2>2
<1>8. IsInjective(s) => IsInjective(k)
  <2> SUFFICES ASSUME IsInjective(s), NEW i \in 1..m, NEW j \in 1..m, s[Nth(I, i)] = s[Nth(I, j)] PROVE i = j
    BY DEF IsInjective
  <2>1. Nth(I, i) = Nth(I, j)
    BY <1>5 DEF IsInjective
  <2> QED BY <1>4, <2>1
<1> QED BY <1>1, <1>6, <1>7, <1>8

-----------------------------------------------------------------------------
(* What apps put off wait for.                                             *)

LEMMA FewerWait ==
  ASSUME NEW c, NEW un, NEW W, NEW V \in SUBSET W, Waits(c, un, W)
  PROVE  Waits(c, un, V)
<1>1. \A T \in SUBSET V : T \in SUBSET W
  OBVIOUS
<1> QED BY <1>1 DEF Waits

\* One more app is put off: s waits for h.
LEMMA OneMorePutOff ==
  ASSUME NEW c, NEW sel, NEW D, NEW P, NEW s \in D, NEW h \in P \cup D, PutOff(c, sel, D, P),
         s \notin sel, h # s, <<h, s>> \in c.links, h \notin c.pull
  PROVE  PutOff(c, sel \cup {h}, D \ {s}, P \cup {s})
<1> SUFFICES ASSUME NEW T \in SUBSET (P \cup {s}), T # {}
             PROVE  \E x \in T, d \in ((sel \cup {h}) \cap ((P \cup {s}) \cup (D \ {s}))) \ T :
                      <<d, x>> \in c.links /\ d \notin c.pull
  BY DEF PutOff
<1>1. CASE T = {s}
  <2>1. s \in T /\ h \in ((sel \cup {h}) \cap ((P \cup {s}) \cup (D \ {s}))) \ T
    BY <1>1
  <2> QED BY <2>1
<1>2. CASE T # {s}
  <2> DEFINE T1 == T \ {s}
  <2>1. T1 \in SUBSET P /\ T1 # {}
    BY <1>2
  <2>2. PICK x \in T1, d \in (sel \cap (P \cup D)) \ T1 : <<d, x>> \in c.links /\ d \notin c.pull
    <3> HIDE DEF T1
    <3> QED BY <2>1 DEF PutOff
  <2>3. x \in T /\ d \in ((sel \cup {h}) \cap ((P \cup {s}) \cup (D \ {s}))) \ T
    BY <2>2
  <2> QED BY <2>2, <2>3
<1> QED BY <1>1, <1>2

\* The apps put off in this round wait like those that waited before it.
LEMMA PutOffWait ==
  ASSUME NEW c, NEW un, NEW sel, NEW D, NEW P, NEW W, PutOff(c, sel, D, P), Waits(c, un, W),
         P \subseteq un, D \subseteq un, un \ D \subseteq W \cup P, P \cap D = {}
  PROVE  Waits(c, un, un \ D)
<1> SUFFICES ASSUME NEW T \in SUBSET (un \ D), T # {}
             PROVE  \E s \in T, d \in un \ T : <<d, s>> \in c.links /\ d \notin c.pull
  BY DEF Waits
<1>1. CASE T \cap P = {}
  <2>1. T \in SUBSET W
    BY <1>1
  <2> QED BY <2>1 DEF Waits
<1>2. CASE T \cap P # {}
  <2> DEFINE T1 == T \cap P
  <2>1. T1 \in SUBSET P /\ T1 # {}
    BY <1>2
  <2>2. PICK s \in T1, d \in (sel \cap (P \cup D)) \ T1 : <<d, s>> \in c.links /\ d \notin c.pull
    <3> HIDE DEF T1
    <3> QED BY <2>1 DEF PutOff
  <2>3. s \in T /\ d \in un \ T
    BY <2>2
  <2> QED BY <2>2, <2>3
<1> QED BY <1>1, <1>2

\* The apps of D go to exhale: what is unserved then and not a successor of theirs
\* waited before.
LEMMA ExhaledWait ==
  ASSUME NEW c, NEW un, NEW D \in SUBSET un, NEW un1, NEW Succ, Waits(c, un, un \ D),
         \A s \in un1 \ Succ : s \in un \ D,
         \A s \in un \ D : s \in un1,
         \A d \in D, s \in un1 : <<d, s>> \in c.links /\ d \notin c.pull => s \in Succ
  PROVE  Waits(c, un1, un1 \ Succ)
<1> SUFFICES ASSUME NEW T \in SUBSET (un1 \ Succ), T # {}
             PROVE  \E s \in T, d \in un1 \ T : <<d, s>> \in c.links /\ d \notin c.pull
  BY DEF Waits
<1>1. T \in SUBSET (un \ D)
  OBVIOUS
<1>2. PICK s \in T, d \in un \ T : <<d, s>> \in c.links /\ d \notin c.pull
  BY <1>1 DEF Waits
<1>3. d \notin D
  BY <1>2
<1>4. d \in un1 \ T
  BY <1>2, <1>3
<1> QED BY <1>2, <1>4

\* Who all wait and for nobody else are none.
LEMMA NobodyWaits ==
  ASSUME NEW c, NEW un, Waits(c, un, un)
  PROVE  un = {}
<1>1. un \in SUBSET un
  OBVIOUS
<1> QED BY <1>1 DEF Waits

-----------------------------------------------------------------------------
(* The loops over a list.                                                  *)

LEMMA ListElements ==
  ASSUME NEW A, NEW s \in Seq(A)
  PROVE  /\ Range(s) \subseteq A
         /\ s = << >> <=> Range(s) = {}
         /\ s # << >> => Head(s) \in Range(s) /\ Tail(s) \in Seq(A) /\ Range(Tail(s)) \subseteq Range(s)
<1>1. Range(s) \subseteq A
  BY DEF Range
<1>2. ASSUME s # << >> PROVE s[1] \in Range(s)
  <2>1. 1 \in DOMAIN s
    BY <1>2
  <2> QED BY <2>1 DEF Range
<1>3. ASSUME s = << >> PROVE Range(s) = {}
  BY <1>3 DEF Range
<1>4. ASSUME s # << >> PROVE Head(s) \in Range(s) /\ Tail(s) \in Seq(A)
  BY <1>2, <1>4
<1>5. ASSUME s # << >>, NEW x \in Range(Tail(s)) PROVE x \in Range(s)
  <2>1. PICK i \in DOMAIN Tail(s) : x = Tail(s)[i]
    BY <1>5 DEF Range
  <2>2. i + 1 \in DOMAIN s /\ x = s[i + 1]
    BY <1>5, <2>1
  <2> QED BY <2>2 DEF Range
<1> QED BY <1>1, <1>2, <1>3, <1>4, <1>5

\* What a loop over v visits in all.
LEMMA LoopVisits ==
  ASSUME NEW A, NEW v \in Seq(A), NEW succ
  PROVE  FirstTodo(v, succ) \cup Rest(v, succ) = UNION {succ[a] : a \in Range(v)}
<1>1. CASE v = << >>
  BY <1>1 DEF FirstTodo, Rest, Range
<1>2. CASE v # << >>
  <2>1. DOMAIN v = 1..Len(v) /\ Len(v) \in Nat /\ Len(v) >= 1 /\ FirstTodo(v, succ) = succ[v[1]]
    BY <1>2 DEF FirstTodo
  <2>2. ASSUME NEW x \in FirstTodo(v, succ) \cup Rest(v, succ)
        PROVE  \E i \in DOMAIN v : x \in succ[v[i]]
    <3>1. CASE x \in FirstTodo(v, succ)
      <4>1. 1 \in DOMAIN v
        BY <2>1
      <4> QED BY <2>1, <3>1, <4>1
    <3>2. CASE x \in Rest(v, succ)
      <4>1. PICK i \in 2..Len(v) : x \in succ[v[i]]
        BY <3>2 DEF Rest
      <4>2. i \in DOMAIN v
        BY <2>1
      <4> QED BY <4>1, <4>2
    <3> QED BY <2>2, <3>1, <3>2
  <2>3. ASSUME NEW i \in DOMAIN v, NEW x \in succ[v[i]]
        PROVE  x \in FirstTodo(v, succ) \cup Rest(v, succ)
    <3>1. i = 1 \/ i \in 2..Len(v)
      BY <2>1
    <3> QED BY <2>1, <3>1 DEF Rest
  <2>4. Range(v) = {v[i] : i \in DOMAIN v}
    BY DEF Range
  <2>5. \A x \in FirstTodo(v, succ) \cup Rest(v, succ) : x \in UNION {succ[a] : a \in Range(v)}
    BY <2>2, <2>4, Zenon
  <2>6. \A x \in UNION {succ[a] : a \in Range(v)} : x \in FirstTodo(v, succ) \cup Rest(v, succ)
    BY <2>3, <2>4, Zenon
  <2> QED BY <2>5, <2>6
<1> QED BY <1>1, <1>2

\* What is left of a loop over v, past its first element.
LEMMA LoopMovesOn ==
  ASSUME NEW A, NEW v \in Seq(A), v # << >>, NEW succ
  PROVE  FirstTodo(Tail(v), succ) \cup Rest(Tail(v), succ) = Rest(v, succ)
<1>1. /\ DOMAIN Tail(v) = 1..(Len(v) - 1) /\ Len(v) \in Nat /\ Len(v) >= 1
      /\ \A i \in 1..(Len(v) - 1) : Tail(v)[i] = v[i + 1]
  OBVIOUS
<1>2. Tail(v) \in Seq(A) /\ Range(Tail(v)) = {Tail(v)[i] : i \in 1..(Len(v) - 1)}
  <2>1. Tail(v) \in Seq(A)
    BY ListElements
  <2>2. Range(Tail(v)) = {Tail(v)[i] : i \in 1..(Len(v) - 1)}
    BY <1>1, Zenon DEF Range
  <2> QED BY <2>1, <2>2
<1>3. FirstTodo(Tail(v), succ) \cup Rest(Tail(v), succ) = UNION {succ[a] : a \in Range(Tail(v))}
  BY <1>2, LoopVisits
<1>4. ASSUME NEW x, \E a \in Range(Tail(v)) : x \in succ[a] PROVE \E i \in 2..Len(v) : x \in succ[v[i]]
  <2>1. PICK i \in 1..(Len(v) - 1) : x \in succ[Tail(v)[i]]
    BY <1>2, <1>4
  <2>2. i + 1 \in 2..Len(v) /\ x \in succ[v[i + 1]]
    BY <1>1, <2>1
  <2> QED BY <2>2
<1>5. ASSUME NEW x, NEW i \in 2..Len(v), x \in succ[v[i]] PROVE \E a \in Range(Tail(v)) : x \in succ[a]
  <2>1. i - 1 \in 1..(Len(v) - 1) /\ (i - 1) + 1 = i
    BY <1>1
  <2>2. Tail(v)[i - 1] = v[i]
    BY <1>1, <2>1
  <2>3. Tail(v)[i - 1] \in Range(Tail(v))
    BY <1>2, <2>1
  <2> QED BY <1>5, <2>2, <2>3
<1> QED BY <1>3, <1>4, <1>5 DEF Rest

\* A list that an element not in it is appended to.
LEMMA AppendNew ==
  ASSUME NEW A, NEW s \in Seq(A), NEW x \in A, x \notin Range(s), IsInjective(s)
  PROVE  /\ Append(s, x) \in Seq(A) /\ IsInjective(Append(s, x))
         /\ Range(Append(s, x)) = Range(s) \cup {x}
<1> DEFINE t == Append(s, x)
<1>1. /\ t \in Seq(A) /\ DOMAIN t = 1..(Len(s) + 1) /\ Len(s) \in Nat /\ DOMAIN s = 1..Len(s)
      /\ t[Len(s) + 1] = x /\ \A i \in 1..Len(s) : t[i] = s[i]
  OBVIOUS
<1> HIDE DEF t
<1>2. \A i \in 1..Len(s) : t[i] # x
  BY <1>1 DEF Range
<1>3. ASSUME NEW i \in DOMAIN t, NEW j \in DOMAIN t, t[i] = t[j] PROVE i = j
  BY <1>1, <1>2, <1>3 DEF IsInjective
<1>4. Range(t) = Range(s) \cup {x}
  <2>1. ASSUME NEW y \in Range(t) PROVE y \in Range(s) \cup {x}
    <3>1. PICK i \in DOMAIN t : t[i] = y
      BY DEF Range
    <3> QED BY <1>1, <3>1 DEF Range
  <2>2. x \in Range(t)
    BY <1>1 DEF Range
  <2>3. ASSUME NEW y \in Range(s) PROVE y \in Range(t)
    <3>1. PICK i \in DOMAIN s : s[i] = y
      BY DEF Range
    <3>2. i \in DOMAIN t /\ t[i] = y
      BY <1>1, <3>1
    <3> QED BY <3>2 DEF Range
  <2> QED BY <2>1, <2>2, <2>3
<1> QED BY <1>1, <1>3, <1>4 DEF IsInjective, t

\* Two lists without a common element, put together.
LEMMA ConcatNew ==
  ASSUME NEW A, NEW s \in Seq(A), NEW t \in Seq(A), Range(s) \cap Range(t) = {}, IsInjective(s), IsInjective(t)
  PROVE  /\ s \o t \in Seq(A) /\ IsInjective(s \o t)
         /\ Range(s \o t) = Range(s) \cup Range(t)
<1> DEFINE r == s \o t
<1>1. /\ r \in Seq(A) /\ DOMAIN r = 1..(Len(s) + Len(t)) /\ Len(s) \in Nat /\ DOMAIN s = 1..Len(s)
      /\ Len(t) \in Nat /\ DOMAIN t = 1..Len(t)
      /\ \A i \in 1..(Len(s) + Len(t)) : r[i] = IF i <= Len(s) THEN s[i] ELSE t[i - Len(s)]
  OBVIOUS
<1> HIDE DEF r
<1>2. \A i \in DOMAIN r : \/ i \in DOMAIN s /\ r[i] = s[i]
                          \/ i - Len(s) \in DOMAIN t /\ r[i] = t[i - Len(s)]
  BY <1>1
<1>3. \A i \in DOMAIN s : i \in DOMAIN r /\ r[i] = s[i]
  BY <1>1
<1>4. \A i \in DOMAIN t : i + Len(s) \in DOMAIN r /\ r[i + Len(s)] = t[i]
  BY <1>1
<1>5. \A i \in DOMAIN s, j \in DOMAIN t : s[i] # t[j]
  BY DEF Range
<1>6. ASSUME NEW i \in DOMAIN r, NEW j \in DOMAIN r, r[i] = r[j] PROVE i = j
  <2>1. CASE i \in DOMAIN s /\ r[i] = s[i]
    BY <1>2, <1>5, <1>6, <2>1 DEF IsInjective
  <2>2. CASE i - Len(s) \in DOMAIN t /\ r[i] = t[i - Len(s)]
    <3>1. j - Len(s) \in DOMAIN t /\ r[j] = t[j - Len(s)]
      BY <1>2, <1>5, <1>6, <2>2
    <3>2. i - Len(s) = j - Len(s)
      BY <1>6, <2>2, <3>1 DEF IsInjective
    <3> QED BY <1>1, <3>2
  <2> QED BY <1>2, <2>1, <2>2
<1>7. Range(r) = Range(s) \cup Range(t)
  <2>1. \A x \in Range(r) : x \in Range(s) \cup Range(t)
    BY <1>2 DEF Range
  <2>2. \A x \in Range(s) : x \in Range(r)
    BY <1>3 DEF Range
  <2>3. \A x \in Range(t) : x \in Range(r)
    BY <1>4 DEF Range
  <2> QED BY <2>1, <2>2, <2>3
<1> QED BY <1>1, <1>6, <1>7 DEF IsInjective, r

-----------------------------------------------------------------------------
(* The invariant holds.                                                    *)

LEMMA ConfigFacts ==
  ASSUME NEW c \in Configs
  PROVE  /\ c.order \in Seq(Range(c.order)) /\ IsInjective(c.order)
         /\ c.links \subseteq Range(c.order) \X Range(c.order)
         /\ \A l \in c.links : l[1] # l[2]
         /\ c.pull \subseteq Range(c.order)
         /\ c.push \subseteq Range(c.order)
BY ConfigsAssumption

\* The apps of S, sorted.
LEMMA SortedIs ==
  ASSUME config \in Configs, NEW S \in SUBSET App
  PROVE  Sorted(S) \in Seq(App) /\ Range(Sorted(S)) = S /\ IsInjective(Sorted(S))
<1>1. config.order \in Seq(App) /\ IsInjective(config.order) /\ Range(config.order) = App
  BY ConfigFacts DEF App
<1> DEFINE k == Kept(config.order, S)
<1>2. /\ k \in Seq(App) /\ Range(k) = Range(config.order) \cap S
      /\ IsInjective(config.order) => IsInjective(k)
  BY <1>1, KeptIs
<1>3. Sorted(S) = k
  BY DEF Sorted
<1> HIDE DEF k
<1> QED BY <1>1, <1>2, <1>3

\* No push app is served at first, and the first loop visits those to serve.
LEMMA StartOrder == Start => OrderInv
<1> SUFFICES ASSUME Start PROVE OrderInv
  OBVIOUS
<1>0. /\ config \in Configs /\ pc = "collect" /\ inhale = Sorted(config.pull) /\ exhale = << >>
      /\ successors = Successors /\ dependents = << >> /\ names = inhale
      /\ todo = FirstTodo(inhale, successors)
  BY DEF Start
<1>1. inhale \in Seq(App) /\ Range(inhale) = config.pull /\ IsInjective(inhale)
  BY <1>0, SortedIs, ConfigFacts DEF App
<1>2. Range(exhale) = {} /\ Range(dependents) = {} /\ IsInjective(exhale) /\ IsInjective(dependents)
      /\ exhale \in Seq(App) /\ dependents \in Seq(App) /\ DOMAIN exhale = {}
  BY <1>0 DEF Range, IsInjective
<1>3. ListsInv
  BY <1>0, <1>1, <1>2 DEF ListsInv
<1>4. FedInv
  BY <1>2 DEF FedInv
<1>5. SuccessorsInv
  <2>1. successors \in [App -> SUBSET App]
    BY <1>0 DEF Successors
  <2> QED BY <1>1, <1>2, <2>1, <1>0 DEF SuccessorsInv, Processed
<1>6. U \subseteq Pending
  <2>1. Pending = UNION {successors[a] : a \in Range(inhale)}
    BY <1>0, <1>1, LoopVisits DEF Pending
  <2>2. ASSUME NEW s \in U PROVE \E a \in Range(inhale) : s \in successors[a]
    <3>1. PICK a \in config.pull : <<a, s>> \in config.links
      BY <1>2 DEF U, Unserved
    <3>2. a \in App /\ s \in App
      BY <1>0, <3>1, ConfigFacts DEF App
    <3>3. s \in successors[a]
      BY <1>0, <3>1, <3>2 DEF Successors
    <3> QED BY <1>1, <3>1, <3>3
  <2> QED BY <2>1, <2>2
<1>7. WaitsInv
  <2>1. U \ (Range(dependents) \cup Pending) = {}
    BY <1>6
  <2> QED BY <1>0, <2>1 DEF WaitsInv, Waits
<1> QED BY <1>3, <1>4, <1>5, <1>7 DEF OrderInv

LEMMA NextNameKeeps ==
  ASSUME OrderInv, NextName
  PROVE  OrderInv'
<1>1. /\ names # << >> /\ todo = {} /\ names' = Tail(names) /\ todo' = FirstTodo(Tail(names), successors)
      /\ config' = config /\ pc' = pc /\ inhale' = inhale /\ exhale' = exhale
      /\ successors' = successors /\ dependents' = dependents /\ selected' = selected
  BY DEF NextName
<1>2. App' = App /\ U' = U /\ Processed' = Processed /\ Successors' = Successors
  BY <1>1 DEF App, U, Processed, Successors
<1>3. names \in Seq(App)
  BY DEF OrderInv, ListsInv
<1>4. names' \in Seq(App) /\ Range(names') \subseteq Range(names)
  BY <1>1, <1>3, ListElements
<1>5. ListsInv'
  BY <1>1, <1>2, <1>4 DEF OrderInv, ListsInv
<1>6. FedInv'
  BY <1>1 DEF OrderInv, FedInv
<1>7. SuccessorsInv'
  BY <1>1, <1>2, <1>4 DEF OrderInv, SuccessorsInv
<1>8. Pending' = Pending
  <2>1. Pending' = FirstTodo(Tail(names), successors) \cup Rest(Tail(names), successors)
    BY <1>1 DEF Pending
  <2>2. Pending = Rest(names, successors)
    BY <1>1 DEF Pending
  <2> QED BY <1>1, <1>3, <2>1, <2>2, LoopMovesOn
<1>9. WaitsInv'
  <2>1. ASSUME NEW P, Range(names) \subseteq P \cup Range(dependents)
        PROVE  Range(names') \subseteq P \cup Range(dependents)
    BY <1>4, <2>1
  <2> QED BY <1>1, <1>2, <1>8, <2>1 DEF OrderInv, WaitsInv
<1> QED BY <1>5, <1>6, <1>7, <1>9 DEF OrderInv

LEMMA CollectKeeps ==
  ASSUME OrderInv, NEW s \in App, Collect(s)
  PROVE  OrderInv'
<1>1. /\ pc = "collect" /\ s \in todo /\ todo' = todo \ {s}
      /\ dependents' = IF IsNewDependent(s) THEN Append(dependents, s) ELSE dependents
      /\ config' = config /\ pc' = pc /\ inhale' = inhale /\ exhale' = exhale
      /\ successors' = successors /\ names' = names /\ selected' = selected
  BY DEF Collect
<1>2. App' = App /\ U' = U /\ Processed' = Processed /\ Successors' = Successors
  BY <1>1 DEF App, U, Processed, Successors
<1>3. FedInv'
  BY <1>1 DEF OrderInv, FedInv
<1>4. SuccessorsInv'
  <2>1. todo' \subseteq todo
    BY <1>1
  <2> QED BY <1>1, <1>2, <2>1 DEF OrderInv, SuccessorsInv
<1>5. Pending \subseteq Pending' \cup {s}
  BY <1>1 DEF Pending
<1>6. names \in Seq(App) /\ dependents \in Seq(App) /\ IsInjective(dependents) /\ Range(dependents) \subseteq U
  BY DEF OrderInv, ListsInv
<1>7. s \in config.push /\ s \notin Range(exhale) => s \in U
  <2>1. names # << >> /\ s \in successors[Head(names)]
    <3>1. todo \subseteq FirstTodo(names, successors)
      BY DEF OrderInv, SuccessorsInv
    <3> QED BY <1>1, <3>1 DEF FirstTodo
  <2>2. Head(names) \in Range(names) /\ Head(names) \in App
    BY <1>6, <2>1, ListElements
  <2>3. Head(names) \in config.pull \cup Range(exhale)
    BY <1>1, <2>2 DEF OrderInv, SuccessorsInv, ListsInv, Processed
  <2>4. <<Head(names), s>> \in config.links
    BY <2>1, <2>2 DEF OrderInv, SuccessorsInv, Successors
  <2> QED BY <2>3, <2>4 DEF U, Unserved
<1>8. /\ dependents' \in Seq(App) /\ IsInjective(dependents') /\ Range(dependents') \subseteq U
      /\ Range(dependents) \subseteq Range(dependents') /\ (s \in U => s \in Range(dependents'))
  <2>1. CASE IsNewDependent(s)
    <3>1. s \in U /\ s \notin Range(dependents)
      BY <1>7, <2>1 DEF IsNewDependent
    <3>2. dependents' = Append(dependents, s)
      BY <1>1, <2>1
    <3>3. /\ dependents' \in Seq(App) /\ IsInjective(dependents')
          /\ Range(dependents') = Range(dependents) \cup {s}
      BY <1>6, <3>1, <3>2, AppendNew
    <3> QED BY <1>6, <3>1, <3>3
  <2>2. CASE ~IsNewDependent(s)
    <3>1. s \in U => s \in Range(dependents)
      BY <2>2 DEF IsNewDependent, U, Unserved
    <3> QED BY <1>1, <1>6, <2>2, <3>1
  <2> QED BY <2>1, <2>2
<1>9. ListsInv'
  BY <1>1, <1>2, <1>8 DEF OrderInv, ListsInv
<1>10. WaitsInv'
  <2> DEFINE W == U \ (Range(dependents) \cup Pending)
             V == U \ (Range(dependents') \cup Pending')
  <2>1. V \in SUBSET W
    BY <1>5, <1>8
  <2>2. Waits(config, U, W)
    BY <1>1 DEF OrderInv, WaitsInv
  <2>3. Waits(config, U, V)
    <3> HIDE DEF V, W
    <3> QED BY <2>1, <2>2, FewerWait
  <2> QED BY <1>1, <1>2, <2>3 DEF WaitsInv
<1> QED BY <1>3, <1>4, <1>9, <1>10 DEF OrderInv

LEMMA CollectedKeeps ==
  ASSUME OrderInv, Collected
  PROVE  OrderInv'
<1>1. /\ pc = "collect" /\ names = << >> /\ successors' = Pruned /\ selected' = {}
      /\ names' = dependents /\ todo' = FirstTodo(dependents, Pruned)
      /\ pc' = IF dependents = << >> THEN "done" ELSE "select"
      /\ config' = config /\ inhale' = inhale /\ exhale' = exhale /\ dependents' = dependents
  BY DEF Collected
<1>2. App' = App /\ U' = U /\ Processed' = Processed /\ Successors' = Successors
  BY <1>1 DEF App, U, Processed, Successors
<1>3. FedInv'
  BY <1>1 DEF OrderInv, FedInv
<1>4. ListsInv'
  BY <1>1, <1>2 DEF OrderInv, ListsInv
<1>5. SuccessorsInv'
  <2>1. /\ successors \in [App -> SUBSET App]
        /\ \A a \in App : successors[a] \subseteq Successors[a]
        /\ \A a \in App : a \notin Processed => successors[a] = Successors[a]
    BY DEF OrderInv, SuccessorsInv
  <2>2. Pruned \in [App -> SUBSET App]
    BY <2>1 DEF Pruned
  <2>3. \A a \in App : Pruned[a] = IF a \in Processed THEN {} ELSE successors[a]
    BY DEF Pruned
  <2>4. Processed \subseteq App
    BY ListElements DEF Processed, OrderInv, ListsInv
  <2> QED BY <1>1, <1>2, <2>1, <2>2, <2>3, <2>4 DEF SuccessorsInv
<1>6. Waits(config, U, U \ Range(dependents))
  <2>1. Pending = {}
    <3>1. todo \subseteq FirstTodo(names, successors)
      BY DEF OrderInv, SuccessorsInv
    <3>2. FirstTodo(names, successors) = {}
      BY <1>1 DEF FirstTodo
    <3>3. Rest(names, successors) = {}
      BY <1>1 DEF Rest
    <3> QED BY <3>1, <3>2, <3>3 DEF Pending
  <2>2. U \ (Range(dependents) \cup Pending) = U \ Range(dependents)
    BY <2>1
  <2> QED BY <1>1, <2>2 DEF OrderInv, WaitsInv
<1>7. WaitsInv'
  <2>1. CASE dependents = << >>
    <3>1. U \ Range(dependents) = U
      BY <2>1 DEF Range
    <3>2. U = {}
      BY <1>6, <3>1, NobodyWaits
    <3> QED BY <1>1, <1>2, <2>1, <3>2 DEF WaitsInv
  <2>2. CASE dependents # << >>
    <3>1. PutOff(config, {}, Range(dependents), {})
      BY DEF PutOff
    <3>2. {} \in SUBSET (U \ Range(dependents)) /\ Range(dependents) \subseteq {} \cup Range(dependents)
      OBVIOUS
    <3>3. \E P \in SUBSET (U \ Range(dependents)) :
            /\ Range(names') \subseteq P \cup Range(dependents)
            /\ PutOff(config, {}, Range(dependents), P)
      BY <1>1, <3>1, <3>2
    <3>4. pc' = "select"
      BY <1>1, <2>2
    <3> QED BY <1>1, <1>2, <1>6, <3>3, <3>4 DEF WaitsInv
  <2> QED BY <2>1, <2>2
<1> QED BY <1>3, <1>4, <1>5, <1>7 DEF OrderInv

LEMMA SelectKeeps ==
  ASSUME OrderInv, NEW s \in App, Select(s)
  PROVE  OrderInv'
<1>1. /\ pc = "select" /\ s \in todo /\ todo' = todo \ {s}
      /\ config' = config /\ pc' = pc /\ inhale' = inhale /\ exhale' = exhale
      /\ successors' = successors /\ names' = names
  BY DEF Select
<1>2. App' = App /\ U' = U /\ Processed' = Processed /\ Successors' = Successors
  BY <1>1 DEF App, U, Processed, Successors
<1>3. FedInv'
  BY <1>1 DEF OrderInv, FedInv
<1>4. SuccessorsInv'
  <2>1. todo' \subseteq todo
    BY <1>1
  <2> QED BY <1>1, <1>2, <2>1 DEF OrderInv, SuccessorsInv
<1>5. /\ names \in Seq(App) /\ dependents \in Seq(App) /\ IsInjective(dependents)
      /\ Range(dependents) \subseteq U /\ Range(dependents) \subseteq App
  BY ListElements DEF OrderInv, ListsInv
<1>6. CASE ~Delays(s)
  <2>1. selected' = selected /\ dependents' = dependents
    BY <1>6 DEF Select
  <2>2. ListsInv'
    BY <1>1, <1>2, <2>1 DEF OrderInv, ListsInv
  <2>3. WaitsInv'
    BY <1>1, <1>2, <2>1 DEF OrderInv, WaitsInv
  <2> QED BY <1>3, <1>4, <2>2, <2>3 DEF OrderInv
<1>7. CASE Delays(s)
  <2> DEFINE h == Head(names)
             D == Range(dependents)
  <2>1. /\ selected' = selected \cup {h} /\ dependents' = Kept(dependents, App \ {s})
        /\ s \notin selected /\ s \in D
    BY <1>7 DEF Select, Delays
  <2>2. /\ dependents' \in Seq(App) /\ IsInjective(dependents') /\ Range(dependents') = D \ {s}
    <3>1. /\ Kept(dependents, App \ {s}) \in Seq(App) /\ IsInjective(Kept(dependents, App \ {s}))
          /\ Range(Kept(dependents, App \ {s})) = D \cap (App \ {s})
      BY <1>5, KeptIs
    <3>2. D \cap (App \ {s}) = D \ {s}
      BY <1>5
    <3> QED BY <2>1, <3>1, <3>2
  <2>3. ListsInv'
    <3>1. D \ {s} \subseteq U
      BY <1>5
    <3> HIDE DEF D
    <3> QED BY <1>1, <1>2, <2>2, <3>1 DEF OrderInv, ListsInv
  <2>4. names # << >> /\ s \in successors[h]
    <3>1. todo \subseteq FirstTodo(names, successors)
      BY DEF OrderInv, SuccessorsInv
    <3> QED BY <1>1, <3>1 DEF FirstTodo
  <2>5. h \in Range(names) /\ h \in App
    BY <1>5, <2>4, ListElements
  <2>6. h \notin Processed
    BY <1>1, <2>4 DEF OrderInv, SuccessorsInv
  <2>7. h \notin config.pull
    BY <2>6 DEF OrderInv, ListsInv, Processed
  <2>8. <<h, s>> \in config.links
    <3>1. s \in Successors[h]
      BY <2>4, <2>5 DEF OrderInv, SuccessorsInv
    <3> HIDE DEF h
    <3> QED BY <2>5, <3>1 DEF Successors
  <2>9. h # s
    <3>1. \A l \in config.links : l[1] # l[2]
      BY ConfigFacts DEF OrderInv, ListsInv
    <3> HIDE DEF h
    <3> QED BY <2>8, <3>1
  <2> HIDE DEF h, D
  <2>10. PICK P \in SUBSET (U \ D) : Range(names) \subseteq P \cup D /\ PutOff(config, selected, D, P)
    BY <1>1 DEF OrderInv, WaitsInv, D
  <2>11. h \in P \cup D
    BY <2>5, <2>10
  <2>12. PutOff(config, selected \cup {h}, D \ {s}, P \cup {s})
    BY <2>1, <2>7, <2>8, <2>9, <2>10, <2>11, OneMorePutOff
  <2>13. /\ P \cup {s} \in SUBSET (U \ (D \ {s})) /\ D \ {s} \subseteq U
         /\ U \ (D \ {s}) \subseteq (U \ D) \cup (P \cup {s})
         /\ (P \cup {s}) \cap (D \ {s}) = {}
         /\ Range(names) \subseteq (P \cup {s}) \cup (D \ {s})
    BY <1>5, <2>1, <2>10 DEF D
  <2>14. Waits(config, U, U \ D)
    BY <1>1 DEF OrderInv, WaitsInv, D
  <2>15. Waits(config, U, U \ (D \ {s}))
    <3> DEFINE D1 == D \ {s}
               P1 == P \cup {s}
               W == U \ D
               un == U
               sel == selected \cup {h}
    <3>1. /\ PutOff(config, sel, D1, P1) /\ Waits(config, un, W) /\ P1 \subseteq un /\ D1 \subseteq un
          /\ un \ D1 \subseteq W \cup P1 /\ P1 \cap D1 = {}
      BY <2>12, <2>13, <2>14
    <3> HIDE DEF D1, P1, W, sel, un
    <3>2. Waits(config, un, un \ D1)
      BY <3>1, PutOffWait
    <3> QED BY <3>2 DEF D1, un
  <2>16. WaitsInv'
    <3> DEFINE P1 == P \cup {s}
    <3>1. /\ P1 \in SUBSET (U' \ Range(dependents')) /\ Range(names') \subseteq P1 \cup Range(dependents')
          /\ PutOff(config', selected', Range(dependents'), P1)
      BY <1>1, <1>2, <2>1, <2>2, <2>12, <2>13
    <3> HIDE DEF P1
    <3>2. Waits(config', U', U' \ Range(dependents'))
      BY <1>1, <1>2, <2>2, <2>15
    <3>3. pc' = "select"
      BY <1>1
    <3> QED BY <3>1, <3>2, <3>3 DEF WaitsInv
  <2> QED BY <1>3, <1>4, <2>3, <2>16 DEF OrderInv
<1> QED BY <1>6, <1>7

LEMMA ExhaleKeeps ==
  ASSUME OrderInv, Exhale
  PROVE  OrderInv'
<1> DEFINE D == Range(dependents)
           X == Exhaled
<1>1. /\ pc = "select" /\ names = << >> /\ exhale' = exhale \o X /\ dependents' = << >>
      /\ names' = X /\ todo' = FirstTodo(X, successors) /\ pc' = "collect"
      /\ config' = config /\ inhale' = inhale /\ successors' = successors
  BY DEF Exhale
<1>2. App' = App /\ Successors' = Successors
  BY <1>1 DEF App, Successors
<1>3. /\ config \in Configs /\ inhale \in Seq(App) /\ Range(inhale) = config.pull /\ IsInjective(inhale)
      /\ exhale \in Seq(App) /\ IsInjective(exhale) /\ D \subseteq U
      /\ dependents \in Seq(App) /\ D \subseteq App
  BY ListElements DEF OrderInv, ListsInv
<1>4. X \in Seq(App) /\ Range(X) = D /\ IsInjective(X)
  BY <1>3, SortedIs DEF Exhaled
<1> HIDE DEF X, D
<1>5. \A s : s \in U <=> /\ s \in config.push /\ s \notin Range(exhale)
                         /\ \E a \in config.pull \cup Range(exhale) : <<a, s>> \in config.links
  BY DEF U, Unserved
<1>6. /\ exhale' \in Seq(App) /\ IsInjective(exhale') /\ Range(exhale') = Range(exhale) \cup D
  <2>1. Range(exhale) \cap Range(X) = {}
    BY <1>3, <1>4, <1>5
  <2> QED BY <1>1, <1>3, <1>4, <2>1, ConcatNew
<1>7. \A s : s \in U' <=> /\ s \in config.push /\ s \notin Range(exhale) \cup D
                          /\ \E a \in config.pull \cup (Range(exhale) \cup D) : <<a, s>> \in config.links
  BY <1>1, <1>6 DEF U, Unserved
<1>8. Range(dependents') = {} /\ IsInjective(dependents') /\ dependents' \in Seq(App)
  BY <1>1 DEF Range, IsInjective
<1>9. ListsInv'
  BY <1>1, <1>2, <1>3, <1>4, <1>6, <1>8 DEF ListsInv
<1>10. FedInv'
  <2> SUFFICES ASSUME NEW j \in DOMAIN exhale'
               PROVE  /\ exhale'[j] \in config.push
                      /\ \E a \in config.pull \cup {exhale'[i] : i \in 1..(j - 1)} :
                           <<a, exhale'[j]>> \in config.links
    BY <1>1 DEF FedInv
  <2>1. /\ Len(exhale) \in Nat /\ Len(X) \in Nat /\ j \in 1..(Len(exhale) + Len(X))
        /\ DOMAIN exhale = 1..Len(exhale) /\ DOMAIN X = 1..Len(X)
        /\ \A i \in 1..(Len(exhale) + Len(X)) :
             exhale'[i] = IF i <= Len(exhale) THEN exhale[i] ELSE X[i - Len(exhale)]
    BY <1>1, <1>3, <1>4
  <2>2. \A i \in 1..Len(exhale) : exhale'[i] = exhale[i]
    BY <2>1
  <2>3. CASE j <= Len(exhale)
    <3>1. j \in DOMAIN exhale /\ exhale'[j] = exhale[j]
      BY <2>1, <2>3
    <3>2. exhale[j] \in config.push
      BY <3>1 DEF OrderInv, FedInv
    <3>3. PICK a \in config.pull \cup {exhale[i] : i \in 1..(j - 1)} : <<a, exhale[j]>> \in config.links
      BY <3>1 DEF OrderInv, FedInv
    <3>4. \A i \in 1..(j - 1) : i \in 1..Len(exhale)
      BY <2>1, <2>3
    <3>5. a \in config.pull \cup {exhale'[i] : i \in 1..(j - 1)}
      BY <2>2, <3>3, <3>4
    <3> QED BY <3>1, <3>2, <3>3, <3>5
  <2>4. CASE j > Len(exhale)
    <3>1. j - Len(exhale) \in DOMAIN X /\ exhale'[j] = X[j - Len(exhale)]
      BY <2>1, <2>4
    <3>2. exhale'[j] \in U
      <4>1. X[j - Len(exhale)] \in Range(X)
        BY <3>1 DEF Range
      <4> QED BY <1>3, <1>4, <3>1, <4>1
    <3>3. PICK a \in config.pull \cup Range(exhale) : <<a, exhale'[j]>> \in config.links
      BY <1>5, <3>2
    <3>4. a \in Range(exhale) => \E i \in 1..(j - 1) : a = exhale'[i]
      <4> SUFFICES ASSUME a \in Range(exhale) PROVE \E i \in 1..(j - 1) : a = exhale'[i]
        OBVIOUS
      <4>1. PICK i \in 1..Len(exhale) : a = exhale[i]
        BY <2>1 DEF Range
      <4>2. i \in 1..(j - 1)
        BY <2>1, <2>4
      <4> QED BY <2>2, <4>1, <4>2
    <3>5. a \in config.pull \cup {exhale'[i] : i \in 1..(j - 1)}
      BY <3>3, <3>4
    <3> QED BY <1>5, <3>2, <3>3, <3>5
  <2>5. j <= Len(exhale) \/ j > Len(exhale)
    BY <2>1
  <2> QED BY <2>3, <2>4, <2>5
<1>11. Processed' = Processed \cup D
  BY <1>1, <1>6 DEF Processed
<1>12. SuccessorsInv'
  BY <1>1, <1>2, <1>4, <1>11 DEF OrderInv, SuccessorsInv
<1>13. Pending' = UNION {successors[a] : a \in D}
  <2>1. Pending' = FirstTodo(X, successors) \cup Rest(X, successors)
    BY <1>1 DEF Pending
  <2> QED BY <1>4, <2>1, LoopVisits
<1>14. ASSUME NEW d \in D, d \notin config.pull, NEW s, <<d, s>> \in config.links
       PROVE  s \in Pending'
  <2>1. d \notin Processed
    BY <1>3, <1>5, <1>14 DEF Processed
  <2>2. d \in App /\ s \in App
    BY <1>3, <1>14, ConfigFacts DEF App
  <2>3. s \in successors[d]
    <3>1. successors[d] = Successors[d]
      BY <2>1, <2>2 DEF OrderInv, SuccessorsInv
    <3> QED BY <1>14, <2>2, <3>1 DEF Successors
  <2> QED BY <1>13, <2>3
<1>15. ASSUME NEW s \in U' \ Pending' PROVE s \in U \ D
  <2>1. PICK a \in config.pull \cup (Range(exhale) \cup D) : <<a, s>> \in config.links
    BY <1>7
  <2>2. a \in config.pull \cup Range(exhale)
    BY <1>14, <2>1
  <2> QED BY <1>5, <1>7, <2>1, <2>2
<1>16. ASSUME NEW s \in U \ D PROVE s \in U'
  BY <1>5, <1>7
<1>17. Waits(config, U, U \ D)
  BY <1>1 DEF OrderInv, WaitsInv, D
<1>18. Waits(config, U', U' \ Pending')
  <2> DEFINE un == U
             un1 == U'
             Succ == Pending'
  <2>1. /\ D \in SUBSET un /\ Waits(config, un, un \ D) /\ \A s \in un1 \ Succ : s \in un \ D
        /\ \A s \in un \ D : s \in un1
        /\ \A d \in D, s \in un1 : <<d, s>> \in config.links /\ d \notin config.pull => s \in Succ
    BY <1>3, <1>14, <1>15, <1>16, <1>17
  <2> HIDE DEF un, un1, Succ
  <2>2. Waits(config, un1, un1 \ Succ)
    BY <2>1, ExhaledWait
  <2> QED BY <2>2 DEF un1, Succ
<1>19. WaitsInv'
  <2>1. U' \ (Range(dependents') \cup Pending') = U' \ Pending'
    BY <1>8
  <2> QED BY <1>1, <1>18, <2>1 DEF WaitsInv
<1> QED BY <1>9, <1>10, <1>12, <1>19 DEF OrderInv

\* A second computation starts like the first.
LEMMA StartAgain == Start' => OrderInv'
BY StartOrder, PTL

LEMMA AgainKeeps ==
  ASSUME OrderInv, inhale = Sorted(config.pull), Again
  PROVE  OrderInv'
<1>1. Start'
  BY DEF Start, Again, OrderInv, ListsInv, Sorted, Successors, App
<1> QED BY <1>1, StartAgain

\* No list names an app twice, exhale names push apps that packets can reach,
\* and in the end all of them (compute_breathe_order): for every app network
\* that links no app to itself, whatever cycles it has and in whatever order the HashSets are
\* visited, the first time and when the network is configured anew.
THEOREM EveryReachableAppIsExhaledOnce == TwiceSpec => []ExhalesReachableOnce
<1> DEFINE Inv == OrderInv /\ inhale = Sorted(config.pull)
<1>1. TwiceInit => Inv
  BY StartOrder DEF TwiceInit, OrderInit, Start
<1>2. Inv /\ [TwiceNext]_twiceVars => Inv'
  <2> SUFFICES ASSUME OrderInv, inhale = Sorted(config.pull), [TwiceNext]_twiceVars
               PROVE  OrderInv' /\ (inhale = Sorted(config.pull))'
    OBVIOUS
  <2>1. (inhale = Sorted(config.pull))'
    <3>1. inhale' = inhale /\ config' = config
      BY DEF TwiceNext, OrderNext, NextName, Collect, Collected, Select, Exhale, Again, twiceVars, orderVars
    <3> QED BY <3>1 DEF Sorted
  <2>2. CASE NextName
    BY <2>1, <2>2, NextNameKeeps
  <2>3. CASE \E s \in App : Collect(s)
    BY <2>1, <2>3, CollectKeeps
  <2>4. CASE Collected
    BY <2>1, <2>4, CollectedKeeps
  <2>5. CASE \E s \in App : Select(s)
    BY <2>1, <2>5, SelectKeeps
  <2>6. CASE Exhale
    BY <2>1, <2>6, ExhaleKeeps
  <2>7. CASE Again
    BY <2>1, <2>7, AgainKeeps
  <2>8. CASE UNCHANGED twiceVars
    <3>1. /\ config' = config /\ pc' = pc /\ inhale' = inhale /\ exhale' = exhale
          /\ successors' = successors /\ dependents' = dependents /\ selected' = selected
          /\ names' = names /\ todo' = todo
      BY <2>8 DEF twiceVars, orderVars
    <3>2. App' = App /\ U' = U /\ Processed' = Processed /\ Successors' = Successors /\ Pending' = Pending
      BY <3>1 DEF App, U, Processed, Successors, Pending
    <3>3. ListsInv'
      BY <3>1, <3>2 DEF OrderInv, ListsInv
    <3>4. FedInv'
      BY <3>1 DEF OrderInv, FedInv
    <3>5. SuccessorsInv'
      BY <3>1, <3>2 DEF OrderInv, SuccessorsInv
    <3>6. WaitsInv'
      BY <3>1, <3>2 DEF OrderInv, WaitsInv
    <3> QED BY <2>1, <3>3, <3>4, <3>5, <3>6 DEF OrderInv
  <2> QED BY <2>1, <2>2, <2>3, <2>4, <2>5, <2>6, <2>7, <2>8 DEF TwiceNext, OrderNext
<1>3. OrderInv => ExhalesReachableOnce
  <2> SUFFICES ASSUME OrderInv PROVE ExhalesReachableOnce
    OBVIOUS
  <2>1. pc = "done" => \A l \in config.links :
          l[1] \in config.pull \cup Range(exhale) /\ l[2] \in config.push => l[2] \in Range(exhale)
    <3> SUFFICES ASSUME pc = "done", NEW l \in config.links, l[1] \in config.pull \cup Range(exhale),
                        l[2] \in config.push, l[2] \notin Range(exhale)
                 PROVE  FALSE
      OBVIOUS
    <3>1. <<l[1], l[2]>> \in config.links
      <4>1. config.links \subseteq Range(config.order) \X Range(config.order)
        BY ConfigFacts DEF OrderInv, ListsInv
      <4>2. l = <<l[1], l[2]>>
        BY <4>1
      <4> QED BY <4>2
    <3>2. l[2] \in U
      BY <3>1 DEF U, Unserved
    <3> QED BY <3>2 DEF OrderInv, WaitsInv
  <2> QED BY <2>1 DEF OrderInv, ListsInv, FedInv, ExhalesReachableOnce
<1> QED BY <1>1, <1>2, <1>3, PTL DEF TwiceSpec
=============================================================================
