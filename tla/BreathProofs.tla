---------------------------- MODULE BreathProofs ----------------------------
(***************************************************************************)
(* For every size of the pool and every first step: packets are neither    *)
(* aliased nor lost, the freelist does not overflow, and the pool gives up *)
(* only when all it made is in use.  And for every network of apps,        *)
(* breathe order and sizes of links and frames: the apps use the pool in a *)
(* way that keeps it so, however breaths, arrivals and interfaces go.      *)
(***************************************************************************)
EXTENDS Breath, FiniteSetTheorems, TLAPS

(* The pool.                                                               *)

LEMMA InitIInv ==
  ASSUME Init
  PROVE  IInv
  <1>1. TypeOK
    <2>1. [i \in Index |-> NullPtr] \in [Index -> Packet \cup {NullPtr}]
      BY DEF NullPtr
    <2>2. [p \in Packet |-> 0] \in [Packet -> Nat]
      OBVIOUS
    <2> QED
      BY <2>1, <2>2, PoolAssumption DEF Init, TypeOK
  <1>2. NoAliasNoLeak
    BY DEF Init, NoAliasNoLeak, FreePackets
  <1>3. IsFiniteSet(inUse) /\ nfree + Cardinality(inUse) = allocated
    BY FS_EmptySet DEF Init
  <1> QED
    BY <1>1, <1>2, <1>3, PoolAssumption
    DEF Init, IInv, NoFreelistOverflow, FreePacketsEmpty, ExhaustedWhenInUse

\* The numbers of packets that are free, in use and made.
LEMMA Levels ==
  ASSUME IInv
  PROVE  /\ MAX_PACKETS \in Nat /\ nfree \in Nat /\ allocated \in Nat /\ step \in Nat
         /\ step > 0 /\ step = allocated + FirstStep
         /\ nfree <= allocated /\ allocated <= MAX_PACKETS
         /\ Cardinality(inUse) \in Nat /\ nfree + Cardinality(inUse) = allocated
  <1>1. Cardinality(inUse) \in Nat
    BY FS_CardinalityType DEF IInv
  <1>2. MAX_PACKETS \in Nat /\ nfree \in Nat /\ allocated \in Nat /\ step \in Nat /\ step > 0
        /\ allocated <= MAX_PACKETS
    <2>1. nfree \in 0..MAX_PACKETS /\ allocated \in 0..MAX_PACKETS /\ step \in Nat \ {0}
      BY DEF IInv, TypeOK
    <2> QED
      BY <2>1, PoolAssumption
  <1>3. step = allocated + FirstStep /\ nfree + Cardinality(inUse) = allocated
    BY DEF IInv
  <1>4. nfree <= allocated
    BY <1>1, <1>2, <1>3
  <1> QED
    BY <1>1, <1>2, <1>3, <1>4

\* Where the free packets are.
LEMMA FreeSlots ==
  ASSUME IInv
  PROVE  /\ \A i \in 0..(nfree - 1) : /\ i \in Index
                                      /\ list[i] \in 1..allocated
                                      /\ list[i] \notin inUse
         /\ \A p \in 1..allocated : p \notin inUse => \E i \in 0..(nfree - 1) : list[i] = p
         /\ inUse \subseteq 1..allocated
  <1>1. \A i \in 0..(nfree - 1) : i \in Index
    BY Levels DEF Index
  <1> QED
    BY <1>1 DEF IInv, NoAliasNoLeak, FreePackets

\* preallocate_step puts the new packets above the free ones.
LEMMA GrowFacts ==
  ASSUME IInv, Grow
  PROVE  /\ allocated + step <= MAX_PACKETS
         /\ list' \in [Index -> Packet \cup {NullPtr}]
         /\ step' = allocated' + FirstStep /\ step' \in Nat \ {0}
         /\ allocated' = allocated + step
         /\ \A i \in 0..(nfree - 1) : list'[i] = list[i]
         /\ \A i \in nfree..(nfree + step - 1) : list'[i] = allocated + (i - nfree) + 1
  <1>1. allocated + step <= MAX_PACKETS
    BY Levels DEF Grow, NoRoom
  <1>2. list' \in [Index -> Packet \cup {NullPtr}]
    <2>1. \A i \in Index : i >= nfree /\ i < nfree + step => allocated + (i - nfree) + 1 \in Packet
      BY <1>1, Levels DEF Packet, Index
    <2>2. \A i \in Index : list[i] \in Packet \cup {NullPtr}
      BY DEF IInv, TypeOK
    <2> QED
      BY <2>1, <2>2 DEF Grow, GrownList
  <1>3. \A i \in 0..(nfree - 1) : list'[i] = list[i]
    BY <1>1, Levels DEF Grow, GrownList, Index
  <1>4. \A i \in nfree..(nfree + step - 1) : list'[i] = allocated + (i - nfree) + 1
    <2> SUFFICES ASSUME NEW i \in nfree..(nfree + step - 1)
                 PROVE  list'[i] = allocated + (i - nfree) + 1
      OBVIOUS
    <2>1. i \in Index /\ i >= nfree /\ i < nfree + step
      BY <1>1, Levels DEF Index
    <2> QED
      BY <2>1 DEF Grow, GrownList
  <1>5. step' = allocated' + FirstStep /\ step' \in Nat \ {0} /\ allocated' = allocated + step
    BY Levels, PoolAssumption DEF Grow
  <1> QED
    BY <1>1, <1>2, <1>3, <1>4, <1>5

\* No packet is aliased or lost if the slots of the freelist are as in FreeSlots.
LEMMA Covered ==
  ASSUME \A i, j \in 0..(nfree' - 1) : list'[i] = list'[j] => i = j,
         \A i \in 0..(nfree' - 1) : list'[i] \in 1..allocated' /\ list'[i] \notin inUse',
         \A p \in 1..allocated' : p \notin inUse' => \E i \in 0..(nfree' - 1) : list'[i] = p,
         inUse' \subseteq 1..allocated'
  PROVE  NoAliasNoLeak'
  <1>1. FreePackets' = {list'[i] : i \in 0..(nfree' - 1)}
    BY DEF FreePackets
  <1>2. FreePackets' \cap inUse' = {}
    BY <1>1
  <1>3. FreePackets' \cup inUse' = 1..allocated'
    <2>1. \A p \in 1..allocated' : p \in FreePackets' \cup inUse'
      BY <1>1
    <2>2. \A p \in FreePackets' : p \in 1..allocated'
      BY <1>1
    <2> QED
      BY <2>1, <2>2
  <1> QED
    BY <1>2, <1>3 DEF NoAliasNoLeak

\* What speaks of the packets only, while these and the freelist stay the same.
LEMMA SamePackets ==
  ASSUME IInv, list' = list, nfree' = nfree, allocated' = allocated,
         inUse' = inUse, length' = length
  PROVE  NoAliasNoLeak' /\ FreePacketsEmpty'
  <1>1. NoAliasNoLeak /\ FreePacketsEmpty
    BY DEF IInv
  <1>2. FreePackets' = FreePackets
    BY DEF FreePackets
  <1>3. NoAliasNoLeak'
    BY <1>1, <1>2 DEF NoAliasNoLeak
  <1>4. FreePacketsEmpty'
    BY <1>1 DEF FreePacketsEmpty
  <1> QED
    BY <1>3, <1>4

\* A panic leaves the pool as it is.
LEMMA DieStep ==
  ASSUME IInv, NEW message \in {"Packet allocation overflow", "failed elsewhere"},
         Die(message), ExhaustedWhenInUse'
  PROVE  IInv'
  <1>1. TypeOK' /\ NoFreelistOverflow'
    BY DEF IInv, TypeOK, Die, NoFreelistOverflow
  <1>2. NoAliasNoLeak' /\ FreePacketsEmpty'
    BY SamePackets DEF Die
  <1> QED
    BY <1>1, <1>2 DEF IInv, Die

LEMMA NoRoomMeansHalf ==
  ASSUME IInv, NoRoom
  PROVE  2 * allocated + FirstStep > MAX_PACKETS
  BY Levels, PoolAssumption DEF NoRoom

LEMMA PreallocateStep ==
  ASSUME IInv, NEW n \in Packet, preallocate(n)
  PROVE  IInv'
  <1>1. TypeOK'
    <2>1. target' \in 0..MAX_PACKETS
      BY PoolAssumption DEF preallocate, Packet
    <2> QED
      BY <2>1 DEF IInv, TypeOK, preallocate
  <1>2. NoAliasNoLeak' /\ FreePacketsEmpty'
    BY SamePackets DEF preallocate
  <1>3. ExhaustedWhenInUse' /\ NoFreelistOverflow'
    BY DEF IInv, ExhaustedWhenInUse, NoFreelistOverflow, preallocate, Ready
  <1> QED
    BY <1>1, <1>2, <1>3 DEF IInv, preallocate

LEMMA PreallocateLoopStep ==
  ASSUME IInv, PreallocateLoop
  PROVE  IInv'
  <1>1. CASE /\ allocated < target /\ Grow /\ nfree' = nfree + step
             /\ UNCHANGED <<inUse, length, frees, target, panic>>
    <2>1. nfree' \in 0..MAX_PACKETS /\ allocated' \in 0..MAX_PACKETS
      BY <1>1, GrowFacts, Levels
    <2>2. TypeOK'
      BY <1>1, <2>1, GrowFacts DEF IInv, TypeOK
    <2>3. \A i, j \in 0..(nfree' - 1) : list'[i] = list'[j] => i = j
      BY <1>1, GrowFacts, FreeSlots, Levels DEF IInv, NoAliasNoLeak
    <2>4. \A i \in 0..(nfree' - 1) : list'[i] \in 1..allocated' /\ list'[i] \notin inUse'
      BY <1>1, GrowFacts, FreeSlots, Levels
    <2>5. \A p \in 1..allocated' : p \notin inUse' => \E i \in 0..(nfree' - 1) : list'[i] = p
      <3> SUFFICES ASSUME NEW p \in 1..allocated', p \notin inUse'
                   PROVE  \E i \in 0..(nfree' - 1) : list'[i] = p
        OBVIOUS
      <3>1. CASE p \in 1..allocated
        <4>1. PICK i \in 0..(nfree - 1) : list[i] = p
          BY <1>1, <3>1, FreeSlots
        <4> QED
          BY <1>1, <4>1, GrowFacts, Levels
      <3>2. CASE p \notin 1..allocated
        <4>1. nfree + (p - allocated - 1) \in nfree..(nfree + step - 1)
          BY <3>2, GrowFacts, Levels, <1>1
        <4>2. list'[nfree + (p - allocated - 1)] = p
          BY <4>1, GrowFacts, Levels, <1>1
        <4> QED
          BY <1>1, <4>1, <4>2, Levels
      <3> QED
        BY <3>1, <3>2
    <2>6. inUse' \subseteq 1..allocated'
      BY <1>1, GrowFacts, FreeSlots, Levels
    <2>7. NoAliasNoLeak'
      BY <2>3, <2>4, <2>5, <2>6, Covered
    <2>8. FreePacketsEmpty' /\ NoFreelistOverflow'
      BY <1>1 DEF IInv, FreePacketsEmpty, NoFreelistOverflow
    <2>9. ExhaustedWhenInUse'
      BY <1>1 DEF PreallocateLoop, ExhaustedWhenInUse
    <2>10. nfree' + Cardinality(inUse') = allocated'
      BY <1>1, GrowFacts, Levels
    <2> QED
      BY <1>1, <2>2, <2>7, <2>8, <2>9, <2>10, GrowFacts DEF IInv
  <1>2. CASE allocated < target /\ NoRoom /\ Die("Packet allocation overflow")
    <2>1. ExhaustedWhenInUse'
      BY <1>2, NoRoomMeansHalf, Levels DEF ExhaustedWhenInUse, Die, IInv, TypeOK
    <2> QED
      BY <1>2, <2>1, DieStep
  <1>3. CASE /\ allocated >= target /\ target' = 0
             /\ UNCHANGED <<list, nfree, allocated, step, inUse, length, frees, panic>>
    <2>1. TypeOK'
      <3>1. target' \in 0..MAX_PACKETS
        BY <1>3, PoolAssumption
      <3> QED
        BY <1>3, <3>1 DEF IInv, TypeOK
    <2>2. NoAliasNoLeak' /\ FreePacketsEmpty'
      BY <1>3, SamePackets
    <2>4. NoFreelistOverflow'
      BY <1>3 DEF IInv, NoFreelistOverflow
    <2>3. ExhaustedWhenInUse'
      BY <1>3 DEF PreallocateLoop, ExhaustedWhenInUse
    <2> QED
      BY <1>3, <2>1, <2>2, <2>3, <2>4 DEF IInv
  <1> QED
    BY <1>1, <1>2, <1>3 DEF PreallocateLoop

\* allocate, for packets of any length.
LEMMA AllocateStep ==
  ASSUME IInv, NEW n \in Nat, allocate(n)
  PROVE  IInv'
  <1>1. CASE /\ nfree > 0 /\ nfree' = nfree - 1
             /\ inUse' = inUse \cup {list[nfree - 1]}
             /\ length' = [length EXCEPT ![list[nfree - 1]] = n]
             /\ UNCHANGED <<list, allocated, step, frees, target, panic>>
    <2> DEFINE top == list[nfree - 1]
    <2>1. nfree - 1 \in 0..(nfree - 1) /\ 0..(nfree' - 1) \subseteq 0..(nfree - 1)
          /\ nfree' \in 0..MAX_PACKETS
      BY <1>1, Levels
    <2>2. top \in 1..allocated /\ top \notin inUse /\ top \in Packet
      BY <2>1, FreeSlots, Levels DEF Packet
    <2>3. TypeOK'
      BY <1>1, <2>1, <2>2 DEF IInv, TypeOK
    <2>4. \A i, j \in 0..(nfree' - 1) : list'[i] = list'[j] => i = j
      BY <1>1, <2>1 DEF IInv, NoAliasNoLeak
    <2>5. \A i \in 0..(nfree' - 1) : list'[i] \in 1..allocated' /\ list'[i] \notin inUse'
      <3>1. \A i \in 0..(nfree' - 1) : list[i] # top
        BY <1>1, <2>1, Levels DEF IInv, NoAliasNoLeak
      <3> QED
        BY <1>1, <2>1, <3>1, FreeSlots
    <2>6. \A p \in 1..allocated' : p \notin inUse' => \E i \in 0..(nfree' - 1) : list'[i] = p
      <3> SUFFICES ASSUME NEW p \in 1..allocated', p \notin inUse'
                   PROVE  \E i \in 0..(nfree' - 1) : list'[i] = p
        OBVIOUS
      <3>1. PICK i \in 0..(nfree - 1) : list[i] = p
        BY <1>1, FreeSlots
      <3>2. i # nfree - 1
        BY <1>1, <3>1
      <3> QED
        BY <1>1, <3>1, <3>2, Levels
    <2>7. inUse' \subseteq 1..allocated'
      BY <1>1, <2>2, FreeSlots
    <2>8. NoAliasNoLeak'
      BY <2>4, <2>5, <2>6, <2>7, Covered
    <2>9. FreePacketsEmpty'
      BY <1>1, <2>2 DEF IInv, TypeOK, FreePacketsEmpty
    <2>10. NoFreelistOverflow' /\ ExhaustedWhenInUse'
      BY <1>1 DEF allocate, Ready, NoFreelistOverflow, ExhaustedWhenInUse
    <2>11. IsFiniteSet(inUse') /\ Cardinality(inUse') = Cardinality(inUse) + 1
      BY <1>1, <2>2, FS_AddElement DEF IInv
    <2>12. nfree' + Cardinality(inUse') = allocated'
      BY <1>1, <2>11, Levels
    <2> QED
      BY <1>1, <2>3, <2>8, <2>9, <2>10, <2>11, <2>12 DEF IInv
  <1>2. CASE /\ nfree = 0 /\ Grow /\ nfree' = step - 1
             /\ inUse' = inUse \cup {allocated + step}
             /\ length' = [length EXCEPT ![allocated + step] = n]
             /\ UNCHANGED <<frees, target, panic>>
    <2>1. nfree' \in 0..MAX_PACKETS /\ allocated' \in 0..MAX_PACKETS
      BY <1>2, GrowFacts, Levels
    <2>2. allocated + step \in Packet /\ allocated + step \notin inUse
      BY <1>2, GrowFacts, FreeSlots, Levels DEF Packet
    <2>3. TypeOK'
      BY <1>2, <2>1, <2>2, GrowFacts DEF IInv, TypeOK
    <2>4. \A i \in 0..(nfree' - 1) : list'[i] = allocated + i + 1
      BY <1>2, GrowFacts, Levels
    <2>5. \A i, j \in 0..(nfree' - 1) : list'[i] = list'[j] => i = j
      BY <2>4, Levels
    <2>6. \A i \in 0..(nfree' - 1) : list'[i] \in 1..allocated' /\ list'[i] \notin inUse'
      BY <1>2, <2>4, GrowFacts, FreeSlots, Levels
    <2>7. \A p \in 1..allocated' : p \notin inUse' => \E i \in 0..(nfree' - 1) : list'[i] = p
      <3> SUFFICES ASSUME NEW p \in 1..allocated', p \notin inUse'
                   PROVE  \E i \in 0..(nfree' - 1) : list'[i] = p
        OBVIOUS
      <3>1. p \notin 1..allocated
        BY <1>2, FreeSlots
      <3>2. p - allocated - 1 \in 0..(nfree' - 1)
        BY <1>2, <3>1, GrowFacts, Levels
      <3> QED
        BY <3>2, <2>4, Levels
    <2>8. inUse' \subseteq 1..allocated'
      BY <1>2, GrowFacts, FreeSlots, Levels
    <2>9. NoAliasNoLeak'
      BY <2>5, <2>6, <2>7, <2>8, Covered
    <2>10. FreePacketsEmpty'
      BY <1>2, <2>2 DEF IInv, TypeOK, FreePacketsEmpty
    <2>11. NoFreelistOverflow' /\ ExhaustedWhenInUse'
      BY <1>2 DEF allocate, Ready, NoFreelistOverflow, ExhaustedWhenInUse
    <2>12. IsFiniteSet(inUse') /\ Cardinality(inUse') = Cardinality(inUse) + 1
      BY <1>2, <2>2, FS_AddElement DEF IInv
    <2>13. nfree' + Cardinality(inUse') = allocated'
      BY <1>2, <2>12, GrowFacts, Levels
    <2> QED
      BY <1>2, <2>3, <2>9, <2>10, <2>11, <2>12, <2>13, GrowFacts DEF IInv
  <1>3. CASE nfree = 0 /\ NoRoom /\ Die("Packet allocation overflow")
    <2>1. inUse = 1..allocated
      <3>0. nfree = 0
        BY <1>3
      <3>1. ~\E i \in 0..(nfree - 1) : TRUE
        BY <3>0
      <3>2. \A q \in 1..allocated : q \in inUse
        BY <3>1, FreeSlots
      <3> QED
        BY <3>2, FreeSlots
    <2>2. ExhaustedWhenInUse'
      BY <1>3, <2>1, NoRoomMeansHalf DEF ExhaustedWhenInUse, Die
    <2> QED
      BY <1>3, <2>2, DieStep
  <1> QED
    BY <1>1, <1>2, <1>3 DEF allocate

\* free of a packet in use finds room on the freelist.
LEMMA FreeFacts ==
  ASSUME IInv, NEW p, free(p)
  PROVE  /\ p \in inUse /\ p \in 1..allocated /\ p \in Packet /\ panic = "none"
         /\ IsFiniteSet(inUse \ {p}) /\ Cardinality(inUse \ {p}) = Cardinality(inUse) - 1
         /\ nfree < MAX_PACKETS
         /\ list' = [list EXCEPT ![nfree] = p] /\ nfree' = nfree + 1
         /\ length' = [length EXCEPT ![p] = 0] /\ inUse' = inUse \ {p}
         /\ frees' = frees + 1 /\ UNCHANGED <<allocated, step, target, panic>>
  <1>1. p \in inUse /\ p \in 1..allocated /\ p \in Packet /\ panic = "none"
    <2>1. p \in inUse /\ panic = "none"
      BY DEF free, Ready
    <2>2. inUse \subseteq Packet /\ inUse \subseteq 1..allocated
      BY FreeSlots DEF IInv, TypeOK
    <2> QED
      BY <2>1, <2>2
  <1>2. IsFiniteSet(inUse \ {p}) /\ Cardinality(inUse \ {p}) = Cardinality(inUse) - 1
    BY <1>1, FS_RemoveElement DEF IInv
  <1>3. Cardinality(inUse \ {p}) \in Nat
    BY <1>2, FS_CardinalityType
  <1>4. nfree < MAX_PACKETS
    BY <1>2, <1>3, Levels
  <1>5. nfree # MAX_PACKETS
    BY <1>4, Levels
  <1> QED
    BY <1>1, <1>2, <1>4, <1>5 DEF free, Push

LEMMA FreeStep ==
  ASSUME IInv, NEW p, free(p)
  PROVE  IInv'
  <1>1. p \in inUse /\ p \in 1..allocated /\ p \in Packet /\ panic = "none"
    BY FreeFacts
  <1>2. IsFiniteSet(inUse \ {p}) /\ Cardinality(inUse \ {p}) = Cardinality(inUse) - 1
    BY FreeFacts
  <1>4. nfree < MAX_PACKETS
    BY FreeFacts
  <1>5. /\ list' = [list EXCEPT ![nfree] = p] /\ nfree' = nfree + 1
        /\ length' = [length EXCEPT ![p] = 0] /\ inUse' = inUse \ {p}
        /\ frees' = frees + 1 /\ UNCHANGED <<allocated, step, target, panic>>
    BY FreeFacts
  <1>6. nfree \in Index /\ nfree' \in 0..MAX_PACKETS
    BY <1>4, <1>5, Levels DEF Index
  <1>7. list'[nfree] = p /\ \A i \in 0..(nfree - 1) : list'[i] = list[i]
    <2>1. list \in [Index -> Packet \cup {NullPtr}]
      BY DEF IInv, TypeOK
    <2>2. \A i \in 0..(nfree - 1) : i \in Index /\ i # nfree
      BY FreeSlots, Levels
    <2> QED
      BY <1>5, <1>6, <2>1, <2>2
  <1>8. TypeOK'
    BY <1>1, <1>5, <1>6 DEF IInv, TypeOK
  <1>9. \A i \in 0..(nfree' - 1) : i = nfree \/ i \in 0..(nfree - 1)
    BY <1>5, Levels
  <1>10. \A i, j \in 0..(nfree' - 1) : list'[i] = list'[j] => i = j
    BY <1>1, <1>7, <1>9, FreeSlots DEF IInv, NoAliasNoLeak
  <1>11. \A i \in 0..(nfree' - 1) : list'[i] \in 1..allocated' /\ list'[i] \notin inUse'
    BY <1>1, <1>5, <1>7, <1>9, FreeSlots
  <1>12. \A q \in 1..allocated' : q \notin inUse' => \E i \in 0..(nfree' - 1) : list'[i] = q
    <2> SUFFICES ASSUME NEW q \in 1..allocated', q \notin inUse'
                 PROVE  \E i \in 0..(nfree' - 1) : list'[i] = q
      OBVIOUS
    <2>1. CASE q = p
      BY <2>1, <1>5, <1>7, Levels
    <2>2. CASE q # p
      <3>1. PICK i \in 0..(nfree - 1) : list[i] = q
        BY <2>2, <1>5, FreeSlots
      <3> QED
        BY <3>1, <1>5, <1>7, Levels
    <2> QED
      BY <2>1, <2>2
  <1>13. inUse' \subseteq 1..allocated'
    BY <1>5, FreeSlots
  <1>14. NoAliasNoLeak'
    BY <1>10, <1>11, <1>12, <1>13, Covered
  <1>15. FreePacketsEmpty'
    BY <1>1, <1>5 DEF IInv, TypeOK, FreePacketsEmpty
  <1>16. NoFreelistOverflow' /\ ExhaustedWhenInUse'
    BY <1>1, <1>5 DEF NoFreelistOverflow, ExhaustedWhenInUse
  <1>17. nfree' + Cardinality(inUse') = allocated'
    BY <1>2, <1>5, Levels
  <1> QED
    BY <1>2, <1>5, <1>8, <1>14, <1>15, <1>16, <1>17 DEF IInv

LEMMA StutterStep ==
  ASSUME IInv, UNCHANGED vars
  PROVE  IInv'
  <1>1. NoAliasNoLeak' /\ FreePacketsEmpty'
    BY SamePackets DEF vars
  <1>2. TypeOK' /\ NoFreelistOverflow' /\ ExhaustedWhenInUse'
    BY DEF IInv, vars, TypeOK, NoFreelistOverflow, ExhaustedWhenInUse
  <1> QED
    BY <1>1, <1>2 DEF IInv, vars

LEMMA AbortStep ==
  ASSUME IInv, Abort
  PROVE  IInv'
  BY DieStep DEF Abort, Die, ExhaustedWhenInUse

\* packet.rs: whatever its users do, the freelist, the packets in use and the
\* growing step keep to IInv, for every MAX_PACKETS and first step.
THEOREM PoolInvariant == Spec => []IInv
  <1>1. Init => IInv
    BY InitIInv
  <1>2. IInv /\ [Next]_vars => IInv'
    BY PreallocateStep, PreallocateLoopStep, AllocateStep, FreeStep, StutterStep,
       AbortStep, LengthsAssumption
    DEF Next
  <1> QED
    BY <1>1, <1>2, PTL DEF Spec

\* packet.rs, allocate: "this Box does not alias another packet", and no packet
\* is lost, whatever sequence of allocate, clone, free and preallocate runs.
THEOREM PoolNeverAliases == Spec => []NoAliasNoLeak
  <1>1. IInv => NoAliasNoLeak
    BY DEF IInv
  <1> QED
    BY <1>1, PoolInvariant, PTL

\* packet.rs, preallocate_step: "Packet allocation overflow" means that all the
\* packets made are in use (or more were asked for) and, as the step doubles,
\* that they are about half of MAX_PACKETS or more.
THEOREM PoolExhaustedWhenInUse == Spec => []ExhaustedWhenInUse
  <1>1. IInv => ExhaustedWhenInUse
    BY DEF IInv
  <1> QED
    BY <1>1, PoolInvariant, PTL

-----------------------------------------------------------------------------
(* The network.                                                            *)

\* Every packet in use is at one place of one link or of the scope.
Held ==
  /\ link \in [LinkName -> Seq(Packet)] /\ hand \in Seq(Packet)
  /\ \A p \in inUse : p \in Range(hand) \/ \E l \in LinkName : p \in Range(link[l])
  /\ \A l \in LinkName : Range(link[l]) \subseteq inUse /\ IsInjective(link[l])
  /\ \A l \in LinkName : \A p \in Range(hand) : p \notin Range(link[l])
  /\ \A l, m \in LinkName : l # m => \A p \in Range(link[l]) : p \notin Range(link[m])
  /\ Range(hand) \subseteq inUse /\ IsInjective(hand)

\* Frames have a length, callbacks are those of apps, at links.
Callback == [app : App, op : {"pull", "push"}]
Loop == /\ rx \in [App -> Seq(Nat)] /\ coming \in [App -> Seq(Nat)]
        /\ todo \in Seq(Callback)
        /\ at \in LinkName \cup {NoLink} /\ outs \subseteq LinkName

\* A packet is in scope only while a callback other than RawSocket's push is at
\* a link, and a Join that is at a link has somewhere to send packets to.
Scope ==
  /\ hand # << >> => /\ at # NoLink
                     /\ ~(Kind[todo[1].app] = "RawSocket" /\ todo[1].op = "push")
  /\ at # NoLink \/ left # {} =>
       /\ todo # << >>
       /\ Kind[todo[1].app] = "Join" /\ todo[1].op = "push" => Out[todo[1].app] # {}

BreathInv == IInv /\ Held /\ Loop /\ Scope

-----------------------------------------------------------------------------
(* Sequences without repetition.                                           *)

LEMMA TailOf ==
  ASSUME NEW s \in Seq(Packet), s # << >>, IsInjective(s)
  PROVE  /\ Head(s) \in Packet /\ Head(s) \in Range(s) /\ Tail(s) \in Seq(Packet)
         /\ Range(Tail(s)) = Range(s) \ {Head(s)} /\ IsInjective(Tail(s))
  <1>1. Len(s) \in Nat \ {0} /\ DOMAIN s = 1..Len(s) /\ Head(s) = s[1]
    OBVIOUS
  <1>2. Head(s) \in Packet /\ Head(s) \in Range(s)
    BY <1>1 DEF Range
  <1>3. /\ Tail(s) \in Seq(Packet) /\ DOMAIN Tail(s) = 1..(Len(s) - 1)
        /\ \A i \in 1..(Len(s) - 1) : Tail(s)[i] = s[i + 1]
    BY <1>1
  <1>4. IsInjective(Tail(s))
    BY <1>1, <1>3 DEF IsInjective
  <1>5. \A x \in Range(Tail(s)) : x \in Range(s) \ {Head(s)}
    BY <1>1, <1>3 DEF Range, IsInjective
  <1>6. \A x \in Range(s) \ {Head(s)} : x \in Range(Tail(s))
    <2> SUFFICES ASSUME NEW i \in 1..Len(s), i # 1
                 PROVE  s[i] \in Range(Tail(s))
      BY <1>1 DEF Range
    <2>1. i - 1 \in 1..(Len(s) - 1) /\ Tail(s)[i - 1] = s[i]
      BY <1>1, <1>3
    <2> QED
      BY <2>1, <1>3 DEF Range
  <1> QED
    BY <1>2, <1>3, <1>4, <1>5, <1>6

LEMMA FrontOf ==
  ASSUME NEW s \in Seq(Packet), s # << >>, IsInjective(s)
  PROVE  /\ Last(s) \in Packet /\ Last(s) \in Range(s) /\ Front(s) \in Seq(Packet)
         /\ Range(Front(s)) = Range(s) \ {Last(s)} /\ IsInjective(Front(s))
  <1>1. Len(s) \in Nat \ {0} /\ DOMAIN s = 1..Len(s) /\ Last(s) = s[Len(s)]
    BY DEF Last
  <1>2. Last(s) \in Packet /\ Last(s) \in Range(s)
    BY <1>1 DEF Range
  <1>3. /\ Front(s) \in Seq(Packet) /\ DOMAIN Front(s) = 1..(Len(s) - 1)
        /\ \A i \in 1..(Len(s) - 1) : Front(s)[i] = s[i]
    BY <1>1 DEF Front
  <1>4. IsInjective(Front(s))
    BY <1>1, <1>3 DEF IsInjective
  <1>5. \A x \in Range(Front(s)) : x \in Range(s) \ {Last(s)}
    BY <1>1, <1>3 DEF Range, IsInjective
  <1>6. \A x \in Range(s) \ {Last(s)} : x \in Range(Front(s))
    <2> SUFFICES ASSUME NEW i \in 1..Len(s), i # Len(s)
                 PROVE  s[i] \in Range(Front(s))
      BY <1>1 DEF Range
    <2> DEFINE n == Len(s)
    <2>1. n \in Nat /\ i \in 1..n /\ i # n
      BY <1>1
    <2> HIDE DEF n
    <2>2. i \in 1..(n - 1)
      BY <2>1
    <2> QED
      BY <2>2, <1>3 DEF Range, n
  <1> QED
    BY <1>2, <1>3, <1>4, <1>5, <1>6

LEMMA AppendOf ==
  ASSUME NEW s \in Seq(Packet), NEW x \in Packet, x \notin Range(s), IsInjective(s)
  PROVE  /\ Append(s, x) \in Seq(Packet)
         /\ Range(Append(s, x)) = Range(s) \cup {x} /\ IsInjective(Append(s, x))
  <1>1. Len(s) \in Nat /\ DOMAIN s = 1..Len(s)
    OBVIOUS
  <1>2. /\ Append(s, x) \in Seq(Packet) /\ DOMAIN Append(s, x) = 1..(Len(s) + 1)
        /\ \A i \in 1..Len(s) : Append(s, x)[i] = s[i]
        /\ Append(s, x)[Len(s) + 1] = x
    BY <1>1
  <1>3. \A i \in 1..(Len(s) + 1) : i \in 1..Len(s) \/ i = Len(s) + 1
    BY <1>1
  <1>4. \A i \in 1..Len(s) : s[i] # x
    BY <1>1 DEF Range
  <1>5. IsInjective(Append(s, x))
    BY <1>1, <1>2, <1>3, <1>4 DEF IsInjective
  <1>6. \A y \in Range(Append(s, x)) : y \in Range(s) \cup {x}
    BY <1>1, <1>2, <1>3 DEF Range
  <1>7. \A i \in 1..Len(s) : i \in 1..(Len(s) + 1)
    BY <1>1
  <1>8. Len(s) + 1 \in 1..(Len(s) + 1)
    BY <1>1
  <1>9. \A y \in Range(s) \cup {x} : y \in Range(Append(s, x))
    BY <1>1, <1>2, <1>7, <1>8 DEF Range
  <1> QED
    BY <1>2, <1>5, <1>6, <1>9

LEMMA NoPackets ==
  ASSUME NEW s \in Seq(Packet), Len(s) = 0
  PROVE  Range(s) = {} /\ IsInjective(s)
  <1>1. \A i \in DOMAIN s : FALSE
    OBVIOUS
  <1>2. Range(s) = {}
    BY <1>1 DEF Range
  <1>3. IsInjective(s)
    BY <1>1 DEF IsInjective
  <1> QED
    BY <1>2, <1>3

LEMMA OneSeq ==
  ASSUME NEW x \in Packet
  PROVE  /\ <<x>> \in Seq(Packet) /\ <<x>> # << >>
         /\ Range(<<x>>) = {x} /\ IsInjective(<<x>>)
  <1>1. DOMAIN <<x>> = {1} /\ <<x>>[1] = x /\ <<x>> \in Seq(Packet) /\ <<x>> # << >>
    OBVIOUS
  <1> QED
    BY <1>1 DEF Range, IsInjective

LEMMA HeldMeansOneHolder ==
  ASSUME BreathInv
  PROVE  OneHolder
  <1>1. todo = << >> => hand = << >>
    BY DEF BreathInv, Scope
  <1>2. \A l \in LinkName : /\ Range(link[l]) \subseteq inUse \ Range(hand)
                            /\ IsInjective(link[l])
    BY DEF BreathInv, Held
  <1>3. \A l, m \in LinkName : l # m => Range(link[l]) \cap Range(link[m]) = {}
    BY DEF BreathInv, Held
  <1>4. \A p \in inUse : (\E l \in LinkName : p \in Range(link[l])) \/ p \in Range(hand)
    BY DEF BreathInv, Held
  <1>5. Range(hand) \subseteq inUse /\ IsInjective(hand)
    BY DEF BreathInv, Held
  <1>6. \A l \in LinkName : \A m \in LinkName \ {l} : Range(link[l]) \cap Range(link[m]) = {}
    BY <1>3
  <1> QED
    BY <1>1, <1>2, <1>4, <1>5, <1>6 DEF OneHolder

-----------------------------------------------------------------------------

LEMMA InitBreathInv ==
  ASSUME BreathInit
  PROVE  BreathInv
  <1>1. IInv
    BY InitIInv DEF BreathInit
  <1>2. Arrivals \in [App -> Seq(Nat)]
    BY NetworkAssumption
  <1>3. << >> \in Seq(Nat) /\ << >> \in Seq(Callback)
    OBVIOUS
  <1>4. Loop
    BY <1>2, <1>3 DEF BreathInit, Loop
  <1>5. Scope
    BY DEF BreathInit, Scope
  <1>6. << >> \in Seq(Packet)
    OBVIOUS
  <1>7. /\ hand \in Seq(Packet) /\ Len(hand) = 0 /\ inUse = {}
        /\ link \in [LinkName -> Seq(Packet)] /\ \A l \in LinkName : Len(link[l]) = 0
    BY <1>6 DEF BreathInit, Init
  <1>8. Range(hand) = {} /\ IsInjective(hand)
    BY <1>7, NoPackets
  <1>9. \A l \in LinkName : Range(link[l]) = {} /\ IsInjective(link[l])
    BY <1>7, NoPackets
  <1>10. Held
    BY <1>7, <1>8, <1>9 DEF Held
  <1> QED
    BY <1>1, <1>4, <1>5, <1>10 DEF BreathInv

LEMMA CallbacksType == Callbacks \in Seq(Callback) /\ Callbacks # << >>
  <1>1. ASSUME NEW s \in Seq(App), NEW o \in {"pull", "push"}
        PROVE  /\ [i \in DOMAIN s |-> [app |-> s[i], op |-> o]] \in Seq(Callback)
               /\ Len([i \in DOMAIN s |-> [app |-> s[i], op |-> o]]) = Len(s)
    <2>1. Len(s) \in Nat /\ DOMAIN s = 1..Len(s)
      OBVIOUS
    <2>2. \A i \in 1..Len(s) : [app |-> s[i], op |-> o] \in Callback
      BY <2>1 DEF Callback
    <2> QED
      BY <2>1, <2>2
  <1> DEFINE ins == [i \in DOMAIN Inhale |-> [app |-> Inhale[i], op |-> "pull"]]
             exs == [i \in DOMAIN Exhale |-> [app |-> Exhale[i], op |-> "push"]]
  <1>2. Inhale \in Seq(App) /\ Exhale \in Seq(App) /\ Len(Inhale) \in Nat /\ Len(Inhale) # 0
    BY NetworkAssumption
  <1>3. ins \in Seq(Callback) /\ Len(ins) # 0
    BY <1>1, <1>2
  <1>4. exs \in Seq(Callback)
    BY <1>1, <1>2
  <1>5. Callbacks = ins \o exs
    BY DEF Callbacks
  <1> HIDE DEF ins, exs
  <1>6. ins \o exs \in Seq(Callback) /\ Len(ins \o exs) = Len(ins) + Len(exs)
    BY <1>3, <1>4
  <1> QED
    BY <1>3, <1>4, <1>5, <1>6

-----------------------------------------------------------------------------
(* What the apps' loops are made of keeps every packet with one holder.    *)

LEMMA SameHeld ==
  ASSUME Held, UNCHANGED <<link, hand, inUse>>
  PROVE  Held'
  BY DEF Held

LEMMA ReceiveHeld ==
  ASSUME Held, IInv, at \in LinkName, Receive
  PROVE  Held'
  <1> DEFINE p == Head(link[at])
  <1>1. link[at] \in Seq(Packet) /\ link[at] # << >> /\ IsInjective(link[at])
    BY DEF Held, Receive
  <1>2. /\ p \in Packet /\ p \in Range(link[at]) /\ Tail(link[at]) \in Seq(Packet)
        /\ Range(Tail(link[at])) = Range(link[at]) \ {p} /\ IsInjective(Tail(link[at]))
    BY <1>1, TailOf
  <1>3. /\ link' \in [LinkName -> Seq(Packet)] /\ link'[at] = Tail(link[at])
        /\ \A l \in LinkName \ {at} : link'[l] = link[l]
    BY <1>2 DEF Held, Receive
  <1>4. /\ hand' \in Seq(Packet) /\ Range(hand') = {p} /\ IsInjective(hand')
    BY <1>2, OneSeq DEF Receive
  <1>5. Range(hand) = {}
    <2>1. hand \in Seq(Packet) /\ Len(hand) = 0
      BY DEF Receive, Held
    <2> QED
      BY <2>1, NoPackets
  <1>6. inUse' = inUse
    BY DEF Receive, vars
  <1> HIDE DEF p
  <1>7. \A q \in inUse' : q \in Range(hand') \/ \E l \in LinkName : q \in Range(link'[l])
    <2> TAKE q \in inUse'
    <2>1. PICK l \in LinkName : q \in Range(link[l])
      BY <1>5, <1>6 DEF Held
    <2> QED
      BY <2>1, <1>2, <1>3, <1>4
  <1>8. \A l \in LinkName : Range(link'[l]) \subseteq Range(link[l]) /\ IsInjective(link'[l])
    BY <1>2, <1>3 DEF Held
  <1>9. \A l \in LinkName : p \notin Range(link'[l])
    BY <1>2, <1>3 DEF Held
  <1>10. \A l, m \in LinkName : l # m => \A q \in Range(link'[l]) : q \notin Range(link'[m])
    BY <1>8 DEF Held
  <1>11. Range(hand') \subseteq inUse'
    BY <1>2, <1>4, <1>6 DEF Held
  <1>12. \A l \in LinkName : Range(link'[l]) \subseteq inUse'
    BY <1>6, <1>8 DEF Held
  <1> QED
    BY <1>3, <1>4, <1>7, <1>8, <1>9, <1>10, <1>11, <1>12 DEF Held

LEMMA TransmitHeld ==
  ASSUME Held, IInv, NEW l \in LinkName, hand # << >>, Transmit(l)
  PROVE  Held' /\ IInv'
  <1> DEFINE p == Last(hand)
  <1>1. /\ p \in Packet /\ p \in Range(hand) /\ Front(hand) \in Seq(Packet)
        /\ Range(Front(hand)) = Range(hand) \ {p} /\ IsInjective(Front(hand))
    BY FrontOf DEF Held
  <1>2. hand' = Front(hand)
    BY DEF Transmit
  <1>3. CASE Len(link[l]) < LINK_MAX_PACKETS
    <2>1. link' = [link EXCEPT ![l] = Append(@, p)] /\ UNCHANGED vars
      BY <1>3 DEF Transmit
    <2>2. /\ Append(link[l], p) \in Seq(Packet) /\ IsInjective(Append(link[l], p))
          /\ Range(Append(link[l], p)) = Range(link[l]) \cup {p}
      BY <1>1, AppendOf DEF Held
    <2>3. /\ link' \in [LinkName -> Seq(Packet)] /\ link'[l] = Append(link[l], p)
          /\ \A m \in LinkName \ {l} : link'[m] = link[m]
      BY <2>1, <2>2 DEF Held
    <2>4. inUse' = inUse /\ IInv'
      BY <2>1, StutterStep DEF vars
    <2> HIDE DEF p
    <2>5. \A q \in Range(hand) : q \in Range(hand') \/ q \in Range(link'[l])
      BY <1>1, <1>2, <2>2, <2>3
    <2>6. \A m \in LinkName : Range(link[m]) \subseteq Range(link'[m])
      BY <2>2, <2>3
    <2>7. \A q \in inUse' : q \in Range(hand') \/ \E m \in LinkName : q \in Range(link'[m])
      BY <2>4, <2>5, <2>6 DEF Held
    <2>8. \A m \in LinkName : Range(link'[m]) \subseteq inUse' /\ IsInjective(link'[m])
      <3>1. Range(link'[l]) \subseteq inUse' /\ IsInjective(link'[l])
        BY <1>1, <2>2, <2>3, <2>4 DEF Held
      <3>2. \A m \in LinkName \ {l} : Range(link'[m]) \subseteq inUse' /\ IsInjective(link'[m])
        BY <2>3, <2>4 DEF Held
      <3> QED
        BY <3>1, <3>2
    <2>9. \A m \in LinkName : \A q \in Range(hand') : q \notin Range(link'[m])
      BY <1>1, <1>2, <2>2, <2>3 DEF Held
    <2>10. \A m, k \in LinkName : m # k => \A q \in Range(link'[m]) : q \notin Range(link'[k])
      <3>1. \A m \in LinkName \ {l} : \A q \in Range(link'[m]) : q \notin Range(link'[l])
        BY <1>1, <2>2, <2>3 DEF Held
      <3>2. \A m, k \in LinkName \ {l} :
              m # k => \A q \in Range(link'[m]) : q \notin Range(link'[k])
        BY <2>3 DEF Held
      <3> QED
        BY <3>1, <3>2
    <2>11. Range(hand') \subseteq inUse' /\ IsInjective(hand') /\ hand' \in Seq(Packet)
      BY <1>1, <1>2, <2>4 DEF Held
    <2> QED
      BY <2>3, <2>4, <2>7, <2>8, <2>9, <2>10, <2>11 DEF Held
  <1>4. CASE ~(Len(link[l]) < LINK_MAX_PACKETS)
    <2>1. free(p) /\ link' = link
      BY <1>4 DEF Transmit
    <2>2. inUse' = inUse \ {p} /\ IInv'
      BY <2>1, FreeFacts, FreeStep
    <2> HIDE DEF p
    <2> QED
      BY <1>1, <1>2, <2>1, <2>2 DEF Held
  <1> QED
    BY <1>3, <1>4

LEMMA FreeHeld ==
  ASSUME Held, IInv, hand # << >>, Free
  PROVE  Held' /\ IInv'
  <1> DEFINE p == Last(hand)
  <1>1. /\ p \in Packet /\ p \in Range(hand) /\ Front(hand) \in Seq(Packet)
        /\ Range(Front(hand)) = Range(hand) \ {p} /\ IsInjective(Front(hand))
    BY FrontOf DEF Held
  <1>2. free(p) /\ hand' = Front(hand) /\ link' = link
    BY DEF Free
  <1>3. inUse' = inUse \ {p} /\ IInv'
    BY <1>2, FreeFacts, FreeStep
  <1> HIDE DEF p
  <1> QED
    BY <1>1, <1>2, <1>3 DEF Held

LEMMA AllocateFacts ==
  ASSUME IInv, NEW n \in Nat, allocate(n)
  PROVE  /\ panic' = "none" => /\ Newest \in Packet /\ Newest \notin inUse
                               /\ inUse' = inUse \cup {Newest}
         /\ panic' # "none" => inUse' = inUse
  <1>0. panic = "none"
    BY DEF allocate, Ready
  <1>1. CASE /\ nfree > 0 /\ inUse' = inUse \cup {list[nfree - 1]} /\ UNCHANGED panic
    <2>1. panic' = "none" /\ Newest = list[nfree - 1]
      BY <1>0, <1>1 DEF Newest
    <2>2. nfree - 1 \in 0..(nfree - 1)
      BY <1>1, Levels
    <2>3. list[nfree - 1] \in 1..allocated /\ list[nfree - 1] \notin inUse
      BY <2>2, FreeSlots
    <2>4. 1..allocated \subseteq Packet
      BY Levels DEF Packet
    <2> QED
      BY <1>1, <2>1, <2>3, <2>4
  <1>2. CASE nfree = 0 /\ Grow /\ inUse' = inUse \cup {allocated + step} /\ UNCHANGED panic
    <2>1. /\ Newest = allocated + step /\ allocated + step \in Packet
          /\ allocated + step \notin 1..allocated
      BY <1>2, GrowFacts, Levels DEF Newest, Packet
    <2>2. allocated + step \notin inUse
      BY <2>1, FreeSlots
    <2> QED
      BY <1>0, <1>2, <2>1, <2>2
  <1>3. CASE Die("Packet allocation overflow")
    BY <1>3 DEF Die
  <1> QED
    BY <1>1, <1>2, <1>3 DEF allocate

LEMMA TakeHeld ==
  ASSUME Held, IInv, NEW n \in Nat, allocate(n), link' = link,
         panic' = "none" => hand' = Append(hand, Newest),
         panic' # "none" => hand' = hand
  PROVE  Held' /\ IInv'
  <1>1. IInv'
    BY AllocateStep
  <1>2. CASE panic' = "none"
    <2>1. Newest \in Packet /\ Newest \notin inUse /\ inUse' = inUse \cup {Newest}
      BY <1>2, AllocateFacts
    <2>2. Newest \notin Range(hand) /\ \A l \in LinkName : Newest \notin Range(link[l])
      BY <2>1 DEF Held
    <2>3. /\ hand' \in Seq(Packet) /\ Range(hand') = Range(hand) \cup {Newest}
          /\ IsInjective(hand')
      <3>1. hand \in Seq(Packet) /\ IsInjective(hand)
        BY DEF Held
      <3> QED
        BY <1>2, <2>1, <2>2, <3>1, AppendOf
    <2> QED
      BY <1>1, <2>1, <2>2, <2>3 DEF Held
  <1>3. CASE panic' # "none"
    BY <1>1, <1>3, AllocateFacts, SameHeld
  <1> QED
    BY <1>2, <1>3

LEMMA WriteHeld ==
  ASSUME Held, IInv, at \in LinkName, Write
  PROVE  Held' /\ IInv'
  <1> DEFINE p == Head(link[at])
  <1>1. /\ p \in Packet /\ p \in Range(link[at]) /\ Tail(link[at]) \in Seq(Packet)
        /\ Range(Tail(link[at])) = Range(link[at]) \ {p} /\ IsInjective(Tail(link[at]))
    BY TailOf DEF Held, Write
  <1>2. free(p) /\ hand' = hand /\ link' = [link EXCEPT ![at] = Tail(@)]
    BY DEF Write
  <1>3. inUse' = inUse \ {p} /\ IInv'
    BY <1>2, FreeFacts, FreeStep
  <1>4. /\ link' \in [LinkName -> Seq(Packet)] /\ link'[at] = Tail(link[at])
        /\ \A l \in LinkName \ {at} : link'[l] = link[l]
    BY <1>1, <1>2 DEF Held
  <1> HIDE DEF p
  <1> QED
    BY <1>1, <1>2, <1>3, <1>4 DEF Held

-----------------------------------------------------------------------------
(* The loops themselves.                                                   *)

LEMMA SameAll ==
  ASSUME BreathInv, UNCHANGED <<vars, link, hand, rx, coming, todo, at, outs, left>>
  PROVE  BreathInv'
  <1>1. IInv'
    BY StutterStep DEF BreathInv
  <1>2. Held'
    BY SameHeld DEF BreathInv, vars
  <1>3. Loop' /\ Scope'
    BY DEF BreathInv, Loop, Scope
  <1> QED
    BY <1>1, <1>2, <1>3 DEF BreathInv

LEMMA RunningFacts ==
  ASSUME Loop, NEW kind, NEW op, Running(kind, op)
  PROVE  /\ at \in LinkName /\ Self \in App /\ todo # << >>
         /\ Kind[Self] = kind /\ todo[1].op = op /\ Ready
  <1>1. todo[1] \in Callback
    BY DEF Loop, Running
  <1> QED
    BY <1>1 DEF Loop, Running, Self, Callback

\* A round of a loop other than RawSocket's push stays at its link.
LEMMA RoundScope ==
  ASSUME Scope, NEW kind, NEW op, Running(kind, op), kind # "RawSocket" \/ op # "push",
         UNCHANGED <<todo, at, left>>
  PROVE  Scope'
  BY DEF Scope, Running

LEMMA LeaveInv ==
  ASSUME BreathInv, hand = << >>, at # NoLink, Leave, UNCHANGED <<rx, coming>>
  PROVE  BreathInv'
  <1>1. IInv'
    BY StutterStep DEF BreathInv, Leave
  <1>2. Held'
    BY SameHeld DEF BreathInv, Leave, vars
  <1>3. Loop' /\ Scope'
    BY DEF BreathInv, Leave, Loop, Scope
  <1> QED
    BY <1>1, <1>2, <1>3 DEF BreathInv

LEMMA VisitsFacts ==
  ASSUME NEW cb \in Callback, Visits(cb) # {}
  PROVE  Kind[cb.app] = "Join" /\ cb.op = "push" => Out[cb.app] # {}
  BY DEF Visits, Callback

LEMMA BreatheInv ==
  ASSUME BreathInv, breathe
  PROVE  BreathInv'
  <1>1. IInv' /\ Held'
    BY StutterStep, SameHeld DEF BreathInv, breathe, vars
  <1>2. at = NoLink /\ hand = << >>
    BY DEF BreathInv, breathe, Scope
  <1>3. Callbacks \in Seq(Callback) /\ Callbacks # << >> /\ Callbacks[1] \in Callback
    <2>1. Callbacks \in Seq(Callback) /\ Callbacks # << >>
      BY CallbacksType
    <2> QED
      BY <2>1
  <1>4. Loop'
    BY <1>3 DEF BreathInv, breathe, Loop, ioVars
  <1>5. Scope'
    BY <1>2, <1>3, VisitsFacts DEF breathe, Scope
  <1> QED
    BY <1>1, <1>4, <1>5 DEF BreathInv

LEMMA VisitInv ==
  ASSUME BreathInv, NEW l \in LinkName, Visit(l)
  PROVE  BreathInv'
  <1>1. IInv' /\ Held'
    BY StutterStep, SameHeld DEF BreathInv, Visit, vars
  <1>2. Loop' /\ Scope'
    BY DEF BreathInv, Visit, Loop, Scope, ioVars
  <1> QED
    BY <1>1, <1>2 DEF BreathInv

LEMMA ReturnInv ==
  ASSUME BreathInv, Return
  PROVE  BreathInv'
  <1>1. IInv' /\ Held'
    BY StutterStep, SameHeld DEF BreathInv, Return, vars
  <1>2. todo \in Seq(Callback) /\ todo # << >> /\ Len(todo) \in Nat /\ todo' = Tail(todo)
    BY DEF BreathInv, Loop, Return
  <1>3. Loop'
    BY <1>2 DEF BreathInv, Return, Loop, ioVars
  <1>4. hand' = << >> /\ at' = NoLink
    BY DEF BreathInv, Return, Scope
  <1>5. CASE Len(todo) > 1
    <2>1. todo' # << >> /\ todo'[1] = todo[2] /\ todo[2] \in Callback
      BY <1>2, <1>5
    <2>2. left' = Visits(todo[2])
      BY <1>5 DEF Return
    <2>3. Scope'
      BY <1>4, <2>1, <2>2, VisitsFacts DEF Scope
    <2> QED
      BY <1>1, <1>3, <2>3 DEF BreathInv
  <1>6. CASE ~(Len(todo) > 1)
    <2>1. left' = {}
      BY <1>6 DEF Return
    <2>2. Scope'
      BY <1>4, <2>1 DEF Scope
    <2> QED
      BY <1>1, <1>3, <2>2 DEF BreathInv
  <1> QED
    BY <1>5, <1>6

\* A round in which a packet is allocated; the process may end in it.
LEMMA TakeInv ==
  ASSUME BreathInv, NEW kind, NEW op, Running(kind, op), kind # "RawSocket" \/ op # "push",
         NEW n \in Nat, allocate(n), UNCHANGED <<link, coming, todo, at, left, outs>>,
         rx' \in [App -> Seq(Nat)],
         panic' = "none" => hand' = Append(hand, Newest),
         panic' # "none" => hand' = hand
  PROVE  BreathInv'
  <1>1. IInv' /\ Held'
    BY TakeHeld DEF BreathInv
  <1>2. Loop'
    BY DEF BreathInv, Loop
  <1>3. Scope'
    BY RoundScope DEF BreathInv
  <1> QED
    BY <1>1, <1>2, <1>3 DEF BreathInv

\* A round in which a packet comes from or goes to a link, or is freed.
LEMMA MoveInv ==
  ASSUME BreathInv, NEW kind, NEW op, Running(kind, op), kind # "RawSocket" \/ op # "push",
         UNCHANGED <<rx, coming, todo, at, left>>, outs' \subseteq LinkName,
         \/ Receive
         \/ hand # << >> /\ Free
         \/ hand # << >> /\ \E l \in LinkName : Transmit(l)
  PROVE  BreathInv'
  <1>1. IInv' /\ Held'
    <2>1. CASE Receive
      BY <2>1, RunningFacts, ReceiveHeld, StutterStep DEF BreathInv, Receive
    <2>2. CASE hand # << >> /\ Free
      BY <2>2, FreeHeld DEF BreathInv
    <2>3. CASE hand # << >> /\ \E l \in LinkName : Transmit(l)
      BY <2>3, TransmitHeld DEF BreathInv
    <2> QED
      BY <2>1, <2>2, <2>3
  <1>2. Loop'
    BY DEF BreathInv, Loop
  <1>3. Scope'
    BY RoundScope DEF BreathInv
  <1> QED
    BY <1>1, <1>2, <1>3 DEF BreathInv

LEMMA PullType ==
  ASSUME Loop, NEW kind, NEW op, Running(kind, op), rx[Self] # << >>
  PROVE  /\ Head(rx[Self]) \in Nat
         /\ [rx EXCEPT ![Self] = Tail(@)] \in [App -> Seq(Nat)]
  <1>1. rx[Self] \in Seq(Nat) /\ rx[Self] # << >> /\ Self \in App
    BY RunningFacts DEF Loop
  <1>2. Head(rx[Self]) \in Nat /\ Tail(rx[Self]) \in Seq(Nat)
    BY <1>1
  <1> QED
    BY <1>1, <1>2 DEF Loop

LEMMA RawSocketPullInv ==
  ASSUME BreathInv, RawSocketPull
  PROVE  BreathInv'
  <1>1. Running("RawSocket", "pull") /\ at \in LinkName /\ at # NoLink
    BY RunningFacts DEF RawSocketPull, BreathInv, Running
  <1>2. CASE /\ can_receive
             /\ Take(Head(rx[Self]),
                     /\ rx' = [rx EXCEPT ![Self] = Tail(@)]
                     /\ limit' = limit - 1
                     /\ UNCHANGED <<link, refused, todo, at, left, outs, paused, paceVars,
                                    coming, wire, made, blocked>>)
    <2>1. /\ Head(rx[Self]) \in Nat
          /\ [rx EXCEPT ![Self] = Tail(@)] \in [App -> Seq(Nat)]
      BY <1>1, <1>2, PullType DEF BreathInv, can_receive
    <2>2. CASE panic' = "none"
      <3>1. /\ allocate(Head(rx[Self])) /\ hand' = Append(hand, Newest)
            /\ rx' \in [App -> Seq(Nat)] /\ UNCHANGED <<link, coming, todo, at, left, outs>>
        BY <1>2, <2>1, <2>2 DEF Take
      <3> QED
        BY <1>1, <2>1, <2>2, <3>1, TakeInv
    <2>3. CASE panic' # "none"
      <3>1. /\ allocate(Head(rx[Self])) /\ UNCHANGED <<hand, rx>>
            /\ UNCHANGED <<link, coming, todo, at, left, outs>>
        BY <1>2, <2>3 DEF Take, breathVars, ioVars, loopVars
      <3>2. rx' \in [App -> Seq(Nat)]
        BY <3>1 DEF BreathInv, Loop
      <3> QED
        BY <1>1, <2>1, <2>3, <3>1, <3>2, TakeInv
    <2> QED
      BY <2>2, <2>3
  <1>3. CASE hand # << >> /\ Transmit(at) /\ Keep
    <2>1. UNCHANGED <<rx, coming, todo, at, left>> /\ outs' \subseteq LinkName
      BY <1>3 DEF Transmit, Keep, ioVars, BreathInv, Loop
    <2> QED
      BY <1>1, <1>3, <2>1, MoveInv
  <1>4. CASE hand = << >> /\ Leave /\ UNCHANGED ioVars
    BY <1>1, <1>4, LeaveInv DEF ioVars
  <1> QED
    BY <1>2, <1>3, <1>4 DEF RawSocketPull

LEMMA SourcePullInv ==
  ASSUME BreathInv, SourcePull
  PROVE  BreathInv'
  <1>1. Running("Source", "pull") /\ at \in LinkName /\ at # NoLink
    BY RunningFacts DEF SourcePull, BreathInv, Running
  <1>2. CASE Take(Size, /\ made' = made + 1
                        /\ limit' = limit - 1
                        /\ UNCHANGED <<link, refused, todo, at, left, outs, paused, paceVars,
                                       coming, rx, wire, blocked>>)
    <2>1. UNCHANGED <<link, coming, todo, at, left, outs, rx>> /\ allocate(Size)
      BY <1>2 DEF Take, breathVars, ioVars, loopVars
    <2>2. panic' = "none" => hand' = Append(hand, Newest)
      BY <1>2 DEF Take
    <2>3. panic' # "none" => hand' = hand
      BY <1>2 DEF Take, breathVars
    <2>4. rx' \in [App -> Seq(Nat)] /\ Size \in Nat
      BY <2>1, NetworkAssumption DEF BreathInv, Loop
    <2> QED
      BY <1>1, <2>1, <2>2, <2>3, <2>4, TakeInv
  <1>3. CASE hand # << >> /\ Transmit(at) /\ Keep
    <2>1. UNCHANGED <<rx, coming, todo, at, left>> /\ outs' \subseteq LinkName
      BY <1>3 DEF Transmit, Keep, ioVars, BreathInv, Loop
    <2> QED
      BY <1>1, <1>3, <2>1, MoveInv
  <1>4. CASE hand = << >> /\ Leave /\ UNCHANGED ioVars
    BY <1>1, <1>4, LeaveInv DEF ioVars
  <1> QED
    BY <1>2, <1>3, <1>4 DEF SourcePull

\* A round of Sink, Join or Loss: these leave the loop's state alone.
LEMMA KeepMoveInv ==
  ASSUME BreathInv, NEW kind, NEW op, Running(kind, op), kind # "RawSocket" \/ op # "push",
         Keep, UNCHANGED ioVars,
         \/ Receive
         \/ hand # << >> /\ Free
         \/ hand # << >> /\ \E l \in LinkName : Transmit(l)
  PROVE  BreathInv'
  <1>1. UNCHANGED <<rx, coming, todo, at, left>> /\ outs' \subseteq LinkName
    BY DEF Keep, ioVars, BreathInv, Loop
  <1> QED
    BY <1>1, MoveInv

LEMMA SinkPushInv ==
  ASSUME BreathInv, SinkPush
  PROVE  BreathInv'
  <1>1. Receive => UNCHANGED ioVars
    BY DEF Receive
  <1> QED
    BY <1>1, KeepMoveInv DEF SinkPush

LEMMA OutputFacts ==
  ASSUME Loop, NEW kind, NEW op, Running(kind, op), Out[Self] # {}
  PROVE  Output \in LinkName
  <1>1. Out[Self] \subseteq LinkName
    BY RunningFacts, NetworkAssumption
  <1>2. Output \in Out[Self]
    BY DEF Output
  <1> QED
    BY <1>1, <1>2

LEMMA JoinPushInv ==
  ASSUME BreathInv, JoinPush
  PROVE  BreathInv'
  <1>1. Running("Join", "push")
    BY DEF JoinPush
  <1>2. Out[Self] # {}
    BY <1>1 DEF BreathInv, Scope, Running, Self
  <1>3. Output \in LinkName
    BY <1>1, <1>2, OutputFacts DEF BreathInv
  <1>4. (Receive => UNCHANGED ioVars) /\ (Transmit(Output) => UNCHANGED ioVars)
    BY DEF Receive, Transmit
  <1> QED
    BY <1>1, <1>3, <1>4, KeepMoveInv DEF JoinPush

LEMMA LossPushInv ==
  ASSUME BreathInv, LossPush
  PROVE  BreathInv'
  <1>1. Running("Loss", "push")
    BY DEF LossPush
  <1>2. Out[Self] # {}
    BY <1>1, RunningFacts, NetworkAssumption DEF BreathInv
  <1>3. Output \in LinkName
    BY <1>1, <1>2, OutputFacts DEF BreathInv
  <1>4. (Receive => UNCHANGED ioVars) /\ (Transmit(Output) => UNCHANGED ioVars)
    BY DEF Receive, Transmit
  <1> QED
    BY <1>1, <1>3, <1>4, KeepMoveInv DEF LossPush

LEMMA TeePushInv ==
  ASSUME BreathInv, TeePush
  PROVE  BreathInv'
  <1>1. Running("Tee", "push")
    BY DEF TeePush
  <1>2. CASE Receive /\ outs' = Out[Self] /\ UNCHANGED <<todo, at, left, limit, paused, paceVars>>
    <2>1. outs' \subseteq LinkName
      BY <1>1, <1>2, RunningFacts, NetworkAssumption DEF BreathInv
    <2>2. UNCHANGED <<rx, coming>>
      BY <1>2 DEF Receive, ioVars
    <2> QED
      BY <1>1, <1>2, <2>1, <2>2, MoveInv
  <1>3. ASSUME NEW l \in outs, TeeClone(l)
        PROVE  BreathInv'
    <2>1. hand[1] \in Packet
      <3>1. hand \in Seq(Packet) /\ Len(hand) = 1
        BY <1>3 DEF TeeClone, BreathInv, Held
      <3> QED
        BY <3>1
    <2>2. length[hand[1]] \in Nat
      BY <2>1 DEF BreathInv, IInv, TypeOK
    <2>3. allocate(length[hand[1]]) /\ UNCHANGED <<link, coming, todo, at, left, outs, rx>>
      BY <1>3 DEF TeeClone, Take, breathVars, ioVars, loopVars
    <2>4. panic' = "none" => hand' = Append(hand, Newest)
      BY <1>3 DEF TeeClone, Take
    <2>5. panic' # "none" => hand' = hand
      BY <1>3 DEF TeeClone, Take, breathVars
    <2>6. rx' \in [App -> Seq(Nat)]
      BY <2>3 DEF BreathInv, Loop
    <2> QED
      BY <1>1, <2>2, <2>3, <2>4, <2>5, <2>6, TakeInv
  <1>4. ASSUME NEW l \in outs, Len(hand) = 2, Transmit(l), outs' = outs \ {l},
               UNCHANGED <<todo, at, left, limit, paused, paceVars>>
        PROVE  BreathInv'
    <2>1. hand # << >>
      BY <1>4
    <2>2. l \in LinkName /\ outs' \subseteq LinkName /\ UNCHANGED <<rx, coming>>
      BY <1>4 DEF BreathInv, Loop, Transmit, ioVars
    <2> QED
      BY <1>1, <1>4, <2>1, <2>2, MoveInv
  <1>5. CASE Len(hand) = 1 /\ Free /\ Keep /\ UNCHANGED ioVars
    <2>1. hand # << >>
      BY <1>5
    <2> QED
      BY <1>1, <1>5, <2>1, KeepMoveInv
  <1> QED
    BY <1>2, <1>3, <1>4, <1>5 DEF TeePush

LEMMA WriteInv ==
  ASSUME BreathInv, Write
  PROVE  BreathInv'
  <1>1. Running("RawSocket", "push")
    BY DEF Write
  <1>2. IInv' /\ Held'
    BY <1>1, RunningFacts, WriteHeld DEF BreathInv
  <1>3. Loop'
    BY DEF BreathInv, Loop, Write, Keep
  <1>4. Scope'
    BY DEF BreathInv, Scope, Write, Keep
  <1> QED
    BY <1>2, <1>3, <1>4 DEF BreathInv

LEMMA WriteEndInv ==
  ASSUME BreathInv, WriteEnd
  PROVE  BreathInv'
  <1>1. hand = << >> /\ at # NoLink
    BY DEF BreathInv, Scope, WriteEnd, Running
  <1> QED
    BY <1>1, LeaveInv DEF WriteEnd

LEMMA InputEmptyInv ==
  ASSUME BreathInv, InputEmpty
  PROVE  BreathInv'
  BY LeaveInv DEF InputEmpty, Running, ioVars

LEMMA ArriveInv ==
  ASSUME BreathInv, NEW a \in App, Arrive(a)
  PROVE  BreathInv'
  <1>1. IInv' /\ Held'
    BY StutterStep, SameHeld DEF BreathInv, Arrive, vars
  <1>2. rx[a] \in Seq(Nat) /\ coming[a] \in Seq(Nat) /\ coming[a] # << >>
    BY DEF BreathInv, Loop, Arrive
  <1>3. Append(rx[a], Head(coming[a])) \in Seq(Nat) /\ Tail(coming[a]) \in Seq(Nat)
    BY <1>2
  <1>4. Loop'
    BY <1>3 DEF BreathInv, Loop, Arrive, loopVars
  <1>5. Scope'
    BY DEF BreathInv, Scope, Arrive, loopVars
  <1> QED
    BY <1>1, <1>4, <1>5 DEF BreathInv

\* Steps of the pool that hand out or take back no packet.
LEMMA PoolInv ==
  ASSUME BreathInv, IInv', inUse' = inUse, UNCHANGED breathVars
  PROVE  BreathInv'
  <1>1. UNCHANGED <<link, hand, rx, coming, todo, at, outs, left>>
    BY DEF breathVars, loopVars, ioVars
  <1>2. Held'
    BY <1>1, SameHeld DEF BreathInv
  <1>3. Loop' /\ Scope'
    BY <1>1 DEF BreathInv, Loop, Scope
  <1> QED
    BY <1>2, <1>3 DEF BreathInv

LEMMA PreallocateInv ==
  ASSUME BreathInv, Preallocate
  PROVE  BreathInv'
  <1>1. CASE \E n \in Packet : preallocate(n)
    BY <1>1, PreallocateStep, PoolInv DEF BreathInv, Preallocate, preallocate
  <1>2. CASE PreallocateLoop
    <2>1. inUse' = inUse
      BY <1>2 DEF PreallocateLoop, Die
    <2> QED
      BY <1>2, <2>1, PreallocateLoopStep, PoolInv DEF BreathInv, Preallocate
  <1> QED
    BY <1>1, <1>2 DEF Preallocate

LEMMA SocketErrorInv ==
  ASSUME BreathInv, SocketError
  PROVE  BreathInv'
  <1>1. Abort /\ UNCHANGED breathVars
    BY DEF SocketError
  <1>2. inUse' = inUse
    BY <1>1 DEF Abort, Die
  <1> QED
    BY <1>1, <1>2, AbortStep, PoolInv DEF BreathInv

LEMMA PauseInv ==
  ASSUME BreathInv, pace_breathing \/ main
  PROVE  BreathInv'
  <1>1. UNCHANGED <<vars, link, hand, rx, coming, todo, at, outs, left>>
    BY DEF pace_breathing, main, ioVars
  <1> QED
    BY <1>1, SameAll

LEMMA BreathStep ==
  ASSUME BreathInv, [BreathNext]_<<vars, breathVars>>
  PROVE  BreathInv'
  <1>1. CASE UNCHANGED <<vars, breathVars>>
    <2>1. UNCHANGED <<vars, link, hand, rx, coming, todo, at, outs, left>>
      BY <1>1 DEF breathVars, loopVars, ioVars
    <2> QED
      BY <2>1, SameAll
  <1>2. CASE EngineNext
    BY <1>2, BreatheInv, VisitInv, ReturnInv, PauseInv, RawSocketPullInv, SourcePullInv,
       SinkPushInv, JoinPushInv, TeePushInv, LossPushInv, InputEmptyInv, WriteInv,
       WriteEndInv, SocketErrorInv DEF EngineNext
  <1> QED
    BY <1>1, <1>2, PreallocateInv, ArriveInv DEF BreathNext

\* packet.rs, engine.rs, rawsocket_app.rs, basic_apps.rs, qos.rs: in every
\* network of RawSocket, Source, Sink, Join, Tee and Loss apps, with links, a
\* pool and a breathe order of any size, every packet that left the freelist is
\* at one place of one link or in the scope of the callback that runs, whatever
\* comes in and whichever interface is not ready: no app leaks a packet, sends
\* one twice or keeps one it gave away.
THEOREM EveryPacketHasOneHolder == BreathSpec => []OneHolder
  <1>1. BreathInit => BreathInv
    BY InitBreathInv
  <1>2. BreathInv /\ [BreathNext]_<<vars, breathVars>> => BreathInv'
    BY BreathStep
  <1>3. BreathInv => OneHolder
    BY HeldMeansOneHolder
  <1> QED
    BY <1>1, <1>2, <1>3, PTL DEF BreathSpec

\* With the same apps the freelist never lists a packet twice or one that an app
\* holds, loses none and never overflows (packet.rs: allocate, free_internal).
\* What the pool needs of its users, that they free only packets in use, is the
\* part of OneHolder about links and scope.
THEOREM NetworkKeepsThePool == BreathSpec => [](NoAliasNoLeak /\ NoFreelistOverflow)
  <1>1. BreathInit => BreathInv
    BY InitBreathInv
  <1>2. BreathInv /\ [BreathNext]_<<vars, breathVars>> => BreathInv'
    BY BreathStep
  <1>3. BreathInv => NoAliasNoLeak /\ NoFreelistOverflow
    BY DEF BreathInv, IInv
  <1> QED
    BY <1>1, <1>2, <1>3, PTL DEF BreathSpec

-----------------------------------------------------------------------------
(* Frames stay what they are.                                              *)

\* Nothing but frames is on an interface or in a packet in use.
Intact ==
  /\ coming \in [App -> Seq(Frame)] /\ rx \in [App -> Seq(Frame)] /\ wire \in [App -> Seq(Frame)]
  /\ \A p \in inUse : length[p] \in Frame

LEMMA ArrivalsAreFrames == Arrivals \in [App -> Seq(Frame)]
  <1>1. Arrivals \in [App -> Seq(Nat \ {0, Size})]
    BY NetworkAssumption
  <1>2. ASSUME NEW a \in App
        PROVE  Arrivals[a] \in Seq(Frame)
    <2>1. Arrivals[a] \in Seq(Nat \ {0, Size})
      BY <1>1
    <2>2. \A i \in DOMAIN Arrivals[a] : Arrivals[a][i] \in Frame
      BY DEF Frame, Range
    <2> HIDE DEF Frame
    <2> QED
      BY <2>1, <2>2
  <1> QED
    BY <1>1, <1>2

LEMMA SameIntact ==
  ASSUME Intact, UNCHANGED <<coming, rx, wire, inUse, length>>
  PROVE  Intact'
  BY DEF Intact

\* A buffer that is filled does not touch those in use.
LEMMA TakeIntact ==
  ASSUME Intact, IInv, NEW n \in Frame, n \in Nat, allocate(n), UNCHANGED <<coming, wire>>,
         rx' \in [App -> Seq(Frame)]
  PROVE  Intact'
  <1>1. length \in [Packet -> Nat]
    BY DEF IInv, TypeOK
  <1>2. ASSUME NEW p \in inUse'
        PROVE  length'[p] \in Frame
    <2>1. CASE panic' = "none"
      <3>1. /\ Newest \in Packet /\ Newest \notin inUse /\ inUse' = inUse \cup {Newest}
        BY <2>1, AllocateFacts
      <3>2. length' = [length EXCEPT ![Newest] = n]
        <4>1. CASE nfree > 0
          BY <4>1, <2>1 DEF allocate, Newest, Die
        <4>2. CASE nfree = 0
          BY <4>2, <2>1 DEF allocate, Newest, Die
        <4>3. nfree \in Nat
          BY Levels
        <4> QED
          BY <4>1, <4>2, <4>3
      <3>3. p = Newest => length'[p] = n
        BY <1>1, <3>1, <3>2
      <3>4. p # Newest => p \in inUse /\ length'[p] = length[p]
        BY <1>1, <3>1, <3>2, <1>2
      <3> QED
        BY <3>3, <3>4 DEF Intact
    <2>2. CASE panic' # "none"
      <3>1. UNCHANGED <<inUse, length>>
        BY <2>2 DEF allocate, Die, Ready
      <3> QED
        BY <1>2, <3>1 DEF Intact
    <2> QED
      BY <2>1, <2>2
  <1> QED
    BY <1>2 DEF Intact

\* A packet that is freed does not touch those that stay in use.
LEMMA FreeIntact ==
  ASSUME Intact, IInv, NEW p, free(p), UNCHANGED <<coming, rx>>, wire' \in [App -> Seq(Frame)]
  PROVE  Intact'
  <1>1. length \in [Packet -> Nat]
    BY DEF IInv, TypeOK
  <1>2. \A q \in inUse' : q \in inUse /\ length'[q] = length[q]
    <2>1. CASE nfree = MAX_PACKETS
      BY <2>1 DEF free
    <2>2. CASE nfree # MAX_PACKETS
      <3>1. inUse' = inUse \ {p} /\ length' = [length EXCEPT ![p] = 0]
        BY <2>2 DEF free
      <3>2. inUse \subseteq Packet
        BY DEF IInv, TypeOK
      <3> QED
        BY <1>1, <3>1, <3>2
    <2> QED
      BY <2>1, <2>2
  <1> QED
    BY <1>2 DEF Intact

LEMMA MoveIntact ==
  ASSUME Intact, IInv, UNCHANGED <<rx, coming, wire>>, Receive \/ Free \/ \E l \in LinkName : Transmit(l)
  PROVE  Intact'
  <1>1. CASE Receive
    BY <1>1, SameIntact DEF Receive, vars
  <1>2. CASE Free
    BY <1>2, FreeIntact DEF Free, Intact
  <1>3. ASSUME NEW l \in LinkName, Transmit(l)
        PROVE  Intact'
    <2>1. CASE Len(link[l]) < LINK_MAX_PACKETS
      BY <1>3, <2>1, SameIntact DEF Transmit, vars
    <2>2. CASE ~(Len(link[l]) < LINK_MAX_PACKETS)
      BY <1>3, <2>2, FreeIntact DEF Transmit, Intact
    <2> QED
      BY <2>1, <2>2
  <1> QED
    BY <1>1, <1>2, <1>3

LEMMA PullIntact ==
  ASSUME Intact, BreathInv, RawSocketPull
  PROVE  Intact'
  <1>1. Running("RawSocket", "pull") /\ at \in LinkName /\ Self \in App
    BY RunningFacts DEF RawSocketPull, BreathInv
  <1>2. CASE /\ can_receive
             /\ Take(Head(rx[Self]),
                     /\ rx' = [rx EXCEPT ![Self] = Tail(@)]
                     /\ limit' = limit - 1
                     /\ UNCHANGED <<link, refused, todo, at, left, outs, paused, paceVars,
                                    coming, wire, made, blocked>>)
    <2>1. rx[Self] \in Seq(Frame) /\ rx[Self] # << >>
      BY <1>1, <1>2 DEF Intact, can_receive
    <2>2. Head(rx[Self]) \in Frame /\ Tail(rx[Self]) \in Seq(Frame)
      BY <2>1
    <2>3. Head(rx[Self]) \in Nat
      BY <1>1, <2>1, PullType DEF BreathInv
    <2>4. allocate(Head(rx[Self])) /\ UNCHANGED <<coming, wire>>
      BY <1>2 DEF Take, breathVars, ioVars
    <2>5. rx' \in [App -> Seq(Frame)]
      <3>1. rx' = [rx EXCEPT ![Self] = Tail(@)] \/ rx' = rx
        BY <1>2 DEF Take, breathVars, ioVars
      <3>2. rx \in [App -> Seq(Frame)]
        BY DEF Intact
      <3> QED
        BY <1>1, <2>2, <3>1, <3>2
    <2> QED
      BY <2>2, <2>3, <2>4, <2>5, TakeIntact DEF BreathInv
  <1>3. CASE Transmit(at)
    BY <1>1, <1>3, MoveIntact DEF BreathInv, Transmit, ioVars
  <1>4. CASE Leave /\ UNCHANGED ioVars
    BY <1>4, SameIntact DEF Leave, vars, ioVars
  <1> QED
    BY <1>2, <1>3, <1>4 DEF RawSocketPull

LEMMA SourceIntact ==
  ASSUME Intact, BreathInv, SourcePull
  PROVE  Intact'
  <1>1. at \in LinkName
    BY RunningFacts DEF SourcePull, BreathInv
  <1>2. CASE Take(Size, /\ made' = made + 1
                        /\ limit' = limit - 1
                        /\ UNCHANGED <<link, refused, todo, at, left, outs, paused, paceVars,
                                       coming, rx, wire, blocked>>)
    <2>1. allocate(Size) /\ UNCHANGED <<coming, rx, wire>>
      BY <1>2 DEF Take, breathVars, ioVars
    <2>2. Size \in Frame /\ Size \in Nat
      BY NetworkAssumption DEF Frame
    <2> QED
      BY <2>1, <2>2, TakeIntact DEF BreathInv, Intact
  <1>3. CASE Transmit(at)
    BY <1>1, <1>3, MoveIntact DEF BreathInv, Transmit, ioVars
  <1>4. CASE Leave /\ UNCHANGED ioVars
    BY <1>4, SameIntact DEF Leave, vars, ioVars
  <1> QED
    BY <1>2, <1>3, <1>4 DEF SourcePull

LEMMA TeeIntact ==
  ASSUME Intact, BreathInv, TeePush
  PROVE  Intact'
  <1>1. CASE Receive
    BY <1>1, MoveIntact DEF BreathInv, Receive, ioVars
  <1>2. ASSUME NEW l \in outs, TeeClone(l)
        PROVE  Intact'
    <2>1. hand[1] \in Packet /\ hand[1] \in inUse
      <3>1. hand \in Seq(Packet) /\ Len(hand) = 1 /\ Range(hand) \subseteq inUse
        BY <1>2 DEF TeeClone, BreathInv, Held
      <3>2. 1 \in DOMAIN hand /\ hand[1] \in Packet
        BY <3>1
      <3> QED
        BY <3>1, <3>2 DEF Range
    <2>2. length[hand[1]] \in Frame /\ length[hand[1]] \in Nat
      BY <2>1 DEF BreathInv, IInv, TypeOK, Intact
    <2>3. allocate(length[hand[1]]) /\ UNCHANGED <<coming, rx, wire>>
      BY <1>2 DEF TeeClone, Take, breathVars, ioVars
    <2> QED
      BY <2>2, <2>3, TakeIntact DEF BreathInv, Intact
  <1>3. ASSUME NEW l \in outs, Transmit(l)
        PROVE  Intact'
    <2>1. l \in LinkName
      BY DEF BreathInv, Loop
    <2> QED
      BY <1>3, <2>1, MoveIntact DEF BreathInv, Transmit, ioVars
  <1>4. CASE Free /\ UNCHANGED ioVars
    BY <1>4, MoveIntact DEF BreathInv, ioVars
  <1> QED
    BY <1>1, <1>2, <1>3, <1>4 DEF TeePush

\* Sink, Join and Loss.
LEMMA PushIntact ==
  ASSUME Intact, BreathInv, SinkPush \/ JoinPush \/ LossPush
  PROVE  Intact'
  <1>1. Receive => Intact'
    BY MoveIntact DEF BreathInv, Receive, ioVars
  <1>2. Free /\ UNCHANGED ioVars => Intact'
    BY MoveIntact DEF BreathInv, ioVars
  <1>3. CASE SinkPush
    BY <1>1, <1>2, <1>3 DEF SinkPush
  <1>4. Output \in LinkName /\ Transmit(Output) => Intact'
    BY MoveIntact DEF BreathInv, Transmit, ioVars
  <1>5. CASE JoinPush
    <2>1. Output \in LinkName
      BY <1>5, OutputFacts DEF JoinPush, BreathInv, Scope, Running, Self
    <2> QED
      BY <1>1, <1>4, <1>5, <2>1 DEF JoinPush
  <1>6. CASE LossPush
    <2>1. Output \in LinkName
      BY <1>6, RunningFacts, OutputFacts, NetworkAssumption DEF LossPush, BreathInv
    <2> QED
      BY <1>1, <1>2, <1>4, <1>6, <2>1 DEF LossPush
  <1> QED
    BY <1>3, <1>5, <1>6

\* What is written is in use until it has been.
LEMMA WriteIntact ==
  ASSUME Intact, BreathInv, Write
  PROVE  Intact'
  <1> DEFINE p == Head(link[at])
  <1>1. at \in LinkName /\ Self \in App
    BY RunningFacts DEF Write, BreathInv
  <1>2. p \in Range(link[at])
    BY <1>1, TailOf DEF BreathInv, Held, Write
  <1>3. length[p] \in Frame
    BY <1>1, <1>2 DEF BreathInv, Held, Intact
  <1>4. free(p) /\ wire' = [wire EXCEPT ![Self] = Append(@, length[p])] /\ UNCHANGED <<coming, rx>>
    BY DEF Write
  <1> HIDE DEF p
  <1>5. wire \in [App -> Seq(Frame)]
    BY DEF Intact
  <1>6. Append(wire[Self], length[p]) \in Seq(Frame)
    BY <1>1, <1>3, <1>5
  <1>7. wire' \in [App -> Seq(Frame)]
    BY <1>1, <1>4, <1>5, <1>6
  <1> QED
    BY <1>4, <1>7, FreeIntact DEF BreathInv

LEMMA ArriveIntact ==
  ASSUME Intact, NEW a \in App, Arrive(a)
  PROVE  Intact'
  <1>1. rx[a] \in Seq(Frame) /\ coming[a] \in Seq(Frame) /\ coming[a] # << >>
    BY DEF Intact, Arrive
  <1>2. Append(rx[a], Head(coming[a])) \in Seq(Frame) /\ Tail(coming[a]) \in Seq(Frame)
    BY <1>1
  <1>3. /\ rx' = [rx EXCEPT ![a] = Append(@, Head(coming[a]))]
        /\ coming' = [coming EXCEPT ![a] = Tail(@)] /\ UNCHANGED <<wire, inUse, length>>
    BY DEF Arrive, vars
  <1> QED
    BY <1>2, <1>3 DEF Intact

LEMMA IntactStep ==
  ASSUME Intact, BreathInv, [BreathNext]_<<vars, breathVars>>
  PROVE  Intact'
  <1>1. CASE UNCHANGED <<vars, breathVars>>
    BY <1>1, SameIntact DEF vars, breathVars, ioVars
  <1>2. CASE breathe \/ (\E l \in LinkName : Visit(l)) \/ Return \/ pace_breathing \/ main
    BY <1>2, SameIntact DEF breathe, Visit, Return, pace_breathing, main, vars, ioVars
  <1>3. CASE InputEmpty \/ WriteEnd
    BY <1>3, SameIntact DEF InputEmpty, WriteEnd, Leave, vars, ioVars
  <1>4. CASE SocketError
    BY <1>4, SameIntact DEF SocketError, Abort, Die, breathVars, ioVars
  <1>5. CASE Preallocate
    BY <1>5, SameIntact DEF Preallocate, preallocate, PreallocateLoop, Die, breathVars, ioVars
  <1>6. CASE EngineNext
    BY <1>2, <1>3, <1>4, <1>6, PullIntact, SourceIntact, TeeIntact, PushIntact, WriteIntact DEF EngineNext
  <1> QED
    BY <1>1, <1>5, <1>6, ArriveIntact DEF BreathNext

\* What an interface is given to write is a frame that came in or one that a
\* Source made, with its length (rawsocket_app.rs: transmit): in every network,
\* however often its buffer was copied, freed and used for another frame on the
\* way, and though free clears the length.
THEOREM FramesStayIntact == BreathSpec => []WrittenIntact
  <1>1. BreathInit => BreathInv /\ Intact
    <2> SUFFICES ASSUME BreathInit
                 PROVE  BreathInv /\ Intact
      OBVIOUS
    <2>1. << >> \in Seq(Frame)
      OBVIOUS
    <2>2. Intact
      BY <2>1, ArrivalsAreFrames DEF BreathInit, Init, Intact
    <2> QED
      BY <2>2, InitBreathInv
  <1>2. BreathInv /\ Intact /\ [BreathNext]_<<vars, breathVars>> => BreathInv' /\ Intact'
    BY BreathStep, IntactStep
  <1>3. Intact => WrittenIntact
    <2> SUFFICES ASSUME Intact, NEW a \in App, NEW i \in DOMAIN wire[a]
                 PROVE  wire[a][i] \in Frame
      BY DEF WrittenIntact
    <2>1. wire[a] \in Seq(Frame)
      BY DEF Intact
    <2> QED
      BY <2>1
  <1> QED
    BY <1>1, <1>2, <1>3, PTL DEF BreathSpec
=============================================================================
