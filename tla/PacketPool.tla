----------------------------- MODULE PacketPool -----------------------------
(***************************************************************************)
(* rush/src/packet.rs: the global freelist FL, a stack of raw pointers     *)
(* that grows by a step which doubles, and allocate, free, clone and       *)
(* preallocate on it.  Packets are numbered in the order the heap hands    *)
(* them out.  A panic ends the process: panic is then its message and no   *)
(* action is enabled.                                                      *)
(***************************************************************************)
EXTENDS Integers, FiniteSets

CONSTANTS MAX_PACKETS,   \* slots of FL.list
          FirstStep,     \* initial PACKET_ALLOCATION_STEP
          Lengths,       \* payload lengths an app may give a packet
          MaxFrees       \* bound: calls of free

ASSUME PoolAssumption == MAX_PACKETS \in Nat /\ FirstStep \in Nat /\ FirstStep > 0
ASSUME LengthsAssumption == Lengths \subseteq Nat
ASSUME FreesAssumption == MaxFrees \in Nat

VARIABLES list, nfree,              \* FL
          allocated, step,          \* PACKETS_ALLOCATED, PACKET_ALLOCATION_STEP
          inUse,                    \* packets in scope or on a link
          length,                   \* p.length of every packet
          frees,                    \* engine::add_frees
          target,                   \* n while preallocate(n) runs, else 0
          panic                     \* "none" or the panic's message

vars == <<list, nfree, allocated, step, inUse, length, frees, target, panic>>

Index == 0..(MAX_PACKETS - 1)
Packet == 1..MAX_PACKETS
NullPtr == 0

Init == /\ list = [i \in Index |-> NullPtr] /\ nfree = 0
        /\ allocated = 0 /\ step = FirstStep
        /\ inUse = {}
        /\ length = [p \in Packet |-> 0]
        /\ frees = 0
        /\ target = 0
        /\ panic = "none"

Ready == panic = "none" /\ target = 0

Die(message) ==
  /\ panic' = message
  /\ UNCHANGED <<list, nfree, allocated, step, inUse, length, frees, target>>

\* An assertion of the code that uses the pool fails.
Abort == Ready /\ Die("failed elsewhere")

\* Mutant: the growth check refuses the step that would fill the pool.
NoRoom_OffByOne == allocated + step >= MAX_PACKETS
\* The assertion at the head of preallocate_step.
NoRoom == allocated + step > MAX_PACKETS

\* FL.list after preallocate_step pushed `step' new packets.
GrownList == [i \in Index |-> IF i >= nfree /\ i < nfree + step
                              THEN allocated + (i - nfree) + 1
                              ELSE list[i]]

\* Mutant: the step grows without being counted.
Grow_Uncounted ==
  /\ ~NoRoom
  /\ list' = GrownList
  /\ step' = 2 * step
  /\ UNCHANGED allocated
Grow == /\ ~NoRoom
        /\ list' = GrownList
        /\ allocated' = allocated + step
        /\ step' = 2 * step

preallocate(n) ==
  /\ Ready
  /\ n > 0
  /\ target' = n
  /\ UNCHANGED <<list, nfree, allocated, step, inUse, length, frees, panic>>

\* One round of preallocate's loop, or its end.
PreallocateLoop ==
  /\ panic = "none" /\ target > 0
  /\ \/ /\ allocated < target
        /\ Grow
        /\ nfree' = nfree + step
        /\ UNCHANGED <<inUse, length, frees, target, panic>>
     \/ /\ allocated < target
        /\ NoRoom
        /\ Die("Packet allocation overflow")
     \/ /\ allocated >= target
        /\ target' = 0
        /\ UNCHANGED <<list, nfree, allocated, step, inUse, length, frees, panic>>

\* allocate and the caller's fill of n bytes: pop the freelist, growing it
\* first when it is empty (its top is then the newest packet).  clone is
\* allocate with the original's length.
allocate(n) ==
  /\ Ready
  /\ \/ /\ nfree > 0
        /\ nfree' = nfree - 1
        /\ inUse' = inUse \cup {list[nfree - 1]}
        /\ length' = [length EXCEPT ![list[nfree - 1]] = n]
        /\ UNCHANGED <<list, allocated, step, frees, target, panic>>
     \/ /\ nfree = 0
        /\ Grow
        /\ nfree' = step - 1
        /\ inUse' = inUse \cup {allocated + step}
        /\ length' = [length EXCEPT ![allocated + step] = n]
        /\ UNCHANGED <<frees, target, panic>>
     \/ /\ nfree = 0
        /\ NoRoom
        /\ Die("Packet allocation overflow")

\* The freelist after free_internal(p) pushed p.
Push(p) == /\ list' = [list EXCEPT ![nfree] = p]
           /\ nfree' = nfree + 1

free(p) ==
  /\ Ready
  /\ p \in inUse
  /\ frees < MaxFrees
  /\ frees' = frees + 1
  /\ IF nfree = MAX_PACKETS
     THEN /\ panic' = "Packet freelist overflow"
          /\ UNCHANGED <<list, nfree, inUse, length>>
     ELSE /\ Push(p)
          /\ length' = [length EXCEPT ![p] = 0]
          /\ inUse' = inUse \ {p}
          /\ UNCHANGED panic
  /\ UNCHANGED <<allocated, step, target>>

Next == \/ \E n \in Packet : preallocate(n)
        \/ PreallocateLoop
        \/ \E n \in Lengths : allocate(n)
        \/ \E p \in Packet : free(p)
        \/ Abort

Spec == Init /\ [][Next]_vars

-----------------------------------------------------------------------------

TypeOK == /\ list \in [Index -> Packet \cup {NullPtr}]
          /\ nfree \in 0..MAX_PACKETS
          /\ allocated \in 0..MAX_PACKETS
          /\ step \in Nat \ {0}
          /\ inUse \subseteq Packet
          /\ length \in [Packet -> Nat]
          /\ frees \in Nat
          /\ target \in 0..MAX_PACKETS
          /\ panic \in {"none", "Packet allocation overflow", "Packet freelist overflow",
                        "failed elsewhere"}

FreePackets == {list[i] : i \in 0..(nfree - 1)}

\* packet.rs: allocate's Box "does not alias another packet".  The freelist
\* never lists a packet twice or one that is in use, and no packet the heap
\* handed out is lost: each is on the freelist or in use.
NoAliasNoLeak ==
  /\ \A i, j \in 0..(nfree - 1) : list[i] = list[j] => i = j
  /\ FreePackets \cap inUse = {}
  /\ FreePackets \cup inUse = 1..allocated

\* free_internal's "Packet freelist overflow" is unreachable: the pool never
\* has more packets to take back than FL.list has slots.
NoFreelistOverflow == panic # "Packet freelist overflow"

\* "Allocate an empty Boxed Packet from FL": whatever allocate may return has
\* length 0, although its previous user left a payload in it.
FreePacketsEmpty == \A p \in Packet \ inUse : length[p] = 0

\* The pool gives up only when every packet it made is in use or a preallocate
\* asks for more, and when more than about half of MAX_PACKETS exist (the
\* doubling step cannot use the rest).
ExhaustedWhenInUse ==
  panic = "Packet allocation overflow" =>
    /\ target > allocated \/ inUse = 1..allocated
    /\ 2 * allocated + FirstStep > MAX_PACKETS

\* All of the above (packet.rs: allocate, free_internal, preallocate_step), in
\* inductive form: the doubling step stays one FirstStep ahead of the packets
\* made so far, and the packets in use plus the free ones are all of them.
IInv == /\ TypeOK
        /\ NoAliasNoLeak
        /\ NoFreelistOverflow
        /\ FreePacketsEmpty
        /\ ExhaustedWhenInUse
        /\ step = allocated + FirstStep
        /\ IsFiniteSet(inUse)
        /\ nfree + Cardinality(inUse) = allocated
=============================================================================
