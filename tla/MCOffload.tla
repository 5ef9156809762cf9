----------------------------- MODULE MCOffload ------------------------------
(***************************************************************************)
(* Offload, and the checksums it takes for granted (IpSum) over bounded    *)
(* data: bytes of one bit, so that carries are frequent and a 64-bit word  *)
(* has 256 values; all strings of up to six bytes, and longer ones, of up  *)
(* to 71 bytes, that are runs of equal bytes, so that every combination of *)
(* block sizes occurs.                                                     *)
(***************************************************************************)
EXTENDS Offload, IpSum

Byte == 0..(BYTE - 1)
Strings(n) == UNION {[1..k -> Byte] : k \in 0..n}

\* a ... a b ... b a ... a, of a length up to n.
Runs(n) == {[i \in 1..len |-> IF i \in from..(from + w) THEN a ELSE BYTE - 1 - a] :
              len \in 7..n, a \in {0, BYTE - 1}, from \in {1, 2, 8, 9, 33, 48}, w \in {0, 8, 40}}

MCData == Strings(6) \cup Runs(71)
MCPseudo == {<<a, b, b, a, 0, 1, a, b>> : a, b \in Byte}
MCHeaders == [before : [1..4 -> Byte], sum : {0}, after : [1..2 -> Byte]]
MCPayloads == Strings(3)

\* A checksum of some bytes, or packets through the offload apps.
MCInit == Init /\ SumInit
MCNext == data = NoData /\ Next /\ UNCHANGED data
MCSpec == MCInit /\ [][MCNext]_<<vars, data>>
=============================================================================
