------------------------------- MODULE Offload -------------------------------
(***************************************************************************)
(* rush/src/offload.rs: the TSD app, which cuts TCP packets larger than    *)
(* the MSS into segments, and the Checksum app behind it, which computes   *)
(* the transport checksums that the kernel (or TSD) left to be offloaded.  *)
(* One breath pushes TSD, then Checksum; both loops are stepped.  A packet *)
(* is its identity, the part [ofs, ofs + len) of the original payload it   *)
(* carries, and the header fields the two apps read and write: total       *)
(* length and checksum of the IPv4 header, sequence number and checksum of *)
(* TCP (or UDP).  A checksum is known by what it was computed over.        *)
(***************************************************************************)
EXTENDS Naturals, Sequences, FiniteSets, SequencesExt

CONSTANTS mss,          \* TSD's maximum segment size
          SeqSpace,     \* 2^32: TCP sequence numbers wrap around
          Capacity,     \* packets a link holds
          Lengths,      \* payload lengths of packets received
          Seqs,         \* their sequence numbers
          MaxPackets    \* bound: packets received

ASSUME MssAssumption == mss \in Nat /\ mss > 0
ASSUME OffloadAssumption == /\ SeqSpace \in Nat /\ SeqSpace > 0 /\ Capacity \in Nat
                            /\ Lengths \subseteq Nat /\ Seqs \subseteq 0..(SeqSpace - 1)
                            /\ MaxPackets \in Nat

VARIABLES input,     \* packets on the interface's link to TSD
          p,         \* the packet TSD is cutting up: <<packet>> or << >>
          middle,    \* packets on the link from TSD to Checksum
          output,    \* packets on the link from Checksum, never received here
          pc,        \* "receive", "tsd" or "checksum"
          original,  \* history: packets as they were received
          refused,   \* history: packets the middle link had no room for
          held       \* packet buffers taken from the freelist and not returned

vars == <<input, p, middle, output, pc, original, refused, held>>

\* What a checksum field holds: the ones' complement of the pseudo header's
\* checksum, the checksum of the packet's own contents, that of an IPv4 header (of
\* which only the total length is ever changed), or anything else.
Seed(len) == [over |-> "pseudo header", len |-> len]
Sum(q) == [over |-> "contents", id |-> q.id, seq |-> q.seq, ofs |-> q.ofs, len |-> q.len]
HeaderSum(total) == [over |-> "IPv4 header", total |-> total]
Other == [over |-> "something else"]

Init == /\ input = << >> /\ p = << >> /\ middle = << >> /\ output = << >>
        /\ pc = "receive"
        /\ original = << >> /\ refused = {}
        /\ held = 0

\* The interface's pull: an IPv4 packet without options, or one that is neither.
Receive(proto, seq, len, sum, ipsum) ==
  LET q == [id |-> Len(original) + 1, proto |-> proto, seq |-> seq, ofs |-> 0,
            len |-> len, total |-> len, sum |-> Seed(len),
            ipsum |-> IF ipsum = "ok" THEN HeaderSum(len) ELSE Other]
      r == [q EXCEPT !.sum = CASE sum = "seed" -> Seed(len)
                               [] sum = "ok" -> Sum(q)
                               [] sum = "bad" -> Other]
  IN /\ pc = "receive"
     /\ Len(original) < MaxPackets
     /\ input' = Append(input, r)
     /\ original' = Append(original, r)
     /\ held' = held + 1
     /\ UNCHANGED <<p, middle, output, pc, refused>>

Push(next) == /\ pc' = next
              /\ UNCHANGED <<input, p, middle, output, original, refused, held>>

\* link::transmit on the middle link; a packet refused goes to the freelist.
Transmit(q) == IF Len(middle) < Capacity
               THEN middle' = Append(middle, q) /\ UNCHANGED refused
               ELSE refused' = refused \cup {q} /\ UNCHANGED middle
Returned(q) == IF Len(middle) < Capacity THEN 0 ELSE 1

Fits(q) == q.len <= mss

\* forward_tcp_segments on a packet that is not TCP or fits the MSS ...
ForwardAsIs ==
  /\ pc = "tsd" /\ p = << >> /\ input # << >>
  /\ Head(input).proto # "tcp" \/ Fits(Head(input))
  /\ input' = Tail(input)
  /\ Transmit(Head(input))
  /\ held' = held - Returned(Head(input))
  /\ UNCHANGED <<p, output, pc, original>>

\* ... and on one to be cut up.
Segment ==
  /\ pc = "tsd" /\ p = << >> /\ input # << >>
  /\ Head(input).proto = "tcp" /\ ~Fits(Head(input))
  /\ p' = <<Head(input)>>
  /\ input' = Tail(input)
  /\ UNCHANGED <<middle, output, pc, original, refused, held>>

\* Mutant: the header's checksum is left as it is (no checksum_compute).
Stamp_NoHeaderSum(q, slen) == [q EXCEPT !.total = slen, !.sum = Seed(slen)]
\* What is written into q's own headers for a segment of slen bytes, before they
\* are copied: set_total_length, checksum_compute of the header, which has the new
\* length by then, and the pseudo header's sum as a seed for Checksum.
Stamp(q, slen) ==
  [q EXCEPT !.total = slen, !.ipsum = HeaderSum(slen), !.sum = Seed(slen)]

\* The segment s: q's headers and the first slen bytes that are left of it.
Cut(q, slen) == [Stamp(q, slen) EXCEPT !.len = slen]

\* Mutant: the sequence number stays as it is.
Advance_SameSeq(q, slen) == [Stamp(q, slen) EXCEPT !.ofs = @ + slen, !.len = @ - slen]
\* What is left of q after a segment: data_ofs, data_length and the sequence
\* number move on, and its headers keep what was set for the segment.
Advance(q, slen) ==
  [Stamp(q, slen) EXCEPT !.ofs = @ + slen, !.len = @ - slen, !.seq = (@ + slen) % SeqSpace]

\* One round of the segmenting loop.
EmitSegment ==
  /\ p # << >> /\ p[1].len > 0
  /\ LET slen == IF p[1].len < mss THEN p[1].len ELSE mss
     IN /\ p' = <<Advance(p[1], slen)>>
        /\ Transmit(Cut(p[1], slen))
        /\ held' = held + 1 - Returned(p[1])
  /\ UNCHANGED <<input, output, pc, original>>

FreeSegmented ==
  /\ p # << >> /\ p[1].len = 0
  /\ p' = << >>
  /\ held' = held - 1
  /\ UNCHANGED <<input, middle, output, pc, original, refused>>

\* Checksum's push, one packet: a TCP or UDP checksum that is the seed for the
\* packet's length was omitted and is filled in.
maybe_fill_in_checksum(q) ==
  IF q.proto \in {"tcp", "udp"} /\ q.sum = Seed(q.len) THEN [q EXCEPT !.sum = Sum(q)] ELSE q

Checksum ==
  /\ pc = "checksum" /\ middle # << >>
  /\ middle' = Tail(middle)
  /\ output' = Append(output, maybe_fill_in_checksum(Head(middle)))
  /\ UNCHANGED <<input, p, pc, original, refused, held>>

Next == \/ \E proto \in {"tcp", "udp", "none"}, seq \in Seqs, len \in Lengths,
              sum \in {"seed", "ok", "bad"}, ipsum \in {"ok", "bad"} :
              Receive(proto, seq, len, sum, ipsum)
        \/ pc = "receive" /\ Push("tsd")
        \/ ForwardAsIs
        \/ Segment
        \/ EmitSegment
        \/ FreeSegmented
        \/ pc = "tsd" /\ p = << >> /\ input = << >> /\ Push("checksum")
        \/ Checksum
        \/ pc = "checksum" /\ middle = << >> /\ Push("receive")

Spec == Init /\ [][Next]_vars

-----------------------------------------------------------------------------

InFlight == Range(input) \cup Range(p) \cup Range(middle) \cup Range(output) \cup refused
Bytes(q) == q.ofs..(q.ofs + q.len - 1)

\* "Split up TCP segments to fit MSS": every byte of every packet is somewhere, in
\* one packet only, and under the sequence number it was sent with, across the
\* cuts and the wrap-around of sequence numbers.  Nothing larger than the MSS
\* leaves, and in the order it came.  Every buffer taken from the freelist is on
\* a link, being worked on, or was returned (packet.rs).
EveryByteOnce ==
  /\ \A i \in DOMAIN original :
       LET parts == {q \in InFlight : q.id = i} IN
       /\ UNION {Bytes(q) : q \in parts} = Bytes(original[i])
       /\ \A q, r \in parts : q # r => Bytes(q) \cap Bytes(r) = {}
       /\ \A q \in parts : q.seq = (original[i].seq + q.ofs) % SeqSpace
  /\ \A i \in DOMAIN output : output[i].proto = "tcp" => output[i].len <= mss
  /\ \A i, j \in DOMAIN output :
       i < j => \/ output[i].id < output[j].id
                \/ output[i].id = output[j].id /\ output[i].ofs < output[j].ofs
  /\ held = Len(input) + Len(p) + Len(middle) + Len(output)

\* Whoever receives the output finds the checksums right: a TCP or UDP packet
\* has the checksum of its own contents, or is one that came in with a wrong
\* checksum and was not touched.  Its total length is its own and so is the
\* checksum of the IPv4 header, which TSD must compute anew for each segment; only
\* a packet that is not cut up leaves with a wrong one that it came with.
ChecksumsAreRight ==
  \A i \in DOMAIN output :
    LET q == output[i]
        o == original[q.id] IN
    /\ q.total = q.len
    /\ q.proto \in {"tcp", "udp"} => q.sum = Sum(q) \/ q = o
    /\ q.ipsum = HeaderSum(q.total) \/ (q.ipsum = o.ipsum /\ q.len = o.len)
=============================================================================
