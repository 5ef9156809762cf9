--------------------------- MODULE OffloadProofs ---------------------------
(***************************************************************************)
(* For every MSS, every size of a link and every packet: the segments that *)
(* TSD cuts a packet into carry each of its bytes once, under its sequence *)
(* number and in order, no buffer is lost, and the checksums that leave    *)
(* are those of the contents.                                              *)
(***************************************************************************)
EXTENDS Offload, TLAPS

-----------------------------------------------------------------------------
(* The inductive invariant.                                                *)

SumField == [over : {"pseudo header"}, len : Nat]
              \cup [over : {"contents"}, id : Nat, seq : Nat, ofs : Nat, len : Nat]
              \cup [over : {"IPv4 header"}, total : Nat] \cup {Other}
Packet == [id : Nat, proto : {"tcp", "udp", "none"}, seq : Nat, ofs : Nat, len : Nat,
           total : Nat, sum : SumField, ipsum : SumField]

TypeOK == /\ input \in Seq(Packet) /\ p \in Seq(Packet) /\ middle \in Seq(Packet)
          /\ output \in Seq(Packet) /\ original \in Seq(Packet) /\ refused \subseteq Packet
          /\ pc \in {"receive", "tsd", "checksum"} /\ held \in Int
          /\ p = << >> \/ (p = <<p[1]>> /\ p[1] \in Packet)

\* q was made before r, of an earlier packet or of an earlier part of the same.
Lt(q, r) == q.id < r.id \/ (q.id = r.id /\ q.ofs < r.ofs)
AllLt(A, B) == \A q \in A, r \in B : Lt(q, r)
Sorted(s) == \A i, j \in DOMAIN s : i < j => Lt(s[i], s[j])
Apart(q, r) == q.id # r.id \/ q.ofs # r.ofs

\* Packets are in order along the way, and a refused one is not among those sent.
Order ==
  /\ Sorted(input) /\ Sorted(middle) /\ Sorted(output)
  /\ AllLt(Range(output), Range(middle))
  /\ AllLt(Range(output) \cup Range(middle) \cup refused, Range(p) \cup Range(input))
  /\ AllLt(Range(p), Range(input))
  /\ \A q \in refused, r \in Range(output) \cup Range(middle) : Apart(q, r)

\* The packets in F are the pieces of the packets in orig.
Tiled(F, orig) ==
  /\ \A q \in F : q.id \in DOMAIN orig /\ q.seq = (orig[q.id].seq + q.ofs) % SeqSpace
  /\ \A i \in DOMAIN orig, b \in Nat :
       b \in Bytes(orig[i]) <=> \E q \in F : q.id = i /\ b \in Bytes(q)
  /\ \A q, r \in F : q.id = r.id /\ q # r => \A b \in Nat : ~(b \in Bytes(q) /\ b \in Bytes(r))

\* What is known of a packet where it is.
Whole(q, orig) == q = orig[q.id] /\ q.ofs = 0 /\ q.total = q.len
Cuttable(q) == q.proto = "tcp"
HeaderRight(q, orig) ==
  q.ipsum = HeaderSum(q.total) \/ (q.ipsum = orig[q.id].ipsum /\ q.len = orig[q.id].len)
Sendable(q, orig) == /\ q.proto = "tcp" => q.len <= mss
                     /\ q.total = q.len /\ (q = orig[q.id] \/ q.sum = Seed(q.len))
                     /\ HeaderRight(q, orig)
Sent(q, orig) == /\ q.proto = "tcp" => q.len <= mss
                 /\ q.total = q.len
                 /\ q.proto \in {"tcp", "udp"} => q.sum = Sum(q) \/ q = orig[q.id]
                 /\ HeaderRight(q, orig)
Places == /\ \A q \in Range(input) : Whole(q, original)
          /\ \A q \in Range(p) : Cuttable(q)
          /\ \A q \in Range(middle) : Sendable(q, original)
          /\ \A q \in Range(output) : Sent(q, original)

Buffers == held = Len(input) + Len(p) + Len(middle) + Len(output)

IInv == TypeOK /\ Order /\ Tiled(InFlight, original) /\ Places /\ Buffers

-----------------------------------------------------------------------------
(* Arithmetic of sequence numbers.                                         *)

LEMMA ModUnique ==
  ASSUME NEW n \in Nat, n > 0, NEW q \in Nat, NEW r \in 0..(n - 1)
  PROVE  (n * q + r) % n = r
  OBVIOUS

LEMMA DivMod ==
  ASSUME NEW n \in Nat, n > 0, NEW a \in Nat
  PROVE  a = n * (a \div n) + (a % n) /\ (a % n) \in 0..(n - 1) /\ a \div n \in Nat
  OBVIOUS

LEMMA ModAdd ==
  ASSUME NEW n \in Nat, n > 0, NEW a \in Nat, NEW b \in Nat
  PROVE  ((a % n) + b) % n = (a + b) % n
  <1> DEFINE q == a \div n
             c == (a % n) + b
             m == c \div n
             r == c % n
  <1>1. a = n * q + (a % n) /\ (a % n) \in Nat /\ q \in Nat
    BY DivMod
  <1>2. c = n * m + r /\ r \in 0..(n - 1) /\ m \in Nat
    <2>1. c \in Nat
      BY <1>1
    <2> HIDE DEF c
    <2> QED
      BY DivMod, <2>1
  <1>3. a + b = n * q + c
    BY <1>1
  <1> HIDE DEF q, c, m, r
  <1>4. n * q + (n * m + r) = n * (q + m) + r /\ q + m \in Nat
    BY <1>1, <1>2
  <1>5. a + b = n * (q + m) + r
    BY <1>2, <1>3, <1>4
  <1>6. (n * (q + m) + r) % n = r
    BY <1>2, <1>4, ModUnique
  <1> QED
    BY <1>5, <1>6 DEF r, c

-----------------------------------------------------------------------------
(* Sequences of packets.                                                   *)

LEMMA TailOf ==
  ASSUME NEW s \in Seq(Packet), s # << >>
  PROVE  /\ Head(s) \in Packet /\ Tail(s) \in Seq(Packet) /\ Len(Tail(s)) = Len(s) - 1
         /\ Range(s) = {Head(s)} \cup Range(Tail(s))
         /\ Sorted(s) => Sorted(Tail(s)) /\ AllLt({Head(s)}, Range(Tail(s)))
  <1>1. Len(s) \in Nat \ {0} /\ DOMAIN s = 1..Len(s) /\ Head(s) = s[1] /\ s[1] \in Packet
    OBVIOUS
  <1>2. /\ Tail(s) \in Seq(Packet) /\ DOMAIN Tail(s) = 1..(Len(s) - 1) /\ Len(Tail(s)) = Len(s) - 1
        /\ \A i \in 1..(Len(s) - 1) : Tail(s)[i] = s[i + 1]
    BY <1>1
  <1>3. \A x \in Range(s) : x \in {Head(s)} \cup Range(Tail(s))
    <2> SUFFICES ASSUME NEW i \in 1..Len(s), i # 1
                 PROVE  s[i] \in Range(Tail(s))
      BY <1>1 DEF Range
    <2>1. i - 1 \in 1..(Len(s) - 1) /\ Tail(s)[i - 1] = s[i]
      BY <1>1, <1>2
    <2> QED
      BY <2>1, <1>2 DEF Range
  <1>4. \A x \in {Head(s)} \cup Range(Tail(s)) : x \in Range(s)
    BY <1>1, <1>2 DEF Range
  <1>5. ASSUME Sorted(s)
        PROVE  Sorted(Tail(s)) /\ AllLt({Head(s)}, Range(Tail(s)))
    BY <1>1, <1>2, <1>5 DEF Sorted, AllLt, Range
  <1> QED
    BY <1>1, <1>2, <1>3, <1>4, <1>5

LEMMA AppendOf ==
  ASSUME NEW s \in Seq(Packet), NEW x \in Packet
  PROVE  /\ Append(s, x) \in Seq(Packet) /\ Len(Append(s, x)) = Len(s) + 1
         /\ Range(Append(s, x)) = Range(s) \cup {x}
         /\ Sorted(s) /\ AllLt(Range(s), {x}) => Sorted(Append(s, x))
  <1>1. Len(s) \in Nat /\ DOMAIN s = 1..Len(s)
    OBVIOUS
  <1>2. /\ Append(s, x) \in Seq(Packet) /\ DOMAIN Append(s, x) = 1..(Len(s) + 1)
        /\ Len(Append(s, x)) = Len(s) + 1
        /\ \A i \in 1..Len(s) : Append(s, x)[i] = s[i]
        /\ Append(s, x)[Len(s) + 1] = x
    BY <1>1
  <1>3. \A i \in 1..(Len(s) + 1) : i \in 1..Len(s) \/ i = Len(s) + 1
    BY <1>1
  <1>4. \A y \in Range(Append(s, x)) : y \in Range(s) \cup {x}
    BY <1>1, <1>2, <1>3 DEF Range
  <1>5. (\A i \in 1..Len(s) : i \in 1..(Len(s) + 1)) /\ Len(s) + 1 \in 1..(Len(s) + 1)
    BY <1>1
  <1>6. \A y \in Range(s) \cup {x} : y \in Range(Append(s, x))
    BY <1>1, <1>2, <1>5 DEF Range
  <1>7. ASSUME Sorted(s), AllLt(Range(s), {x})
        PROVE  Sorted(Append(s, x))
    <2>1. \A i \in 1..Len(s) : Lt(s[i], x)
      BY <1>1, <1>7 DEF AllLt, Range
    <2>2. ASSUME NEW i \in 1..(Len(s) + 1), NEW j \in 1..(Len(s) + 1), i < j
          PROVE  Lt(Append(s, x)[i], Append(s, x)[j])
      <3>1. i \in 1..Len(s)
        BY <1>1, <2>2
      <3> QED
        BY <1>1, <1>2, <1>3, <1>7, <2>1, <2>2, <3>1 DEF Sorted
    <2> QED
      BY <1>2, <2>2 DEF Sorted
  <1> QED
    BY <1>2, <1>4, <1>6, <1>7

LEMMA EmptyRange == Range(<< >>) = {}
  BY DEF Range

LEMMA OneSeq ==
  ASSUME NEW x \in Packet
  PROVE  <<x>> \in Seq(Packet) /\ <<x>> # << >> /\ Len(<<x>>) = 1 /\ <<x>>[1] = x /\ Range(<<x>>) = {x}
  <1>1. DOMAIN <<x>> = {1} /\ <<x>>[1] = x /\ <<x>> \in Seq(Packet) /\ <<x>> # << >> /\ Len(<<x>>) = 1
    OBVIOUS
  <1> QED
    BY <1>1 DEF Range

LEMMA LtFacts ==
  /\ \A q, r \in Packet : Lt(q, r) => Apart(q, r) /\ q # r
  /\ \A q, r \in Packet : Apart(q, r) => q # r
  /\ \A q, r, t \in Packet : Lt(q, r) /\ Lt(r, t) => Lt(q, t)
  BY DEF Lt, Apart, Packet

-----------------------------------------------------------------------------
(* Packets.                                                                *)

\* The same bytes under the same numbers.
Same(q, r) == q.id = r.id /\ q.proto = r.proto /\ q.seq = r.seq /\ q.ofs = r.ofs /\ q.len = r.len

IsCut(c, q, n) ==
  /\ c \in Packet /\ c.id = q.id /\ c.proto = q.proto /\ c.seq = q.seq /\ c.ofs = q.ofs
  /\ c.len = n /\ c.total = n /\ c.sum = Seed(n) /\ c.ipsum = HeaderSum(n)
IsRest(a, q, n) ==
  /\ a \in Packet /\ a.id = q.id /\ a.proto = q.proto /\ a.seq = (q.seq + n) % SeqSpace
  /\ a.ofs = q.ofs + n /\ a.len = q.len - n

LEMMA CutFacts ==
  ASSUME NEW q \in Packet, NEW n \in Nat, NEW c, c = Cut(q, n)
  PROVE  IsCut(c, q, n)
  <1>1. Seed(n) \in SumField /\ HeaderSum(n) \in SumField
    BY DEF Seed, HeaderSum, SumField
  <1> QED
    BY <1>1 DEF Cut, Stamp, Packet, IsCut

LEMMA AdvanceFacts ==
  ASSUME NEW q \in Packet, NEW n \in Nat, n <= q.len, NEW a, a = Advance(q, n)
  PROVE  IsRest(a, q, n)
  <1>1. Seed(n) \in SumField /\ HeaderSum(n) \in SumField
    BY DEF Seed, HeaderSum, SumField
  <1>2. (q.seq + n) % SeqSpace \in Nat
    <2>1. q.seq + n \in Nat
      BY DEF Packet
    <2> QED
      BY <2>1, DivMod, OffloadAssumption
  <1>3. q.ofs + n \in Nat /\ q.len - n \in Nat
    BY DEF Packet
  <1> DEFINE m == (q.seq + n) % SeqSpace
  <1>4. a = [q EXCEPT !.total = n, !.ipsum = HeaderSum(n), !.sum = Seed(n),
                      !.ofs = q.ofs + n, !.len = q.len - n, !.seq = m]
    BY DEF Advance, Stamp, Packet
  <1> HIDE DEF m
  <1>5. m \in Nat
    BY <1>2 DEF m
  <1>6. /\ a \in Packet /\ a.id = q.id /\ a.proto = q.proto /\ a.seq = m
        /\ a.ofs = q.ofs + n /\ a.len = q.len - n
    BY <1>1, <1>3, <1>4, <1>5 DEF Packet
  <1> QED
    BY <1>6 DEF m, IsRest

LEMMA FillFacts ==
  ASSUME NEW q \in Packet, NEW k, k = maybe_fill_in_checksum(q)
  PROVE  /\ k \in Packet /\ Same(k, q) /\ k.total = q.total /\ k.ipsum = q.ipsum
         /\ q.proto \in {"tcp", "udp"} /\ q.sum = Seed(q.len) => k.sum = Sum(k)
         /\ ~(q.proto \in {"tcp", "udp"} /\ q.sum = Seed(q.len)) => k = q
  <1>1. Sum(q) \in SumField
    BY DEF Sum, SumField, Packet
  <1>2. CASE q.proto \in {"tcp", "udp"} /\ q.sum = Seed(q.len)
    <2>1. k = [q EXCEPT !.sum = Sum(q)]
      BY <1>2 DEF maybe_fill_in_checksum
    <2>2. k \in Packet /\ Same(k, q) /\ k.total = q.total /\ k.ipsum = q.ipsum /\ k.sum = Sum(q)
      BY <1>1, <2>1 DEF Packet, Same
    <2>3. Sum(k) = Sum(q)
      BY <2>2 DEF Sum, Same
    <2> QED
      BY <1>2, <2>2, <2>3
  <1>3. CASE ~(q.proto \in {"tcp", "udp"} /\ q.sum = Seed(q.len))
    BY <1>3 DEF maybe_fill_in_checksum, Same
  <1> QED
    BY <1>2, <1>3

-----------------------------------------------------------------------------
(* The pieces of a packet.                                                 *)

\* A piece gives way to one with the same bytes.
LEMMA TiledReplace ==
  ASSUME NEW F \in SUBSET Packet, NEW orig, Tiled(F, orig), NEW h \in F, NEW k \in Packet, Same(k, h),
         NEW G, G = (F \ {h}) \cup {k}
  PROVE  Tiled(G, orig)
  <1>1. Bytes(k) = Bytes(h) /\ k.id = h.id /\ k.seq = h.seq /\ k.ofs = h.ofs
    BY DEF Same, Bytes
  <1>2. \A q \in G : q.id \in DOMAIN orig /\ q.seq = (orig[q.id].seq + q.ofs) % SeqSpace
    BY <1>1 DEF Tiled
  <1>3. ASSUME NEW i \in DOMAIN orig, NEW b \in Nat
        PROVE  b \in Bytes(orig[i]) <=> \E q \in G : q.id = i /\ b \in Bytes(q)
    BY <1>1 DEF Tiled
  <1>4. ASSUME NEW q \in G, NEW r \in G, q.id = r.id, q # r, NEW b \in Nat
        PROVE  ~(b \in Bytes(q) /\ b \in Bytes(r))
    BY <1>1, <1>4 DEF Tiled
  <1> QED
    BY <1>2, <1>3, <1>4 DEF Tiled

\* A piece is cut in two.
LEMMA TiledSplit ==
  ASSUME NEW F \in SUBSET Packet, NEW orig, Tiled(F, orig), NEW h \in F, NEW n \in Nat, n <= h.len,
         \A i \in DOMAIN orig : orig[i].seq \in Nat,
         NEW c, c = Cut(h, n), NEW a, a = Advance(h, n),
         NEW G, G = (F \ {h}) \cup {c, a}
  PROVE  Tiled(G, orig)
  <1>0. h \in Packet /\ h.ofs \in Nat /\ h.len \in Nat /\ h.seq \in Nat
    BY DEF Packet
  <1>1. /\ c \in Packet /\ c.id = h.id /\ c.seq = h.seq /\ c.ofs = h.ofs /\ c.len = n
        /\ a \in Packet /\ a.id = h.id /\ a.seq = (h.seq + n) % SeqSpace
        /\ a.ofs = h.ofs + n /\ a.len = h.len - n
    <2>1. IsCut(c, h, n)
      BY <1>0, CutFacts
    <2>2. IsRest(a, h, n)
      BY <1>0, AdvanceFacts
    <2> QED
      BY <2>1, <2>2 DEF IsCut, IsRest
  <1>2. \A b \in Nat : /\ b \in Bytes(h) <=> b \in Bytes(c) \/ b \in Bytes(a)
                       /\ ~(b \in Bytes(c) /\ b \in Bytes(a))
    BY <1>0, <1>1 DEF Bytes
  <1>3. /\ h.id \in DOMAIN orig /\ h.seq = (orig[h.id].seq + h.ofs) % SeqSpace
    BY DEF Tiled
  <1>4. a.seq = (orig[a.id].seq + a.ofs) % SeqSpace
    <2> DEFINE x == orig[h.id].seq
    <2>1. x \in Nat
      BY <1>3
    <2>2. a.seq = (((x + h.ofs) % SeqSpace) + n) % SeqSpace
      BY <1>1, <1>3
    <2> HIDE DEF x
    <2>3. x + h.ofs \in Nat /\ (x + h.ofs) + n = x + (h.ofs + n)
      BY <1>0, <2>1
    <2>4. (((x + h.ofs) % SeqSpace) + n) % SeqSpace = ((x + h.ofs) + n) % SeqSpace
      BY <2>3, ModAdd, OffloadAssumption
    <2>5. a.seq = (x + a.ofs) % SeqSpace
      BY <1>1, <2>2, <2>3, <2>4
    <2> QED
      BY <1>1, <2>5 DEF x
  <1>5. \A q \in G : q.id \in DOMAIN orig /\ q.seq = (orig[q.id].seq + q.ofs) % SeqSpace
    <2>1. c.id \in DOMAIN orig /\ c.seq = (orig[c.id].seq + c.ofs) % SeqSpace
      BY <1>1, <1>3
    <2>2. a.id \in DOMAIN orig
      BY <1>1, <1>3
    <2>3. \A q \in F : q.id \in DOMAIN orig /\ q.seq = (orig[q.id].seq + q.ofs) % SeqSpace
      BY DEF Tiled
    <2> QED
      BY <1>4, <2>1, <2>2, <2>3
  <1>6. ASSUME NEW i \in DOMAIN orig, NEW b \in Nat
        PROVE  b \in Bytes(orig[i]) <=> \E q \in G : q.id = i /\ b \in Bytes(q)
    <2>1. b \in Bytes(orig[i]) <=> \E q \in F : q.id = i /\ b \in Bytes(q)
      BY DEF Tiled
    <2>2. ASSUME NEW q \in F, q.id = i, b \in Bytes(q)
          PROVE  \E r \in G : r.id = i /\ b \in Bytes(r)
      BY <1>1, <1>2, <2>2
    <2>3. ASSUME NEW r \in G, r.id = i, b \in Bytes(r)
          PROVE  \E q \in F : q.id = i /\ b \in Bytes(q)
      BY <1>1, <1>2, <2>3
    <2> QED
      BY <2>1, <2>2, <2>3
  <1>7. ASSUME NEW q \in G, NEW r \in G, q.id = r.id, q # r, NEW b \in Nat
        PROVE  ~(b \in Bytes(q) /\ b \in Bytes(r))
    <2>1. \A x, y \in F : x.id = y.id /\ x # y => ~(b \in Bytes(x) /\ b \in Bytes(y))
      BY DEF Tiled
    <2>2. \A x \in F \ {h} : x.id = h.id => ~(b \in Bytes(x) /\ b \in Bytes(h))
      BY <2>1
    <2>3. CASE q \in F \ {h} /\ r \in F \ {h}
      BY <1>7, <2>1, <2>3
    <2>4. CASE q \in {c, a} /\ r \in F \ {h}
      BY <1>1, <1>2, <1>7, <2>2, <2>4
    <2>5. CASE q \in F \ {h} /\ r \in {c, a}
      BY <1>1, <1>2, <1>7, <2>2, <2>5
    <2>6. CASE q \in {c, a} /\ r \in {c, a}
      BY <1>2, <1>7, <2>6
    <2> QED
      BY <2>3, <2>4, <2>5, <2>6
  <1> QED
    BY <1>5, <1>6, <1>7 DEF Tiled

\* A piece without bytes goes.
LEMMA TiledDrop ==
  ASSUME NEW F \in SUBSET Packet, NEW orig, Tiled(F, orig), NEW h, h.ofs \in Nat, h.len = 0,
         NEW G, F = G \cup {h}
  PROVE  Tiled(G, orig)
  <1>1. \A b \in Nat : b \notin Bytes(h)
    BY DEF Bytes
  <1> QED
    BY <1>1 DEF Tiled

\* A packet comes in.
LEMMA TiledNew ==
  ASSUME NEW F \in SUBSET Packet, NEW orig \in Seq(Packet), Tiled(F, orig),
         NEW h \in Packet, h.id = Len(orig) + 1, h.ofs = 0, h.seq \in 0..(SeqSpace - 1)
  PROVE  Tiled(F \cup {h}, Append(orig, h))
  <1> DEFINE o == Append(orig, h)
             n == Len(orig) + 1
  <1>1. /\ DOMAIN orig = 1..Len(orig) /\ Len(orig) \in Nat
        /\ DOMAIN o = 1..n /\ o[n] = h
        /\ \A i \in 1..Len(orig) : o[i] = orig[i] /\ i \in 1..n /\ i # n
        /\ n \in 1..n /\ \A i \in 1..n : i \in 1..Len(orig) \/ i = n
    OBVIOUS
  <1> HIDE DEF o, n
  <1>2. h.id = n
    BY DEF n
  <1>3. \A q \in F : q.id \in DOMAIN orig /\ q.seq = (orig[q.id].seq + q.ofs) % SeqSpace
    BY DEF Tiled
  <1>4. h.seq = (h.seq + h.ofs) % SeqSpace
    <2>1. h.seq + 0 = h.seq /\ h.seq \in Nat /\ SeqSpace * 0 + h.seq = h.seq
      BY OffloadAssumption
    <2>2. (SeqSpace * 0 + h.seq) % SeqSpace = h.seq
      BY ModUnique, OffloadAssumption
    <2> QED
      BY <2>1, <2>2
  <1>5. \A q \in F \cup {h} : q.id \in DOMAIN o /\ q.seq = (o[q.id].seq + q.ofs) % SeqSpace
    <2>1. \A q \in F : q.id \in DOMAIN o /\ o[q.id] = orig[q.id]
      BY <1>1, <1>3
    <2>2. h.id \in DOMAIN o /\ o[h.id] = h
      BY <1>1, <1>2
    <2> QED
      BY <1>3, <1>4, <2>1, <2>2
  <1>6. ASSUME NEW i \in DOMAIN o, NEW b \in Nat
        PROVE  b \in Bytes(o[i]) <=> \E q \in F \cup {h} : q.id = i /\ b \in Bytes(q)
    <2>1. CASE i = n
      BY <1>1, <1>2, <1>3, <2>1
    <2>2. CASE i \in DOMAIN orig
      BY <1>1, <1>2, <2>2 DEF Tiled
    <2> QED
      BY <1>1, <2>1, <2>2
  <1>7. ASSUME NEW q \in F \cup {h}, NEW r \in F \cup {h}, q.id = r.id, q # r, NEW b \in Nat
        PROVE  ~(b \in Bytes(q) /\ b \in Bytes(r))
    <2>1. q \in F /\ r \in F
      BY <1>1, <1>2, <1>3, <1>7
    <2> QED
      BY <1>7, <2>1 DEF Tiled
  <1> QED
    BY <1>5, <1>6, <1>7 DEF Tiled, o

-----------------------------------------------------------------------------
(* The steps.                                                              *)

LEMMA InitInv ==
  ASSUME Init
  PROVE  IInv
  <1>1. TypeOK
    BY DEF Init, TypeOK
  <1>2. /\ Range(input) = {} /\ Range(p) = {} /\ Range(middle) = {} /\ Range(output) = {}
        /\ refused = {} /\ DOMAIN original = {}
    BY EmptyRange DEF Init
  <1>3. Order
    BY <1>2 DEF Init, Order, Sorted, AllLt
  <1>4. Tiled(InFlight, original)
    BY <1>2 DEF Tiled, InFlight
  <1>5. Places /\ Buffers
    BY <1>2 DEF Init, Places, Buffers
  <1> QED
    BY <1>1, <1>3, <1>4, <1>5 DEF IInv

\* Packets that are in flight are packets, and name one that was received.
LEMMA FlightFacts ==
  ASSUME IInv
  PROVE  /\ Range(input) \subseteq Packet /\ Range(p) \subseteq Packet /\ Range(middle) \subseteq Packet
         /\ Range(output) \subseteq Packet /\ refused \subseteq Packet
         /\ InFlight \in SUBSET Packet
         /\ \A q \in InFlight : q.id \in 1..Len(original)
         /\ \A i \in DOMAIN original : original[i] \in Packet /\ original[i].seq \in Nat
  <1>1. \A s \in Seq(Packet) : Range(s) \subseteq Packet
    BY DEF Range
  <1>2. /\ Range(input) \subseteq Packet /\ Range(p) \subseteq Packet /\ Range(middle) \subseteq Packet
        /\ Range(output) \subseteq Packet /\ refused \subseteq Packet
    BY <1>1 DEF IInv, TypeOK
  <1>3. DOMAIN original = 1..Len(original) /\ \A i \in DOMAIN original : original[i] \in Packet
    BY DEF IInv, TypeOK
  <1>4. \A q \in InFlight : q.id \in 1..Len(original)
    BY <1>3 DEF IInv, Tiled
  <1>5. \A q \in Packet : q.seq \in Nat
    BY DEF Packet
  <1> QED
    BY <1>2, <1>3, <1>4, <1>5 DEF InFlight

LEMMA ReceiveStep ==
  ASSUME IInv, NEW proto \in {"tcp", "udp", "none"}, NEW seq \in Seqs, NEW len \in Lengths,
         NEW sum \in {"seed", "ok", "bad"}, NEW ipsum \in {"ok", "bad"},
         Receive(proto, seq, len, sum, ipsum)
  PROVE  IInv'
  <1> DEFINE n == Len(original) + 1
             w == IF ipsum = "ok" THEN HeaderSum(len) ELSE Other
             q == [id |-> n, proto |-> proto, seq |-> seq, ofs |-> 0,
                   len |-> len, total |-> len, sum |-> Seed(len), ipsum |-> w]
             v == CASE sum = "seed" -> Seed(len) [] sum = "ok" -> Sum(q) [] sum = "bad" -> Other
             r == [q EXCEPT !.sum = v]
  <1>1. /\ input' = Append(input, r) /\ original' = Append(original, r) /\ held' = held + 1
        /\ UNCHANGED <<p, middle, output, pc, refused>>
    BY DEF Receive
  <1>2. n \in Nat /\ len \in Nat /\ seq \in Nat /\ seq \in 0..(SeqSpace - 1) /\ Len(original) \in Nat
    BY OffloadAssumption DEF IInv, TypeOK
  <1>3. v \in SumField /\ w \in SumField
    <2>1. Seed(len) \in SumField /\ HeaderSum(len) \in SumField /\ Other \in SumField
      BY <1>2 DEF Seed, HeaderSum, SumField
    <2>2. Sum(q) \in SumField
      <3>1. Sum(q) = [over |-> "contents", id |-> n, seq |-> seq, ofs |-> 0, len |-> len]
        BY DEF Sum
      <3>2. \A i, s, o, l \in Nat :
              [over |-> "contents", id |-> i, seq |-> s, ofs |-> o, len |-> l] \in SumField
        BY DEF SumField
      <3> HIDE DEF q, v, w, r, n
      <3> QED
        BY <1>2, <3>1, <3>2
    <2> QED
      BY <2>1, <2>2
  <1>4. r = [id |-> n, proto |-> proto, seq |-> seq, ofs |-> 0, len |-> len, total |-> len,
             sum |-> v, ipsum |-> w]
    OBVIOUS
  <1> HIDE DEF v, w, n
  <1>5. /\ r \in Packet /\ r.id = n /\ r.proto = proto /\ r.seq = seq /\ r.ofs = 0 /\ r.len = len
        /\ r.total = len
    BY <1>2, <1>3, <1>4 DEF Packet
  <1> HIDE DEF r
  <1>6. /\ input \in Seq(Packet) /\ original \in Seq(Packet)
        /\ input' \in Seq(Packet) /\ original' \in Seq(Packet)
        /\ Range(input') = Range(input) \cup {r} /\ Len(input') = Len(input) + 1
        /\ Len(input) \in Nat
    <2>1. input \in Seq(Packet) /\ original \in Seq(Packet) /\ Len(input) \in Nat
      BY DEF IInv, TypeOK
    <2>2. Append(original, r) \in Seq(Packet)
      BY <1>5, <2>1, AppendOf
    <2>3. /\ Append(input, r) \in Seq(Packet) /\ Range(Append(input, r)) = Range(input) \cup {r}
          /\ Len(Append(input, r)) = Len(input) + 1
      BY <1>5, <2>1, AppendOf
    <2> QED
      BY <1>1, <2>1, <2>2, <2>3
  <1>7. \A x \in InFlight : x \in Packet /\ Lt(x, r) /\ x.id \in 1..Len(original)
    <2>1. \A x \in InFlight : x \in Packet /\ x.id \in 1..Len(original)
      BY FlightFacts
    <2> QED
      BY <1>2, <1>5, <2>1 DEF Lt, n
  <1>8. TypeOK'
    BY <1>1, <1>6 DEF IInv, TypeOK
  <1>9. Order'
    <2>1. Sorted(input')
      BY <1>1, <1>5, <1>6, <1>7, AppendOf DEF IInv, Order, AllLt, InFlight
    <2>2. AllLt(Range(output) \cup Range(middle) \cup refused \cup Range(p), {r})
      BY <1>7 DEF AllLt, InFlight
    <2> QED
      BY <1>1, <1>6, <2>1, <2>2 DEF IInv, Order, AllLt
  <1>10. Tiled(InFlight, original)'
    <2>1. InFlight' = InFlight \cup {r}
      BY <1>1, <1>6 DEF InFlight
    <2>2. Tiled(InFlight \cup {r}, Append(original, r))
      BY <1>2, <1>5, <1>6, FlightFacts, TiledNew DEF IInv, n
    <2> QED
      BY <1>1, <2>1, <2>2
  <1>11. Places'
    <2>1. \A i \in 1..Len(original) : original'[i] = original[i]
      BY <1>1, <1>5, <1>6
    <2>2. original'[n] = r
      BY <1>1, <1>5, <1>6 DEF n
    <2>3. Whole(r, original')
      BY <1>5, <2>2 DEF Whole
    <2>4. \A x \in InFlight : original'[x.id] = original[x.id]
      BY <1>7, <2>1
    <2> QED
      BY <1>1, <1>6, <2>3, <2>4 DEF IInv, Places, Whole, Sendable, Sent, HeaderRight, InFlight
  <1>12. Buffers'
    <2>1. Len(p) \in Nat /\ Len(middle) \in Nat /\ Len(output) \in Nat
      BY DEF IInv, TypeOK
    <2> QED
      BY <1>1, <1>6, <2>1 DEF IInv, Buffers
  <1> QED
    BY <1>8, <1>9, <1>10, <1>11, <1>12 DEF IInv

\* A packet or segment x that comes after all that were sent is sent.
LEMMA TransmitFacts ==
  ASSUME IInv, NEW x \in Packet, Transmit(x), UNCHANGED <<output, original>>,
         AllLt(Range(output) \cup Range(middle) \cup refused, {x}), Sendable(x, original)
  PROVE  /\ middle' \in Seq(Packet) /\ refused' \subseteq Packet
         /\ Len(middle') = Len(middle) + 1 - Returned(x)
         /\ Range(middle') \cup refused' = Range(middle) \cup refused \cup {x}
         /\ Sorted(middle') /\ AllLt(Range(output'), Range(middle'))
         /\ \A q \in refused', r \in Range(output') \cup Range(middle') : Apart(q, r)
         /\ \A q \in Range(middle') : Sendable(q, original')
  <1>1. /\ middle \in Seq(Packet) /\ Len(middle) \in Nat /\ refused \subseteq Packet
        /\ Range(middle) \subseteq Packet /\ Range(output) \subseteq Packet
    BY FlightFacts DEF IInv, TypeOK
  <1>2. /\ Sorted(middle) /\ AllLt(Range(output), Range(middle))
        /\ \A q \in refused, r \in Range(output) \cup Range(middle) : Apart(q, r)
        /\ \A q \in Range(middle) : Sendable(q, original)
    BY DEF IInv, Order, Places
  <1>3. \A q \in Range(output) \cup Range(middle) \cup refused : Lt(q, x) /\ Apart(q, x) /\ Apart(x, q)
    BY <1>1, LtFacts DEF AllLt, Apart
  <1>4. CASE Len(middle) < Capacity
    <2>1. middle' = Append(middle, x) /\ refused' = refused /\ Returned(x) = 0
      BY <1>4 DEF Transmit, Returned
    <2>2. AllLt(Range(middle), {x})
      BY DEF AllLt
    <2>3. /\ middle' \in Seq(Packet) /\ Len(middle') = Len(middle) + 1
          /\ Range(middle') = Range(middle) \cup {x} /\ Sorted(middle')
      BY <1>1, <1>2, <2>1, <2>2, AppendOf
    <2> QED
      BY <1>1, <1>2, <1>3, <2>1, <2>3 DEF AllLt
  <1>5. CASE ~(Len(middle) < Capacity)
    <2>1. middle' = middle /\ refused' = refused \cup {x} /\ Returned(x) = 1
      BY <1>5 DEF Transmit, Returned
    <2> QED
      BY <1>1, <1>2, <1>3, <2>1 DEF AllLt
  <1> QED
    BY <1>4, <1>5

\* What the first packet on the input is to the others.
LEMMA InputFacts ==
  ASSUME IInv, input # << >>
  PROVE  /\ Head(input) \in Packet /\ Whole(Head(input), original)
         /\ Tail(input) \in Seq(Packet) /\ Len(Tail(input)) = Len(input) - 1
         /\ Range(input) = {Head(input)} \cup Range(Tail(input))
         /\ Sorted(Tail(input)) /\ AllLt({Head(input)}, Range(Tail(input)))
         /\ AllLt(Range(output) \cup Range(middle) \cup refused, {Head(input)})
  <1>1. input \in Seq(Packet) /\ Sorted(input)
    BY DEF IInv, TypeOK, Order
  <1>2. /\ Head(input) \in Packet /\ Tail(input) \in Seq(Packet) /\ Len(Tail(input)) = Len(input) - 1
        /\ Range(input) = {Head(input)} \cup Range(Tail(input))
        /\ Sorted(Tail(input)) /\ AllLt({Head(input)}, Range(Tail(input)))
    BY <1>1, TailOf
  <1>3. Whole(Head(input), original)
    BY <1>2 DEF IInv, Places
  <1>4. AllLt(Range(output) \cup Range(middle) \cup refused, {Head(input)})
    BY <1>2 DEF IInv, Order, AllLt
  <1> QED
    BY <1>2, <1>3, <1>4

LEMMA ForwardStep ==
  ASSUME IInv, ForwardAsIs
  PROVE  IInv'
  <1> DEFINE h == Head(input)
  <1>1. /\ input # << >> /\ p = << >> /\ input' = Tail(input) /\ Transmit(h)
        /\ held' = held - Returned(h) /\ UNCHANGED <<p, output, pc, original>>
        /\ h.proto # "tcp" \/ Fits(h)
    BY DEF ForwardAsIs
  <1>2. /\ h \in Packet /\ Whole(h, original)
        /\ input' \in Seq(Packet) /\ Len(input') = Len(input) - 1
        /\ Range(input) = {h} \cup Range(input')
        /\ Sorted(input') /\ AllLt({h}, Range(input'))
        /\ AllLt(Range(output) \cup Range(middle) \cup refused, {h})
    BY <1>1, InputFacts
  <1> HIDE DEF h
  <1>3. Sendable(h, original)
    BY <1>1, <1>2 DEF Sendable, Whole, Fits, HeaderRight
  <1>4. /\ middle' \in Seq(Packet) /\ refused' \subseteq Packet
        /\ Len(middle') = Len(middle) + 1 - Returned(h)
        /\ Range(middle') \cup refused' = Range(middle) \cup refused \cup {h}
        /\ Sorted(middle') /\ AllLt(Range(output'), Range(middle'))
        /\ \A q \in refused', r \in Range(output') \cup Range(middle') : Apart(q, r)
        /\ \A q \in Range(middle') : Sendable(q, original')
    BY <1>1, <1>2, <1>3, TransmitFacts
  <1>5. TypeOK'
    <2>1. Returned(h) \in Int
      BY DEF Returned
    <2> QED
      BY <1>1, <1>2, <1>4, <2>1 DEF IInv, TypeOK
  <1>6. Order'
    <2>1. Range(p') = {}
      BY <1>1, EmptyRange
    <2>2. AllLt(Range(output') \cup Range(middle') \cup refused', Range(input'))
      BY <1>1, <1>2, <1>4 DEF IInv, Order, AllLt
    <2> QED
      BY <1>1, <1>2, <1>4, <2>1, <2>2 DEF IInv, Order, AllLt
  <1>7. Tiled(InFlight, original)'
    <2>1. InFlight' = InFlight
      BY <1>1, <1>2, <1>4 DEF InFlight
    <2> QED
      BY <1>1, <2>1 DEF IInv
  <1>8. Places'
    BY <1>1, <1>2, <1>4 DEF IInv, Places
  <1>9. Buffers'
    <2>1. Len(p) \in Nat /\ Len(middle) \in Nat /\ Len(output) \in Nat /\ Len(input) \in Nat
      BY DEF IInv, TypeOK
    <2>2. Returned(h) \in {0, 1}
      BY DEF Returned
    <2>3. /\ held' = held - Returned(h) /\ Len(input') = Len(input) - 1 /\ Len(p') = Len(p)
          /\ Len(middle') = Len(middle) + 1 - Returned(h) /\ Len(output') = Len(output)
          /\ held = Len(input) + Len(p) + Len(middle) + Len(output)
      BY <1>1, <1>2, <1>4 DEF IInv, Buffers
    <2>4. CASE Returned(h) = 0
      BY <2>1, <2>3, <2>4 DEF Buffers
    <2>5. CASE Returned(h) = 1
      BY <2>1, <2>3, <2>5 DEF Buffers
    <2> QED
      BY <2>2, <2>4, <2>5
  <1> QED
    BY <1>5, <1>6, <1>7, <1>8, <1>9 DEF IInv

LEMMA SegmentStep ==
  ASSUME IInv, Segment
  PROVE  IInv'
  <1> DEFINE h == Head(input)
  <1>1. /\ input # << >> /\ p = << >> /\ input' = Tail(input) /\ p' = <<h>>
        /\ UNCHANGED <<middle, output, pc, original, refused, held>>
        /\ h.proto = "tcp"
    BY DEF Segment
  <1>2. /\ h \in Packet /\ Whole(h, original)
        /\ input' \in Seq(Packet) /\ Len(input') = Len(input) - 1
        /\ Range(input) = {h} \cup Range(input')
        /\ Sorted(input') /\ AllLt({h}, Range(input'))
        /\ AllLt(Range(output) \cup Range(middle) \cup refused, {h})
    BY <1>1, InputFacts
  <1> HIDE DEF h
  <1>3. p' \in Seq(Packet) /\ p'[1] = h /\ Len(p') = 1 /\ Range(p') = {h} /\ Range(p) = {} /\ Len(p) = 0
    BY <1>1, <1>2, OneSeq, EmptyRange
  <1>4. TypeOK'
    BY <1>1, <1>2, <1>3 DEF IInv, TypeOK
  <1>5. Order'
    BY <1>1, <1>2, <1>3 DEF IInv, Order, AllLt
  <1>6. Tiled(InFlight, original)'
    <2>1. InFlight' = InFlight
      BY <1>1, <1>2, <1>3 DEF InFlight
    <2> QED
      BY <1>1, <2>1 DEF IInv
  <1>7. Places'
    BY <1>1, <1>2, <1>3 DEF IInv, Places, Cuttable
  <1>8. Buffers'
    <2>1. Len(middle) \in Nat /\ Len(output) \in Nat /\ Len(input) \in Nat
      BY DEF IInv, TypeOK
    <2> QED
      BY <1>1, <1>2, <1>3, <2>1 DEF IInv, Buffers
  <1> QED
    BY <1>4, <1>5, <1>6, <1>7, <1>8 DEF IInv

\* The packet being cut up.
LEMMA CutUpFacts ==
  ASSUME IInv, p # << >>
  PROVE  /\ p[1] \in Packet /\ Range(p) = {p[1]} /\ Len(p) = 1 /\ Cuttable(p[1])
         /\ p[1].len \in Nat /\ p[1].ofs \in Nat
         /\ AllLt(Range(output) \cup Range(middle) \cup refused, {p[1]})
         /\ AllLt({p[1]}, Range(input))
         /\ p[1] \notin Range(output) \cup Range(middle) \cup refused \cup Range(input)
  <1>1. p = <<p[1]>> /\ p[1] \in Packet
    BY DEF IInv, TypeOK
  <1>2. Range(p) = {p[1]} /\ Len(p) = 1
    BY <1>1, OneSeq
  <1>3. p[1].len \in Nat /\ p[1].ofs \in Nat
    BY <1>1 DEF Packet
  <1>4. /\ AllLt(Range(output) \cup Range(middle) \cup refused, {p[1]})
        /\ AllLt({p[1]}, Range(input)) /\ Cuttable(p[1])
    BY <1>2 DEF IInv, Order, AllLt, Places
  <1>5. p[1] \notin Range(output) \cup Range(middle) \cup refused \cup Range(input)
    BY <1>1, <1>4, LtFacts DEF AllLt
  <1> QED
    BY <1>1, <1>2, <1>3, <1>4, <1>5

LEMMA EmitStep ==
  ASSUME IInv, EmitSegment
  PROVE  IInv'
  <1> DEFINE h == p[1]
             n == IF h.len < mss THEN h.len ELSE mss
             c == Cut(h, n)
             a == Advance(h, n)
  <1>1. /\ p # << >> /\ h.len > 0 /\ p' = <<a>> /\ Transmit(c) /\ held' = held + 1 - Returned(h)
        /\ UNCHANGED <<input, output, pc, original>>
    BY DEF EmitSegment
  <1>2. /\ h \in Packet /\ Range(p) = {h} /\ Len(p) = 1 /\ Cuttable(h)
        /\ h.len \in Nat /\ h.ofs \in Nat
        /\ AllLt(Range(output) \cup Range(middle) \cup refused, {h})
        /\ AllLt({h}, Range(input))
        /\ h \notin Range(output) \cup Range(middle) \cup refused \cup Range(input)
    BY <1>1, CutUpFacts
  <1> HIDE DEF h
  <1>3. n \in Nat /\ n > 0 /\ n <= h.len /\ n <= mss
    BY <1>1, <1>2, MssAssumption
  <1> HIDE DEF n
  <1>4. IsCut(c, h, n) /\ IsRest(a, h, n)
    <2>1. IsCut(c, h, n)
      BY <1>2, <1>3, CutFacts
    <2>2. IsRest(a, h, n)
      BY <1>2, <1>3, AdvanceFacts
    <2> QED
      BY <2>1, <2>2
  <1>5. Tiled((InFlight \ {h}) \cup {c, a}, original)
    <2>1. h \in InFlight
      BY <1>2 DEF InFlight
    <2>2. InFlight \in SUBSET Packet /\ \A i \in DOMAIN original : original[i].seq \in Nat
      BY FlightFacts
    <2>3. Tiled(InFlight, original)
      BY DEF IInv
    <2> QED
      BY <1>3, <2>1, <2>2, <2>3, TiledSplit
  <1> HIDE DEF c, a
  <1>6. Sendable(c, original)
    BY <1>3, <1>4 DEF Sendable, IsCut, HeaderRight
  <1>7. AllLt(Range(output) \cup Range(middle) \cup refused, {c})
    BY <1>2, <1>4 DEF IsCut, AllLt, Lt
  <1>8. /\ middle' \in Seq(Packet) /\ refused' \subseteq Packet
        /\ Len(middle') = Len(middle) + 1 - Returned(c)
        /\ Range(middle') \cup refused' = Range(middle) \cup refused \cup {c}
        /\ Sorted(middle') /\ AllLt(Range(output'), Range(middle'))
        /\ \A q \in refused', r \in Range(output') \cup Range(middle') : Apart(q, r)
        /\ \A q \in Range(middle') : Sendable(q, original')
    BY <1>1, <1>4, <1>6, <1>7, TransmitFacts DEF IsCut
  <1>9. p' \in Seq(Packet) /\ p'[1] = a /\ a \in Packet /\ Len(p') = 1 /\ Range(p') = {a}
    BY <1>1, <1>4, OneSeq DEF IsRest
  <1>10. TypeOK'
    <2>1. Returned(h) \in Int
      BY DEF Returned
    <2> QED
      BY <1>1, <1>8, <1>9, <2>1 DEF IInv, TypeOK
  <1>11. Order'
    <2>1. Lt(c, a)
      BY <1>2, <1>3, <1>4 DEF IsCut, IsRest, Lt
    <2>2. \A x \in Range(input) : Lt(c, x) /\ Lt(a, x)
      <3>1. SUFFICES ASSUME NEW x \in Range(input)
                     PROVE  Lt(c, x) /\ Lt(a, x)
        OBVIOUS
      <3>2. x \in Packet /\ x.ofs = 0 /\ Lt(h, x)
        BY <1>2, FlightFacts DEF IInv, Places, Whole, AllLt
      <3>3. h.id < x.id
        BY <1>2, <3>2 DEF Lt
      <3> QED
        BY <1>4, <3>3 DEF IsCut, IsRest, Lt
    <2>3. \A x \in Range(output) \cup Range(middle) \cup refused : Lt(x, a)
      <3>1. \A x \in Range(output) \cup Range(middle) \cup refused : x \in Packet /\ Lt(x, c)
        BY <1>7, FlightFacts DEF AllLt
      <3>2. c \in Packet /\ a \in Packet
        BY <1>4 DEF IsCut, IsRest
      <3> QED
        BY <2>1, <3>1, <3>2, LtFacts
    <2>4. \A x \in Range(output') \cup Range(middle') \cup refused' :
            x \in Range(output) \cup Range(middle) \cup refused \cup {c}
      BY <1>1, <1>8
    <2>5. AllLt(Range(output') \cup Range(middle') \cup refused', Range(p') \cup Range(input'))
      <3>1. \A x \in Range(output) \cup Range(middle) \cup refused, y \in Range(input) : Lt(x, y)
        BY DEF IInv, Order, AllLt
      <3> QED
        BY <1>1, <1>9, <2>1, <2>2, <2>3, <2>4, <3>1 DEF AllLt
    <2>6. AllLt(Range(p'), Range(input'))
      BY <1>1, <1>9, <2>2 DEF AllLt
    <2> QED
      BY <1>1, <1>8, <2>5, <2>6 DEF IInv, Order
  <1>12. Tiled(InFlight, original)'
    <2>1. InFlight' = (InFlight \ {h}) \cup {c, a}
      BY <1>1, <1>2, <1>8, <1>9 DEF InFlight
    <2> QED
      BY <1>1, <1>5, <2>1
  <1>13. Places'
    BY <1>1, <1>2, <1>4, <1>8, <1>9 DEF IInv, Places, Cuttable, IsRest
  <1>14. Buffers'
    <2>1. Len(middle) \in Nat /\ Len(output) \in Nat /\ Len(input) \in Nat
      BY DEF IInv, TypeOK
    <2>2. Returned(h) \in {0, 1} /\ Returned(c) = Returned(h)
      BY DEF Returned
    <2>3. /\ held' = held + 1 - Returned(h) /\ Len(input') = Len(input) /\ Len(p') = Len(p)
          /\ Len(middle') = Len(middle) + 1 - Returned(h) /\ Len(output') = Len(output)
          /\ held = Len(input) + Len(p) + Len(middle) + Len(output) /\ Len(p) = 1
      BY <1>1, <1>2, <1>8, <1>9, <2>2 DEF IInv, Buffers
    <2>4. held \in Int /\ held' = held + (1 - Returned(h))
      BY <2>1, <2>2, <2>3
    <2>5. CASE Returned(h) = 0
      BY <2>1, <2>3, <2>4, <2>5 DEF Buffers
    <2>6. CASE Returned(h) = 1
      BY <2>1, <2>3, <2>4, <2>6 DEF Buffers
    <2> QED
      BY <2>2, <2>5, <2>6
  <1> QED
    BY <1>10, <1>11, <1>12, <1>13, <1>14 DEF IInv

LEMMA FreeStep ==
  ASSUME IInv, FreeSegmented
  PROVE  IInv'
  <1>1. /\ p # << >> /\ p[1].len = 0 /\ p' = << >> /\ held' = held - 1
        /\ UNCHANGED <<input, middle, output, pc, original, refused>>
    BY DEF FreeSegmented
  <1>2. /\ p[1] \in Packet /\ Range(p) = {p[1]} /\ Len(p) = 1 /\ p[1].ofs \in Nat
    BY <1>1, CutUpFacts
  <1>3. p' \in Seq(Packet) /\ Len(p') = 0 /\ Range(p') = {}
    BY <1>1, EmptyRange
  <1>4. TypeOK'
    BY <1>1, <1>3 DEF IInv, TypeOK
  <1>5. Order' /\ Places'
    BY <1>1, <1>3 DEF IInv, Order, AllLt, Places
  <1>6. Tiled(InFlight, original)'
    <2>1. InFlight = InFlight' \cup {p[1]}
      BY <1>1, <1>2, <1>3 DEF InFlight
    <2>2. InFlight \in SUBSET Packet /\ Tiled(InFlight, original)
      BY FlightFacts DEF IInv
    <2>3. Tiled(InFlight', original)
      BY <1>1, <1>2, <2>1, <2>2, TiledDrop
    <2> QED
      BY <1>1, <2>3
  <1>7. Buffers'
    <2>1. Len(middle) \in Nat /\ Len(output) \in Nat /\ Len(input) \in Nat
      BY DEF IInv, TypeOK
    <2>2. /\ held' = held - 1 /\ Len(input') = Len(input) /\ Len(p') = 0 /\ Len(middle') = Len(middle)
          /\ Len(output') = Len(output)
          /\ held = Len(input) + Len(p) + Len(middle) + Len(output) /\ Len(p) = 1
      BY <1>1, <1>2, <1>3 DEF IInv, Buffers
    <2> QED
      BY <2>1, <2>2 DEF Buffers
  <1> QED
    BY <1>4, <1>5, <1>6, <1>7 DEF IInv

LEMMA ChecksumStep ==
  ASSUME IInv, Checksum
  PROVE  IInv'
  <1> DEFINE h == Head(middle)
             k == maybe_fill_in_checksum(h)
  <1>1. /\ middle # << >> /\ middle' = Tail(middle) /\ output' = Append(output, k)
        /\ UNCHANGED <<input, p, pc, original, refused, held>>
    BY DEF Checksum
  <1>2. /\ h \in Packet /\ middle' \in Seq(Packet) /\ Len(middle') = Len(middle) - 1
        /\ Range(middle) = {h} \cup Range(middle')
        /\ Sorted(middle') /\ AllLt({h}, Range(middle'))
    <2>1. middle \in Seq(Packet) /\ Sorted(middle)
      BY DEF IInv, TypeOK, Order
    <2> QED
      BY <1>1, <2>1, TailOf
  <1> HIDE DEF h
  <1>3. /\ k \in Packet /\ Same(k, h) /\ k.total = h.total /\ k.ipsum = h.ipsum
        /\ h.proto \in {"tcp", "udp"} /\ h.sum = Seed(h.len) => k.sum = Sum(k)
        /\ ~(h.proto \in {"tcp", "udp"} /\ h.sum = Seed(h.len)) => k = h
    BY <1>2, FillFacts
  <1> HIDE DEF k
  <1>4. \A x : (Lt(x, k) <=> Lt(x, h)) /\ (Lt(k, x) <=> Lt(h, x)) /\ (Apart(x, k) <=> Apart(x, h))
    BY <1>3 DEF Same, Lt, Apart
  <1>5. AllLt(Range(output), {h})
    BY <1>2 DEF IInv, Order, AllLt
  <1>6. AllLt(Range(output), {k})
    BY <1>4, <1>5 DEF AllLt
  <1>7. /\ output' \in Seq(Packet) /\ Len(output') = Len(output) + 1
        /\ Range(output') = Range(output) \cup {k} /\ Sorted(output')
    <2>1. output \in Seq(Packet) /\ Sorted(output)
      BY DEF IInv, TypeOK, Order
    <2> QED
      BY <1>1, <1>3, <1>6, <2>1, AppendOf
  <1>8. TypeOK'
    BY <1>1, <1>2, <1>7 DEF IInv, TypeOK
  <1>9. Order'
    <2>1. AllLt(Range(output'), Range(middle'))
      BY <1>2, <1>4, <1>7 DEF IInv, Order, AllLt
    <2>2. AllLt(Range(output') \cup Range(middle') \cup refused', Range(p') \cup Range(input'))
      BY <1>1, <1>2, <1>4, <1>7 DEF IInv, Order, AllLt
    <2>3. \A q \in refused', r \in Range(output') \cup Range(middle') : Apart(q, r)
      BY <1>1, <1>2, <1>4, <1>7 DEF IInv, Order
    <2> QED
      BY <1>1, <1>2, <1>7, <2>1, <2>2, <2>3 DEF IInv, Order
  <1>10. Tiled(InFlight, original)'
    <2>1. h \notin Range(output) \cup Range(middle') \cup refused \cup Range(p) \cup Range(input)
      <3>1. \A x \in Range(output) : Lt(x, h) /\ x \in Packet
        BY <1>5, FlightFacts DEF AllLt
      <3>2. \A x \in Range(middle') : Lt(h, x) /\ x \in Packet
        BY <1>2, FlightFacts DEF AllLt
      <3>3. \A x \in refused : Apart(x, h) /\ x \in Packet
        BY <1>2, FlightFacts DEF IInv, Order
      <3>4. \A x \in Range(p) \cup Range(input) : Lt(h, x) /\ x \in Packet
        BY <1>2, FlightFacts DEF IInv, Order, AllLt
      <3> QED
        BY <1>2, <3>1, <3>2, <3>3, <3>4, LtFacts
    <2>2. InFlight' = (InFlight \ {h}) \cup {k}
      BY <1>1, <1>2, <1>7, <2>1 DEF InFlight
    <2>3. h \in InFlight /\ InFlight \in SUBSET Packet /\ Tiled(InFlight, original)
      BY <1>2, FlightFacts DEF InFlight, IInv
    <2>4. Tiled(InFlight', original)
      BY <1>3, <2>2, <2>3, TiledReplace
    <2> QED
      BY <1>1, <2>4
  <1>11. Places'
    <2>1. Sendable(h, original)
      BY <1>2 DEF IInv, Places
    <2>2. Sent(k, original)
      <3>1. k.proto = h.proto /\ k.len = h.len /\ k.id = h.id
        BY <1>3 DEF Same
      <3>2. (k.proto = "tcp" => k.len <= mss) /\ k.total = k.len
        BY <1>3, <2>1, <3>1 DEF Sendable
      <3>3. k.proto \in {"tcp", "udp"} => k.sum = Sum(k) \/ k = original[k.id]
        BY <1>3, <2>1, <3>1 DEF Sendable
      <3>4. HeaderRight(k, original)
        BY <1>3, <2>1, <3>1 DEF Sendable, HeaderRight
      <3> QED
        BY <3>2, <3>3, <3>4 DEF Sent
    <2> QED
      BY <1>1, <1>2, <1>7, <2>2 DEF IInv, Places
  <1>12. Buffers'
    <2>1. Len(p) \in Nat /\ Len(middle) \in Nat /\ Len(output) \in Nat /\ Len(input) \in Nat
      BY DEF IInv, TypeOK
    <2>2. /\ held' = held /\ Len(input') = Len(input) /\ Len(p') = Len(p)
          /\ Len(middle') = Len(middle) - 1 /\ Len(output') = Len(output) + 1
          /\ held = Len(input) + Len(p) + Len(middle) + Len(output)
      BY <1>1, <1>2, <1>7 DEF IInv, Buffers
    <2> QED
      BY <2>1, <2>2 DEF Buffers
  <1> QED
    BY <1>8, <1>9, <1>10, <1>11, <1>12 DEF IInv

LEMMA PushStep ==
  ASSUME IInv, pc' \in {"receive", "tsd", "checksum"},
         UNCHANGED <<input, p, middle, output, original, refused, held>>
  PROVE  IInv'
  <1>1. TypeOK'
    BY DEF IInv, TypeOK
  <1>2. Order' /\ Places' /\ Buffers'
    BY DEF IInv, Order, Places, Buffers
  <1>3. Tiled(InFlight, original)'
    BY DEF IInv, InFlight
  <1> QED
    BY <1>1, <1>2, <1>3 DEF IInv

LEMMA Step ==
  ASSUME IInv, [Next]_vars
  PROVE  IInv'
  <1>1. ASSUME NEW next \in {"receive", "tsd", "checksum"}, Push(next)
        PROVE  IInv'
    BY <1>1, PushStep DEF Push
  <1>2. CASE UNCHANGED vars
    <2>1. pc \in {"receive", "tsd", "checksum"}
      BY DEF IInv, TypeOK
    <2> QED
      BY <1>2, <2>1, PushStep DEF vars
  <1>3. ASSUME NEW proto \in {"tcp", "udp", "none"}, NEW seq \in Seqs, NEW len \in Lengths,
               NEW sum \in {"seed", "ok", "bad"}, NEW ipsum \in {"ok", "bad"},
               Receive(proto, seq, len, sum, ipsum)
        PROVE  IInv'
    BY <1>3, ReceiveStep
  <1> QED
    BY <1>1, <1>2, <1>3, ForwardStep, SegmentStep, EmitStep, FreeStep, ChecksumStep DEF Next

LEMMA Invariant == Spec => []IInv
  <1>1. Init => IInv
    BY InitInv
  <1>2. IInv /\ [Next]_vars => IInv'
    BY Step
  <1> QED
    BY <1>1, <1>2, PTL DEF Spec

-----------------------------------------------------------------------------

\* TSD: whatever the MSS, the size of the link behind it and the packets that
\* come in, each byte of a packet is in one segment, under the sequence number
\* (modulo 2^32) that it was sent with; nothing larger than the MSS and nothing
\* out of order leaves, and no packet buffer is lost.
THEOREM SegmentsTileThePacket == Spec => []EveryByteOnce
  <1>1. ASSUME IInv
        PROVE  EveryByteOnce
    <2>1. /\ Tiled(InFlight, original) /\ InFlight \in SUBSET Packet
          /\ \A i \in DOMAIN original : original[i] \in Packet
      BY <1>1, FlightFacts DEF IInv
    <2>2. \A q \in Packet : \A b \in Bytes(q) : b \in Nat
      <3>1. \A q \in Packet : q.ofs \in Nat /\ q.len \in Nat
        BY DEF Packet
      <3> QED
        BY <3>1 DEF Bytes
    <2>3. ASSUME NEW i \in DOMAIN original
          PROVE  LET parts == {q \in InFlight : q.id = i} IN
                 /\ UNION {Bytes(q) : q \in parts} = Bytes(original[i])
                 /\ \A q, r \in parts : q # r => Bytes(q) \cap Bytes(r) = {}
                 /\ \A q \in parts : q.seq = (original[i].seq + q.ofs) % SeqSpace
      <3> DEFINE parts == {q \in InFlight : q.id = i}
      <3>1. \A b : b \in Bytes(original[i]) <=> \E q \in parts : b \in Bytes(q)
        BY <2>1, <2>2 DEF Tiled
      <3>2. UNION {Bytes(q) : q \in parts} = Bytes(original[i])
        <4> HIDE DEF parts
        <4> QED
          BY <3>1
      <3>3. \A q, r \in parts : q # r => Bytes(q) \cap Bytes(r) = {}
        BY <2>1, <2>2 DEF Tiled
      <3>4. \A q \in parts : q.seq = (original[i].seq + q.ofs) % SeqSpace
        BY <2>1 DEF Tiled
      <3> QED
        BY <3>2, <3>3, <3>4
    <2>4. \A i \in DOMAIN output : output[i].proto = "tcp" => output[i].len <= mss
      BY <1>1 DEF IInv, Places, Sent, Range
    <2>5. \A i, j \in DOMAIN output :
            i < j => \/ output[i].id < output[j].id
                     \/ output[i].id = output[j].id /\ output[i].ofs < output[j].ofs
      BY <1>1 DEF IInv, Order, Sorted, Lt
    <2> QED
      BY <1>1, <2>3, <2>4, <2>5 DEF EveryByteOnce, IInv, Buffers
  <1> QED
    BY <1>1, Invariant, PTL

\* Checksum: a TCP or UDP packet leaves with the checksum of its own contents, or
\* with the one it came with, and its total length is that of its contents.  So is
\* the IPv4 header's checksum, however often TSD changed the length in the header it
\* copies; only a packet that was not cut up may have come with a wrong one.
THEOREM ChecksumsLeaveRight == Spec => []ChecksumsAreRight
  <1>1. IInv => ChecksumsAreRight
    BY DEF IInv, Places, Sent, HeaderRight, Range, ChecksumsAreRight
  <1> QED
    BY <1>1, Invariant, PTL
=============================================================================
