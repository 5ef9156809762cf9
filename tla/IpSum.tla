------------------------------- MODULE IpSum --------------------------------
(***************************************************************************)
(* rush/src/checksum.rs: the Internet checksum, as the reference in Rust   *)
(* and as the assembly for x86_64 and aarch64 compute it, and its users in *)
(* ipv4.rs, tcp.rs and udp.rs.  A byte has BYTE values, so that words of   *)
(* 16, 32 and 64 bits are BYTE^2, BYTE^4 and BYTE^8 and sums overflow them *)
(* the way they do in the registers.  A flags register is its carry.       *)
(***************************************************************************)
EXTENDS Naturals, Sequences, SequencesExt

CONSTANTS BYTE,
          Data,       \* byte strings
          Pseudo,     \* pseudo headers, of an even length as they are
          Headers,    \* [before, sum, after], of an even length as well
          Payloads,   \* those of the byte strings that follow a header
          NoData

ASSUME ByteAssumption == BYTE \in Nat /\ BYTE > 1

VARIABLE data  \* the bytes given to a checksum, or NoData

SumInit == data \in Data \cup {NoData}

W16 == BYTE^2
W32 == BYTE^4
W64 == BYTE^8

\* lib.rs: htons and ntohs on a little-endian host; xchg and rev16.
htons(s) == (s % BYTE) * BYTE + (s \div BYTE)
Not(s) == W16 - 1 - s

\* A little-endian load of n bytes at offset ofs.
Load(bytes, ofs, n) == FoldRight(LAMBDA b, w : b + BYTE * w, SubSeq(bytes, ofs + 1, ofs + n), 0)

FoldCarries[csum \in Nat] ==
  IF csum \div W16 = 0 THEN csum ELSE FoldCarries[(csum % W16) + (csum \div W16)]

\* The sum of the 16-bit words and of the odd byte, whose carries are folded.
checksum_rust(bytes) ==
  LET length == Len(bytes)
      words == [i \in 1..(length \div 2) |-> Load(bytes, 2 * (i - 1), 2)]
      odd == IF length % 2 = 1 THEN bytes[length] ELSE 0
  IN htons(Not(FoldCarries[FoldLeft(+, odd, words)]))

-----------------------------------------------------------------------------
(* The accumulator and the carry flag, as x = <<acc, carry>>.              *)

add(x, w) == <<(x[1] + w) % W64, (x[1] + w) \div W64>>
adc(x, w) == add(x, w + x[2])

\* Blocks of 32 bytes for as long as there are any, then what the bits of the
\* length say: one each of 16, 8, 4, 2 and 1 bytes.
Blocks(length) ==
  [i \in 1..(length \div 32) |-> [ofs |-> 32 * (i - 1), size |-> 32]]
    \o SelectSeq([k \in 1..5 |-> LET n == 2^(5 - k) IN
                                [ofs |-> length - (length % (2 * n)), size |-> n]],
                 LAMBDA b : length % (2 * b.size) >= b.size)

\* The 64-bit words of a block, or the one shorter word it is.
Words(bytes, b) == LET n == IF b.size > 8 THEN 8 ELSE b.size
                  IN [k \in 1..(b.size \div n) |-> Load(bytes, b.ofs + n * (k - 1), n)]

\* add the first word, adc the others.
AddWords(x, words) == FoldLeft(adc, add(x, words[1]), Tail(words))

\* Mutant: the carry out of a block's last word is dropped.
AddBlock_NoCarry(x, words) == AddWords(x, words)
\* x86_64: every block ends with adc 0.
AddBlock(x, words) == adc(AddWords(x, words), 0)

\* Add, in a register that holds fewer than `width', with the carry added in.
AddFold(a, b, width) == (((a + b) % width) + ((a + b) \div width)) % width

checksum_x86_64(bytes, initial) ==
  LET acc == FoldLeft(LAMBDA x, b : AddBlock(x, Words(bytes, b)),
                      <<htons(initial), 0>>, Blocks(Len(bytes)))[1]
      acc32 == AddFold(acc % W32, acc \div W32, W32)
      acc16 == AddFold(acc32 % W16, acc32 \div W16, W16)
  IN htons(Not(acc16))

\* aarch64: after the blocks of 32 the carry is clear; then it goes from one
\* block to the next, and into the first fold.
AddBlockThreaded(x, words, size) ==
  CASE size = 32 -> <<AddBlock(x, words)[1], 0>>
    [] size = 16 -> AddWords(x, words)
    [] OTHER -> adc(x, words[1])

checksum_aarch64(bytes, initial) ==
  LET x == FoldLeft(LAMBDA y, b : AddBlockThreaded(y, Words(bytes, b), b.size),
                    <<htons(initial), 0>>, Blocks(Len(bytes)))
      sum32 == (x[1] % W32) + (x[1] \div W32) + x[2]
      acc32 == ((sum32 % W32) + (sum32 \div W32)) % W32
      acc16 == (acc32 % W16) + (acc32 \div W16)
  IN htons(Not((acc16 + (acc16 \div W16)) % W16))

ipsum(bytes, initial) == checksum_x86_64(bytes, initial)

-----------------------------------------------------------------------------
(* The headers' checksum fields: sum is the field's value in host order.   *)

\* The two bytes of a 16-bit number in network byte order.
Be16(n) == <<n \div BYTE, n % BYTE>>
\* A header of some bytes, the checksum field, and some more.
SetChecksum(h, sum) == [h EXCEPT !.sum = sum]
HeaderSlice(h) == h.before \o Be16(h.sum) \o h.after

ipv4_checksum_compute(h) == SetChecksum(h, ipsum(HeaderSlice(SetChecksum(h, 0)), 0))
checksum_ok(h) == ipsum(HeaderSlice(h), 0) = 0

\* Mutant: the header's checksum is passed on as it is.
checksum_compute_NoNot(h, payload, init) ==
  LET hsum == ipsum(HeaderSlice(SetChecksum(h, 0)), init)
  IN SetChecksum(h, ipsum(payload, hsum))
\* TCP's and UDP's.
checksum_compute(h, payload, init) ==
  LET hsum == ipsum(HeaderSlice(SetChecksum(h, 0)), init)
  IN SetChecksum(h, ipsum(payload, Not(hsum)))

\* offload.rs: a checksum that is the seed is filled in.
fill_in_checksum(h, payload, pseudo) ==
  LET seed == Not(ipsum(pseudo, 0))
  IN IF h.sum = seed THEN checksum_compute(h, payload, seed) ELSE h

-----------------------------------------------------------------------------

\* checksum.rs's tests compare the assembly with the reference, for a zero
\* `initial' only.  On either architecture, whatever the data, its length and
\* `initial', no carry is lost or added twice: the result is the reference's for
\* the data with `initial' in front, in network byte order.
AssemblyMatchesReference ==
  data # NoData =>
    \A initial \in {0, 1, BYTE, W16 - 2, W16 - 1} :
      LET reference == checksum_rust(Be16(initial) \o data) IN
      /\ checksum_x86_64(data, initial) = reference
      /\ checksum_aarch64(data, initial) = reference

\* "ipsum(data, len, value) == 0: checksum correct" holds of the checksum and of
\* no other value, but that 0 and 0xffff stand for each other when the words add
\* up to 0xffff.  A receiver so finds right what the program computes: the IPv4
\* header's checksum by itself, and TCP's or UDP's together with the pseudo
\* header and the payload, after three chained sums; and to fill in twice changes
\* nothing (offload.rs: a segment may meet a second Checksum app).
ReceiverAgrees ==
  data # NoData =>
    /\ \A value \in 0..(W16 - 1) :
         ipsum(data, value) = 0 <=> \/ value = checksum_rust(data)
                                    \/ checksum_rust(data) = 0 /\ value = W16 - 1
    /\ data \in Payloads => \A h \in Headers :
         /\ checksum_ok(ipv4_checksum_compute(h))
         /\ \A pseudo \in Pseudo :
              LET f == fill_in_checksum(SetChecksum(h, Not(ipsum(pseudo, 0))), data, pseudo) IN
              /\ checksum_rust(pseudo \o HeaderSlice(f) \o data) = 0
              /\ fill_in_checksum(f, data, pseudo) = f
=============================================================================
