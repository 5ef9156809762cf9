---------------------------- MODULE DelayProofs ----------------------------
(***************************************************************************)
(* For every capacity of the queue and the link, every delay, number of    *)
(* packets and rhythm of breaths: packets leave neither early nor late,    *)
(* none is lost, only packets that were never queued overtake others, and  *)
(* pull finds a packet behind every delay until the queue has been full.   *)
(***************************************************************************)
EXTENDS Delay, TLAPS

Entry == [kind : {"Delay"}, ttx : Nat] \cup [kind : {"Packet"}, p : Packet]

TypeOK == /\ queue \in Seq(Entry) /\ input \in Seq(Packet)
          /\ now \in Nat /\ arrived \in 0..MaxPackets
          /\ pc \in {"idle", "pull", "arrive", "push"}
          /\ delivered \in Seq(Packet \X Nat)
          /\ freed \subseteq Packet /\ direct \subseteq Packet
          /\ enqueued \in [Packet -> Nat] /\ due \in [Packet -> Nat]
          /\ app \in Apps /\ filled \in BOOLEAN

\* A queue's packets are in the order in which they came in.
Sorted(q) ==
  \A i, j \in DOMAIN q : i < j /\ ~IsDelay(q[i]) /\ ~IsDelay(q[j]) => q[i].p < q[j].p

\* A packet's time has come at t, or a delay ahead of it lasts at least as long.
HeldBack(q, t, d) ==
  \A i \in DOMAIN q : ~IsDelay(q[i]) =>
    \/ d[q[i].p] <= t
    \/ \E j \in 1..(i - 1) : IsDelay(q[j]) /\ q[j].ttx >= d[q[i].p]

\* No delay ends later than one that is added at t may ...
Bounded(q, t) == \A i \in DOMAIN q : IsDelay(q[i]) => q[i].ttx <= t + delay

\* ... and those ahead of a packet not later than one added with the packet.
Soon(q, e) ==
  \A i, j \in DOMAIN q :
    i < j /\ IsDelay(q[i]) /\ ~IsDelay(q[j]) => q[i].ttx <= e[q[j].p] + delay

\* Every delay, but for a last one that waits for its batch, has a packet behind it.
Paired(q, open) ==
  \A i \in DOMAIN q : IsDelay(q[i]) =>
    (i < Len(q) /\ ~IsDelay(q[i + 1])) \/ (i = Len(q) /\ open)

\* Latency has put a delay into the queue and goes on to its batch.
Open == app = "latency" /\ pc = "push" /\ input # << >>

\* pull has not dropped a delay in vain.
QueueInv ==
  panic = "none" =>
    /\ HeldBack(queue, now, due)
    /\ Bounded(queue, now)
    /\ Soon(queue, enqueued)
    /\ ~filled => Paired(queue, Open)
    /\ Open /\ ~full => \E j \in DOMAIN queue : IsDelay(queue[j]) /\ queue[j].ttx = now + delay
    /\ ~filled /\ pc # "idle" => ~full

\* What was sent or is queued came in before what is on the link, and what was
\* queued and sent before what is queued.
Order ==
  /\ Sorted(queue)
  /\ \A i, j \in DOMAIN input : i < j => input[i] < input[j]
  /\ \A x \in Range(input) : \A p \in PacketsIn(queue) \cup Sent : p < x
  /\ \A p \in PacketsIn(queue) : \A s \in Sent \ direct : s < p
  /\ direct \subseteq Sent

IInv == /\ TypeOK /\ Order /\ QueueInv
        /\ NothingLost /\ NotEarly /\ OnlyDirectOvertakes /\ NotLate /\ PanicsOnlyOnceFilled

-----------------------------------------------------------------------------
(* Queues.                                                                 *)

LEMMA EntryFacts ==
  /\ \A t \in Nat : Delay(t) \in Entry /\ IsDelay(Delay(t)) /\ Delay(t).ttx = t
  /\ \A p \in Packet : Pkt(p) \in Entry /\ ~IsDelay(Pkt(p)) /\ Pkt(p).p = p
  /\ \A e \in Entry : (IsDelay(e) => e.ttx \in Nat) /\ (~IsDelay(e) => e.p \in Packet)
  <1>1. \A t \in Nat : Delay(t) \in Entry /\ IsDelay(Delay(t)) /\ Delay(t).ttx = t
    BY DEF Entry, Delay, IsDelay
  <1>2. \A p \in Packet : Pkt(p) \in Entry /\ ~IsDelay(Pkt(p)) /\ Pkt(p).p = p
    BY DEF Entry, Pkt, IsDelay
  <1>3. \A e \in Entry : (IsDelay(e) => e.ttx \in Nat) /\ (~IsDelay(e) => e.p \in Packet)
    BY DEF Entry, IsDelay
  <1> QED
    BY <1>1, <1>2, <1>3

LEMMA AppendFacts ==
  ASSUME NEW S, NEW s \in Seq(S), NEW e \in S
  PROVE  /\ Append(s, e) \in Seq(S) /\ Len(s) \in Nat
         /\ Len(Append(s, e)) = Len(s) + 1
         /\ DOMAIN s = 1..Len(s) /\ DOMAIN Append(s, e) = 1..(Len(s) + 1)
         /\ \A i \in 1..Len(s) : Append(s, e)[i] = s[i]
         /\ Append(s, e)[Len(s) + 1] = e
         /\ \A i \in 1..(Len(s) + 1) : i \in 1..Len(s) \/ i = Len(s) + 1
         /\ \A i \in 1..Len(s) : i \in 1..(Len(s) + 1)
         /\ Len(s) + 1 \in 1..(Len(s) + 1)
  OBVIOUS

LEMMA TailFacts ==
  ASSUME NEW S, NEW s \in Seq(S), s # << >>
  PROVE  /\ Tail(s) \in Seq(S) /\ Len(s) \in Nat /\ Len(s) > 0
         /\ Len(Tail(s)) = Len(s) - 1
         /\ DOMAIN s = 1..Len(s) /\ DOMAIN Tail(s) = 1..(Len(s) - 1)
         /\ \A i \in 1..(Len(s) - 1) : Tail(s)[i] = s[i + 1] /\ i + 1 \in 1..Len(s)
         /\ Head(s) = s[1] /\ s[1] \in S
  OBVIOUS

LEMMA PacketsInFacts ==
  ASSUME NEW q \in Seq(Entry)
  PROVE  /\ \A i \in DOMAIN q : ~IsDelay(q[i]) => q[i].p \in PacketsIn(q)
         /\ \A p \in PacketsIn(q) : p \in Packet /\ \E i \in DOMAIN q : ~IsDelay(q[i]) /\ p = q[i].p
  <1>1. \A i \in DOMAIN q : q[i] \in Entry
    OBVIOUS
  <1> QED
    BY <1>1, EntryFacts DEF PacketsIn

LEMMA EmptyQueue ==
  ASSUME NEW q, q = << >>, NEW t, NEW d, NEW e, NEW open
  PROVE  /\ PacketsIn(q) = {} /\ Sorted(q) /\ HeldBack(q, t, d) /\ Bounded(q, t)
         /\ Soon(q, e) /\ Paired(q, open)
  <1>1. \A i \in DOMAIN q : FALSE
    OBVIOUS
  <1>2. PacketsIn(q) = {}
    BY <1>1 DEF PacketsIn
  <1> QED
    BY <1>1, <1>2 DEF Sorted, HeldBack, Bounded, Soon, Paired

\* A queue is in order at time t, for packets that are due at d and came at e.
Fit(q, t, d, e) == Sorted(q) /\ HeldBack(q, t, d) /\ Bounded(q, t) /\ Soon(q, e)

\* A packet added at t to the back of q does not leave before u.
Holds(q, t, u) == u <= t \/ \E j \in DOMAIN q : IsDelay(q[j]) /\ q[j].ttx >= u

\* A delay at the back.
LEMMA AddDelay ==
  ASSUME NEW q \in Seq(Entry), NEW u \in Nat, NEW t \in Nat, u <= t + delay,
         NEW d, NEW e, Fit(q, t, d, e)
  PROVE  /\ Append(q, Delay(u)) \in Seq(Entry)
         /\ PacketsIn(Append(q, Delay(u))) = PacketsIn(q)
         /\ Fit(Append(q, Delay(u)), t, d, e)
         /\ \E j \in DOMAIN Append(q, Delay(u)) :
              IsDelay(Append(q, Delay(u))[j]) /\ Append(q, Delay(u))[j].ttx = u
  <1> DEFINE r == Append(q, Delay(u))
             n == Len(q)
  <1>1. Delay(u) \in Entry /\ IsDelay(Delay(u)) /\ Delay(u).ttx = u
    BY EntryFacts
  <1>2. /\ r \in Seq(Entry) /\ n \in Nat /\ DOMAIN q = 1..n /\ DOMAIN r = 1..(n + 1)
        /\ \A i \in 1..n : r[i] = q[i]
        /\ IsDelay(r[n + 1]) /\ r[n + 1].ttx = u
        /\ \A i \in 1..(n + 1) : i \in 1..n \/ i = n + 1
        /\ \A i \in 1..n : i \in 1..(n + 1)
    BY <1>1, AppendFacts
  <1> HIDE DEF r, n
  <1> USE DEF Fit
  <1>3. PacketsIn(r) = PacketsIn(q)
    BY <1>2 DEF PacketsIn
  <1>4. Sorted(r)
    BY <1>2 DEF Sorted
  <1>5. HeldBack(r, t, d)
    <2> SUFFICES ASSUME NEW i \in 1..n, ~IsDelay(q[i]), ~(d[q[i].p] <= t)
                 PROVE  \E j \in 1..(i - 1) : IsDelay(r[j]) /\ r[j].ttx >= d[q[i].p]
      BY <1>2 DEF HeldBack
    <2>1. PICK j \in 1..(i - 1) : IsDelay(q[j]) /\ q[j].ttx >= d[q[i].p]
      BY <1>2 DEF HeldBack
    <2>2. j \in 1..n
      BY <1>2
    <2> QED
      BY <1>2, <2>1, <2>2
  <1>6. Bounded(r, t)
    BY <1>2 DEF Bounded
  <1>7. Soon(r, e)
    BY <1>2 DEF Soon
  <1>8. \E j \in DOMAIN r : IsDelay(r[j]) /\ r[j].ttx = u
    <2>1. n + 1 \in DOMAIN r
      BY <1>2
    <2> QED
      BY <1>2, <2>1
  <1> QED
    BY <1>2, <1>3, <1>4, <1>5, <1>6, <1>7, <1>8 DEF r

\* A packet at the back.
LEMMA AddPacket ==
  ASSUME NEW q \in Seq(Entry), NEW p \in Packet, NEW t \in Nat,
         NEW d \in [Packet -> Nat], NEW e \in [Packet -> Nat], NEW u \in Nat,
         Fit(q, t, d, e), Holds(q, t, u), \A x \in PacketsIn(q) : x < p
  PROVE  /\ Append(q, Pkt(p)) \in Seq(Entry)
         /\ PacketsIn(Append(q, Pkt(p))) = PacketsIn(q) \cup {p}
         /\ Fit(Append(q, Pkt(p)), t, [d EXCEPT ![p] = u], [e EXCEPT ![p] = t])
  <1> DEFINE r == Append(q, Pkt(p))
             n == Len(q)
             dd == [d EXCEPT ![p] = u]
             ee == [e EXCEPT ![p] = t]
  <1>1. Pkt(p) \in Entry /\ ~IsDelay(Pkt(p)) /\ Pkt(p).p = p
    BY EntryFacts
  <1>2. /\ r \in Seq(Entry) /\ n \in Nat /\ DOMAIN q = 1..n /\ DOMAIN r = 1..(n + 1)
        /\ \A i \in 1..n : r[i] = q[i]
        /\ ~IsDelay(r[n + 1]) /\ r[n + 1].p = p
        /\ \A i \in 1..(n + 1) : i \in 1..n \/ i = n + 1
        /\ \A i \in 1..n : i \in 1..(n + 1)
        /\ n + 1 \in 1..(n + 1)
    BY <1>1, AppendFacts
  <1>3. \A i \in 1..n : ~IsDelay(q[i]) => q[i].p \in PacketsIn(q) /\ q[i].p < p /\ q[i].p # p
    <2>1. \A x \in PacketsIn(q) : x \in Packet
      BY PacketsInFacts
    <2> QED
      BY <1>2, <2>1, PacketsInFacts DEF Packet
  <1>4. /\ dd[p] = u /\ ee[p] = t
        /\ \A i \in 1..n : ~IsDelay(q[i]) => dd[q[i].p] = d[q[i].p] /\ ee[q[i].p] = e[q[i].p]
    BY <1>3
  <1> HIDE DEF r, n, dd, ee
  <1> USE DEF Fit, Holds
  <1>5. PacketsIn(r) = PacketsIn(q) \cup {p}
    BY <1>2 DEF PacketsIn
  <1>6. Sorted(r)
    <2> SUFFICES ASSUME NEW i \in 1..(n + 1), NEW j \in 1..(n + 1), i < j,
                        ~IsDelay(r[i]), ~IsDelay(r[j])
                 PROVE  r[i].p < r[j].p
      BY <1>2 DEF Sorted
    <2>1. i \in 1..n
      BY <1>2
    <2> QED
      BY <1>2, <1>3, <2>1 DEF Sorted
  <1>7. HeldBack(r, t, dd)
    <2>1. ASSUME NEW i \in 1..n, ~IsDelay(q[i]), ~(dd[q[i].p] <= t)
          PROVE  \E j \in 1..(i - 1) : IsDelay(r[j]) /\ r[j].ttx >= dd[q[i].p]
      <3>1. PICK j \in 1..(i - 1) : IsDelay(q[j]) /\ q[j].ttx >= d[q[i].p]
        BY <1>2, <1>4, <2>1 DEF HeldBack
      <3>2. j \in 1..n
        BY <1>2
      <3> QED
        BY <1>2, <1>4, <2>1, <3>1, <3>2
    <2>2. ASSUME ~(u <= t)
          PROVE  \E j \in 1..(n + 1 - 1) : IsDelay(r[j]) /\ r[j].ttx >= u
      <3>1. PICK j \in 1..n : IsDelay(q[j]) /\ q[j].ttx >= u
        BY <1>2, <2>2
      <3>2. j \in 1..(n + 1 - 1)
        BY <1>2
      <3> QED
        BY <1>2, <3>1, <3>2
    <2>3. \A i \in 1..n : ~IsDelay(r[i]) =>
            \/ dd[r[i].p] <= t
            \/ \E j \in 1..(i - 1) : IsDelay(r[j]) /\ r[j].ttx >= dd[r[i].p]
      BY <1>2, <2>1
    <2>4. \/ dd[r[n + 1].p] <= t
          \/ \E j \in 1..(n + 1 - 1) : IsDelay(r[j]) /\ r[j].ttx >= dd[r[n + 1].p]
      BY <1>2, <1>4, <2>2
    <2> SUFFICES ASSUME NEW i \in 1..(n + 1), ~IsDelay(r[i])
                 PROVE  \/ dd[r[i].p] <= t
                        \/ \E j \in 1..(i - 1) : IsDelay(r[j]) /\ r[j].ttx >= dd[r[i].p]
      BY <1>2 DEF HeldBack
    <2>5. CASE i \in 1..n
      BY <2>3, <2>5
    <2>6. CASE i = n + 1
      <3>1. CASE dd[r[n + 1].p] <= t
        BY <2>6, <3>1
      <3>2. ASSUME NEW j \in 1..(n + 1 - 1), IsDelay(r[j]), r[j].ttx >= dd[r[n + 1].p]
            PROVE  \E l \in 1..(i - 1) : IsDelay(r[l]) /\ r[l].ttx >= dd[r[i].p]
        <4>1. j \in 1..(i - 1)
          BY <1>2, <2>6
        <4>2. r[j].ttx >= dd[r[i].p]
          BY <2>6, <3>2
        <4> QED
          BY <3>2, <4>1, <4>2
      <3> QED
        BY <2>4, <3>1, <3>2
    <2> QED
      BY <1>2, <2>5, <2>6
  <1>8. Bounded(r, t)
    BY <1>2 DEF Bounded
  <1>9. Soon(r, ee)
    <2>1. \A i \in 1..n : IsDelay(q[i]) => q[i].ttx <= ee[p] + delay
      BY <1>2, <1>4 DEF Bounded
    <2> QED
      BY <1>2, <1>4, <2>1 DEF Soon
  <1> QED
    BY <1>2, <1>5, <1>6, <1>7, <1>8, <1>9 DEF r, dd, ee

\* r is what is left of q without its first k entries.
Without(q, r, k) == Len(q) = Len(r) + k /\ \A i \in 1..Len(r) : r[i] = q[i + k]

\* The time of the delays among the first k entries has come.
Over(q, k, t) == \A i \in 1..k : IsDelay(q[i]) => q[i].ttx <= t

LEMMA TakeFront ==
  ASSUME NEW q \in Seq(Entry), NEW r \in Seq(Entry), NEW k \in Nat, NEW t \in Nat,
         NEW d \in [Packet -> Nat], NEW e, Without(q, r, k), Over(q, k, t), Fit(q, t, d, e)
  PROVE  /\ Fit(r, t, d, e)
         /\ PacketsIn(r) \subseteq PacketsIn(q)
         /\ \A p \in PacketsIn(q) : p \in PacketsIn(r) \/ \E i \in 1..k : ~IsDelay(q[i]) /\ p = q[i].p
         /\ \A i \in 1..k : ~IsDelay(q[i]) => \A p \in PacketsIn(r) : q[i].p < p
         /\ Paired(q, FALSE) => Paired(r, FALSE)
  <1> DEFINE n == Len(r)
             m == Len(q)
  <1>1. /\ n \in Nat /\ m = n + k /\ DOMAIN r = 1..n /\ DOMAIN q = 1..m
        /\ \A i \in 1..n : r[i] = q[i + k]
        /\ \A i \in 1..m : q[i] \in Entry
    BY DEF Without
  <1> HIDE DEF n, m
  <1> USE DEF Fit
  <1>2. \A i \in 1..n : i + k \in 1..m
    BY <1>1
  <1>3. \A i \in 1..m : i \in 1..k \/ (i - k \in 1..n /\ q[i] = r[i - k])
    BY <1>1
  <1>4. Sorted(r)
    <2>1. \A i, j \in 1..n : i < j => i + k < j + k
      BY <1>1
    <2> QED
      BY <1>1, <1>2, <2>1 DEF Sorted
  <1>5. HeldBack(r, t, d)
    <2> SUFFICES ASSUME NEW i \in 1..n, ~IsDelay(r[i]), ~(d[r[i].p] <= t)
                 PROVE  \E j \in 1..(i - 1) : IsDelay(r[j]) /\ r[j].ttx >= d[r[i].p]
      BY <1>1 DEF HeldBack
    <2>1. r[i].p \in Packet /\ d[r[i].p] \in Nat /\ r[i] = q[i + k]
      BY <1>1, <1>2, EntryFacts
    <2>2. PICK j \in 1..(i + k - 1) : IsDelay(q[j]) /\ q[j].ttx >= d[r[i].p]
      <3> DEFINE ik == i + k
      <3>1. ik \in DOMAIN q /\ ~IsDelay(q[ik]) /\ ~(d[q[ik].p] <= t) /\ q[ik] = r[i]
        BY <1>1, <1>2, <2>1
      <3> HIDE DEF ik
      <3>2. PICK j \in 1..(ik - 1) : IsDelay(q[j]) /\ q[j].ttx >= d[q[ik].p]
        BY <3>1 DEF HeldBack
      <3>3. j \in 1..(i + k - 1)
        BY DEF ik
      <3>4. q[j].ttx >= d[r[i].p]
        BY <3>1, <3>2
      <3> QED
        BY <3>2, <3>3, <3>4
    <2>3. j \in 1..m /\ q[j].ttx \in Nat
      <3>1. j \in 1..m
        BY <1>1
      <3> QED
        BY <1>1, <2>2, <3>1, EntryFacts
    <2>4. j \notin 1..k
      BY SMTT(30), <2>1, <2>2, <2>3 DEF Over
    <2>5. j - k \in 1..(i - 1) /\ j - k \in 1..n /\ r[j - k] = q[j]
      BY <1>1, <1>3, <2>3, <2>4
    <2> QED
      BY <2>2, <2>5
  <1>6. Bounded(r, t)
    BY <1>1, <1>2 DEF Bounded
  <1>7. Soon(r, e)
    <2> SUFFICES ASSUME NEW i \in 1..n, NEW j \in 1..n, i < j, IsDelay(r[i]), ~IsDelay(r[j])
                 PROVE  r[i].ttx <= e[r[j].p] + delay
      BY <1>1 DEF Soon
    <2> DEFINE a == i + k
               b == j + k
    <2>1. a \in DOMAIN q /\ b \in DOMAIN q /\ a < b /\ r[i] = q[a] /\ r[j] = q[b]
      BY <1>1, <1>2
    <2> HIDE DEF a, b
    <2> QED
      BY <2>1 DEF Soon
  <1>8. \A i \in 1..n : ~IsDelay(r[i]) => r[i].p \in PacketsIn(q)
    BY <1>1, <1>2, PacketsInFacts
  <1>9. ASSUME NEW p \in PacketsIn(r)
        PROVE  p \in PacketsIn(q)
    <2>1. PICK i \in 1..n : ~IsDelay(r[i]) /\ p = r[i].p
      BY <1>1, <1>9, PacketsInFacts
    <2> QED
      BY <1>8, <2>1
  <1>10. ASSUME NEW p \in PacketsIn(q)
         PROVE  p \in PacketsIn(r) \/ \E i \in 1..k : ~IsDelay(q[i]) /\ p = q[i].p
    <2>1. PICK i \in 1..m : ~IsDelay(q[i]) /\ p = q[i].p
      BY <1>1, <1>10, PacketsInFacts
    <2>2. CASE i \in 1..k
      BY <2>1, <2>2
    <2>3. CASE i - k \in 1..n /\ q[i] = r[i - k]
      BY <1>1, <2>1, <2>3, PacketsInFacts
    <2> QED
      BY <1>3, <2>2, <2>3
  <1>11. ASSUME NEW i \in 1..k, ~IsDelay(q[i]), NEW p \in PacketsIn(r)
         PROVE  q[i].p < p
    <2>1. PICK j \in 1..n : ~IsDelay(r[j]) /\ p = r[j].p
      BY ZenonT(60), <1>1, PacketsInFacts
    <2>2. i \in 1..m /\ j + k \in 1..m /\ i < j + k /\ r[j] = q[j + k]
      BY <1>1, <1>2
    <2> QED
      BY <1>1, <1>11, <2>1, <2>2 DEF Sorted
  <1>12. ASSUME Paired(q, FALSE)
         PROVE  Paired(r, FALSE)
    <2> SUFFICES ASSUME NEW i \in 1..n, IsDelay(r[i])
                 PROVE  i < n /\ ~IsDelay(r[i + 1])
      BY <1>1 DEF Paired, n
    <2>1. i + k < m /\ ~IsDelay(q[i + k + 1])
      BY <1>1, <1>2, <1>12 DEF Paired, m
    <2>2. i < n => i + 1 \in 1..n /\ r[i + 1] = q[i + k + 1]
      BY <1>1
    <2> QED
      BY <1>1, <2>1, <2>2
  <1> QED
    BY <1>4, <1>5, <1>6, <1>7, <1>9, <1>10, <1>11, <1>12

-----------------------------------------------------------------------------
(* Where packets are.                                                      *)

Places == Order /\ NothingLost /\ OnlyDirectOvertakes

LEMMA SortedIsInjective ==
  ASSUME NEW q \in Seq(Entry), Sorted(q)
  PROVE  \A i, j \in DOMAIN q : ~IsDelay(q[i]) /\ ~IsDelay(q[j]) /\ q[i].p = q[j].p => i = j
  <1> SUFFICES ASSUME NEW i \in DOMAIN q, NEW j \in DOMAIN q, i # j,
                      ~IsDelay(q[i]), ~IsDelay(q[j])
               PROVE  q[i].p # q[j].p
    OBVIOUS
  <1>1. i \in Int /\ j \in Int /\ q[i] \in Entry /\ q[j] \in Entry
    OBVIOUS
  <1>2. q[i].p \in Int /\ q[j].p \in Int
    BY <1>1, EntryFacts DEF Packet
  <1>3. i < j \/ j < i
    BY <1>1
  <1> QED
    BY <1>2, <1>3 DEF Sorted

LEMMA RisingIsInjective ==
  ASSUME NEW s \in Seq(Packet), \A i, j \in DOMAIN s : i < j => s[i] < s[j]
  PROVE  IsInjective(s)
  <1> SUFFICES ASSUME NEW i \in DOMAIN s, NEW j \in DOMAIN s, i # j
               PROVE  s[i] # s[j]
    BY DEF IsInjective
  <1>1. i \in Int /\ j \in Int /\ s[i] \in Packet /\ s[j] \in Packet
    OBVIOUS
  <1>2. s[i] \in Int /\ s[j] \in Int
    BY <1>1 DEF Packet
  <1>3. i < j \/ j < i
    BY <1>1
  <1> QED
    BY <1>2, <1>3

\* The oldest packet leaves the link.
LEMMA PopInput ==
  ASSUME NEW s \in Seq(Packet), s # << >>, \A i, j \in DOMAIN s : i < j => s[i] < s[j]
  PROVE  /\ Head(s) \in Packet /\ Head(s) \in Range(s) /\ Tail(s) \in Seq(Packet)
         /\ Range(Tail(s)) \subseteq Range(s)
         /\ \A x \in Range(s) : x = Head(s) \/ x \in Range(Tail(s))
         /\ \A x \in Range(Tail(s)) : Head(s) < x
         /\ \A i, j \in DOMAIN Tail(s) : i < j => Tail(s)[i] < Tail(s)[j]
  <1> DEFINE n == Len(s)
             u == Tail(s)
  <1>1. /\ n \in Nat /\ n > 0 /\ DOMAIN s = 1..n /\ u \in Seq(Packet) /\ DOMAIN u = 1..(n - 1)
        /\ \A i \in 1..(n - 1) : u[i] = s[i + 1] /\ i + 1 \in 1..n
        /\ Head(s) = s[1] /\ s[1] \in Packet
    BY TailFacts
  <1> HIDE DEF n, u
  <1>2. 1 \in 1..n /\ \A i \in 1..(n - 1) : 1 < i + 1
    BY <1>1
  <1>3. Head(s) \in Range(s)
    BY <1>1, <1>2 DEF Range
  <1>4. Range(u) \subseteq Range(s)
    BY <1>1 DEF Range
  <1>5. ASSUME NEW x \in Range(s)
        PROVE  x = Head(s) \/ x \in Range(u)
    <2>1. PICK i \in 1..n : x = s[i]
      BY <1>1, <1>5 DEF Range
    <2>2. CASE i = 1
      BY <1>1, <2>1, <2>2
    <2>3. CASE i # 1
      <3>1. i - 1 \in 1..(n - 1)
        BY <1>1, <2>3
      <3>2. u[i - 1] = s[i - 1 + 1] /\ i - 1 + 1 = i
        BY <1>1, <3>1
      <3> QED
        BY <1>1, <2>1, <3>1, <3>2 DEF Range
    <2> QED
      BY <2>2, <2>3
  <1>6. \A x \in Range(u) : Head(s) < x
    BY <1>1, <1>2 DEF Range
  <1>7. ASSUME NEW i \in 1..(n - 1), NEW j \in 1..(n - 1), i < j
        PROVE  u[i] < u[j]
    <2>1. i + 1 < j + 1
      BY <1>1, <1>7
    <2> QED
      BY <1>1, <2>1
  <1> QED
    BY <1>1, <1>3, <1>4, <1>5, <1>6, <1>7 DEF u

LEMMA SentFacts ==
  ASSUME TypeOK
  PROVE  Sent \subseteq Packet
  <1>1. \A i \in DOMAIN delivered : delivered[i] \in Packet \X Nat
    BY DEF TypeOK
  <1>2. \A i \in DOMAIN delivered : delivered[i][1] \in Packet
    BY <1>1
  <1> QED
    BY <1>2 DEF Sent

\* A packet is transmitted.
LEMMA PushSent ==
  ASSUME TypeOK, NEW x \in Packet, delivered' = Append(delivered, <<x, now>>)
  PROVE  /\ Sent' = Sent \cup {x} /\ delivered' \in Seq(Packet \X Nat)
         /\ DOMAIN delivered = 1..Len(delivered) /\ Len(delivered) \in Nat
         /\ DOMAIN delivered' = 1..(Len(delivered) + 1)
         /\ \A i \in DOMAIN delivered' :
              \/ i \in DOMAIN delivered /\ delivered'[i] = delivered[i] /\ i < Len(delivered) + 1
              \/ i = Len(delivered) + 1 /\ delivered'[i][1] = x /\ delivered'[i][2] = now
         /\ \A i \in DOMAIN delivered : delivered[i][1] \in Sent /\ delivered[i][1] \in Packet
  <1> DEFINE n == Len(delivered)
  <1>1. <<x, now>> \in Packet \X Nat /\ <<x, now>>[1] = x /\ <<x, now>>[2] = now
    BY DEF TypeOK
  <1>2. /\ delivered' \in Seq(Packet \X Nat) /\ n \in Nat /\ DOMAIN delivered = 1..n
        /\ DOMAIN delivered' = 1..(n + 1)
        /\ \A i \in 1..n : delivered'[i] = delivered[i]
        /\ delivered'[n + 1] = <<x, now>>
        /\ \A i \in 1..(n + 1) : i \in 1..n \/ i = n + 1
        /\ \A i \in 1..n : i \in 1..(n + 1)
        /\ n + 1 \in 1..(n + 1)
    BY <1>1, AppendFacts DEF TypeOK
  <1> HIDE DEF n
  <1>3. \A i \in 1..n : i < n + 1
    BY <1>2
  <1>4. \A i \in DOMAIN delivered' :
          \/ i \in DOMAIN delivered /\ delivered'[i] = delivered[i] /\ i < n + 1
          \/ i = n + 1 /\ delivered'[i][1] = x /\ delivered'[i][2] = now
    BY <1>1, <1>2, <1>3
  <1>5. \A i \in DOMAIN delivered : delivered[i][1] \in Sent /\ delivered[i][1] \in Packet
    <2>1. \A i \in DOMAIN delivered : delivered[i] \in Packet \X Nat
      BY DEF TypeOK
    <2>2. \A i \in DOMAIN delivered : delivered[i][1] \in Packet
      BY <2>1
    <2>3. \A i \in DOMAIN delivered : delivered[i][1] \in Sent
      BY DEF Sent
    <2> QED
      BY <2>2, <2>3
  <1>6. \A y \in Sent' : y \in Sent \cup {x}
    BY <1>4 DEF Sent
  <1>7. x \in Sent' /\ Sent \subseteq Sent'
    BY <1>1, <1>2 DEF Sent
  <1> QED
    BY <1>2, <1>4, <1>5, <1>6, <1>7 DEF n

\* The queue's packets stay what they are.
LEMMA SamePlaces ==
  ASSUME TypeOK, Places, UNCHANGED <<input, delivered, freed, arrived, direct>>,
         queue' \in Seq(Entry), Sorted(queue'), PacketsIn(queue') = PacketsIn(queue)
  PROVE  Places'
  <1>1. Sent' = Sent
    BY DEF Sent
  <1>2. Order'
    BY <1>1 DEF Places, Order
  <1>3. NothingLost'
    BY <1>1, SortedIsInjective DEF Places, NothingLost
  <1>4. OnlyDirectOvertakes'
    BY DEF Places, OnlyDirectOvertakes
  <1> QED
    BY <1>2, <1>3, <1>4 DEF Places

\* push moves the oldest packet of the link to the back of the queue.
LEMMA ToQueue ==
  ASSUME TypeOK, Places, UNCHANGED <<delivered, freed, arrived, direct>>,
         input # << >>, input' = Tail(input), queue' \in Seq(Entry), Sorted(queue'),
         PacketsIn(queue') = PacketsIn(queue) \cup {Head(input)}
  PROVE  Places'
  <1> DEFINE x == Head(input)
  <1>1. Sent' = Sent
    BY DEF Sent
  <1>2. \A i, j \in DOMAIN input : i < j => input[i] < input[j]
    BY DEF Places, Order
  <1>3. /\ x \in Packet /\ x \in Range(input) /\ input' \in Seq(Packet)
        /\ Range(input') \subseteq Range(input)
        /\ \A y \in Range(input) : y = x \/ y \in Range(input')
        /\ \A y \in Range(input') : x < y
        /\ \A i, j \in DOMAIN input' : i < j => input'[i] < input'[j]
    BY <1>2, PopInput DEF TypeOK
  <1>4. PacketsIn(queue') = PacketsIn(queue) \cup {x}
    OBVIOUS
  <1> HIDE DEF x
  <1>5. \A y \in Range(input') : y # x
    BY <1>3 DEF Packet
  <1>6. Order'
    <2>1. \A s \in Sent : s < x
      BY <1>3 DEF Places, Order
    <2>2. \A y \in Range(input') : \A p \in PacketsIn(queue') \cup Sent' : p < y
      BY <1>1, <1>3, <1>4 DEF Places, Order
    <2>3. \A p \in PacketsIn(queue') : \A s \in Sent' \ direct' : s < p
      BY <1>1, <1>4, <2>1 DEF Places, Order
    <2> QED
      BY <1>1, <1>3, <2>2, <2>3 DEF Places, Order
  <1>7. NothingLost'
    <2>1. IsInjective(input')
      BY <1>3, RisingIsInjective
    <2>2. Range(input') \cup PacketsIn(queue') \cup Sent' \cup freed' = 1..arrived'
      <3>1. Range(input') \cup {x} = Range(input)
        BY <1>3
      <3>2. Range(input') \cup PacketsIn(queue') = Range(input) \cup PacketsIn(queue)
        BY <1>4, <3>1
      <3> QED
        BY <1>1, <3>2 DEF Places, NothingLost
    <2>3. /\ Range(input') \cap PacketsIn(queue') = {} /\ Range(input') \cap Sent' = {}
          /\ Range(input') \cap freed' = {}
      BY <1>1, <1>3, <1>4, <1>5 DEF Places, NothingLost
    <2>4. PacketsIn(queue') \cap Sent' = {} /\ PacketsIn(queue') \cap freed' = {} /\ Sent' \cap freed' = {}
      BY <1>1, <1>3, <1>4 DEF Places, NothingLost
    <2> QED
      BY <2>1, <2>2, <2>3, <2>4, SortedIsInjective DEF Places, NothingLost
  <1>8. OnlyDirectOvertakes'
    BY DEF Places, OnlyDirectOvertakes
  <1> QED
    BY <1>6, <1>7, <1>8 DEF Places

\* push transmits the oldest packet of the link.
LEMMA ToWire ==
  ASSUME TypeOK, Places, UNCHANGED <<queue, freed, arrived>>,
         input # << >>, input' = Tail(input), direct' = direct \cup {Head(input)},
         delivered' = Append(delivered, <<Head(input), now>>)
  PROVE  Places'
  <1> DEFINE x == Head(input)
             n == Len(delivered)
  <1>1. \A i, j \in DOMAIN input : i < j => input[i] < input[j]
    BY DEF Places, Order
  <1>2. /\ x \in Packet /\ x \in Range(input) /\ input' \in Seq(Packet)
        /\ Range(input') \subseteq Range(input)
        /\ \A y \in Range(input) : y = x \/ y \in Range(input')
        /\ \A y \in Range(input') : x < y
        /\ \A i, j \in DOMAIN input' : i < j => input'[i] < input'[j]
    BY <1>1, PopInput DEF TypeOK
  <1>3. /\ Sent' = Sent \cup {x}
        /\ DOMAIN delivered = 1..n /\ n \in Nat
        /\ DOMAIN delivered' = 1..(n + 1)
        /\ \A i \in DOMAIN delivered' :
             \/ i \in DOMAIN delivered /\ delivered'[i] = delivered[i] /\ i < n + 1
             \/ i = n + 1 /\ delivered'[i][1] = x
        /\ \A i \in DOMAIN delivered : delivered[i][1] \in Sent /\ delivered[i][1] \in Packet
    BY <1>2, PushSent
  <1>4. direct' = direct \cup {x}
    OBVIOUS
  <1> HIDE DEF x, n
  <1>5. \A y \in Range(input') : y # x
    BY <1>2 DEF Packet
  <1>6. \A s \in Sent : s < x /\ s # x
    <2>1. \A s \in Sent : s < x
      BY <1>2 DEF Places, Order
    <2>2. \A s \in Sent : s # x
      BY <1>2 DEF Places, NothingLost
    <2> QED
      BY <2>1, <2>2
  <1>7. Order'
    <2>1. \A y \in Range(input') : \A p \in PacketsIn(queue') \cup Sent' : p < y
      BY <1>2, <1>3 DEF Places, Order
    <2>2. \A p \in PacketsIn(queue') : \A s \in Sent' \ direct' : s < p
      BY <1>3, <1>4 DEF Places, Order
    <2>3. direct' \subseteq Sent'
      BY <1>3, <1>4 DEF Places, Order
    <2> QED
      BY <1>2, <2>1, <2>2, <2>3 DEF Places, Order
  <1>8. NothingLost'
    <2>1. IsInjective(input')
      BY <1>2, RisingIsInjective
    <2>2. Range(input') \cup PacketsIn(queue') \cup Sent' \cup freed' = 1..arrived'
      <3>1. Range(input') \cup {x} = Range(input)
        BY <1>2
      <3>2. Range(input') \cup Sent' = Range(input) \cup Sent
        BY <1>3, <3>1
      <3> QED
        BY <3>2 DEF Places, NothingLost
    <2>3. /\ Range(input') \cap PacketsIn(queue') = {} /\ Range(input') \cap Sent' = {}
          /\ Range(input') \cap freed' = {}
      BY <1>2, <1>3, <1>5 DEF Places, NothingLost
    <2>4. PacketsIn(queue') \cap Sent' = {} /\ PacketsIn(queue') \cap freed' = {} /\ Sent' \cap freed' = {}
      BY <1>2, <1>3 DEF Places, NothingLost
    <2>5. \A i, j \in DOMAIN delivered' : delivered'[i][1] = delivered'[j][1] => i = j
      BY <1>3, <1>6 DEF Places, NothingLost
    <2> QED
      BY <2>1, <2>2, <2>3, <2>4, <2>5 DEF Places, NothingLost
  <1>9. OnlyDirectOvertakes'
    <2> SUFFICES ASSUME NEW i \in DOMAIN delivered', NEW j \in DOMAIN delivered',
                        i < j, delivered'[i][1] > delivered'[j][1]
                 PROVE  delivered'[i][1] \in direct' /\ delivered'[j][1] \notin direct'
      BY DEF OnlyDirectOvertakes
    <2>1. i \in DOMAIN delivered /\ delivered'[i] = delivered[i]
      BY <1>3
    <2>2. CASE j = n + 1 /\ delivered'[j][1] = x
      BY <1>2, <1>3, <1>6, <2>1, <2>2 DEF Packet
    <2>3. CASE j \in DOMAIN delivered /\ delivered'[j] = delivered[j]
      BY <1>3, <1>4, <1>6, <2>1, <2>3 DEF Places, OnlyDirectOvertakes
    <2> QED
      BY <1>3, <2>2, <2>3
  <1> QED
    BY <1>7, <1>8, <1>9 DEF Places

\* pull transmits the oldest packet of the queue.
LEMMA FromQueue ==
  ASSUME TypeOK, Places, UNCHANGED <<input, freed, arrived, direct>>,
         queue' \in Seq(Entry), Sorted(queue'),
         NEW x \in PacketsIn(queue), PacketsIn(queue') = PacketsIn(queue) \ {x},
         \A p \in PacketsIn(queue') : x < p,
         delivered' = Append(delivered, <<x, now>>)
  PROVE  Places'
  <1> DEFINE n == Len(delivered)
  <1>1. x \in Packet /\ queue \in Seq(Entry)
    BY PacketsInFacts DEF TypeOK
  <1>2. /\ Sent' = Sent \cup {x}
        /\ DOMAIN delivered = 1..n /\ n \in Nat
        /\ DOMAIN delivered' = 1..(n + 1)
        /\ \A i \in DOMAIN delivered' :
             \/ i \in DOMAIN delivered /\ delivered'[i] = delivered[i] /\ i < n + 1
             \/ i = n + 1 /\ delivered'[i][1] = x
        /\ \A i \in DOMAIN delivered : delivered[i][1] \in Sent /\ delivered[i][1] \in Packet
    BY <1>1, PushSent
  <1> HIDE DEF n
  <1>3. x \notin Sent /\ x \notin direct /\ x \notin freed /\ x \notin Range(input)
    BY DEF Places, Order, NothingLost
  <1>4. \A s \in Sent \ direct : s < x
    BY DEF Places, Order
  <1>5. Order'
    <2>1. \A y \in Range(input') : \A p \in PacketsIn(queue') \cup Sent' : p < y
      BY <1>2 DEF Places, Order
    <2>2. \A p \in PacketsIn(queue') : \A s \in Sent' \ direct' : s < p
      BY <1>2 DEF Places, Order
    <2>3. direct' \subseteq Sent'
      BY <1>2 DEF Places, Order
    <2> QED
      BY <2>1, <2>2, <2>3 DEF Places, Order
  <1>6. NothingLost'
    <2>1. Range(input') \cup PacketsIn(queue') \cup Sent' \cup freed' = 1..arrived'
      <3>1. PacketsIn(queue') \cup Sent' = PacketsIn(queue) \cup Sent
        BY <1>2
      <3> QED
        BY <3>1 DEF Places, NothingLost
    <2>2. /\ Range(input') \cap PacketsIn(queue') = {} /\ Range(input') \cap Sent' = {}
          /\ Range(input') \cap freed' = {}
      BY <1>2, <1>3 DEF Places, NothingLost
    <2>3. PacketsIn(queue') \cap Sent' = {} /\ PacketsIn(queue') \cap freed' = {} /\ Sent' \cap freed' = {}
      BY <1>2, <1>3 DEF Places, NothingLost
    <2>4. \A i, j \in DOMAIN delivered' : delivered'[i][1] = delivered'[j][1] => i = j
      BY <1>2, <1>3 DEF Places, NothingLost
    <2> QED
      BY <2>1, <2>2, <2>3, <2>4, SortedIsInjective DEF Places, NothingLost
  <1>7. OnlyDirectOvertakes'
    <2> SUFFICES ASSUME NEW i \in DOMAIN delivered', NEW j \in DOMAIN delivered',
                        i < j, delivered'[i][1] > delivered'[j][1]
                 PROVE  delivered'[i][1] \in direct' /\ delivered'[j][1] \notin direct'
      BY DEF OnlyDirectOvertakes
    <2>1. i \in DOMAIN delivered /\ delivered'[i] = delivered[i]
      BY <1>2
    <2>2. CASE j = n + 1 /\ delivered'[j][1] = x
      <3>1. delivered[i][1] \in Sent /\ delivered[i][1] \in Int /\ x \in Int /\ ~(delivered[i][1] < x)
        BY <1>1, <1>2, <2>1, <2>2 DEF Packet
      <3> QED
        BY <1>3, <1>4, <2>1, <2>2, <3>1
    <2>3. CASE j \in DOMAIN delivered /\ delivered'[j] = delivered[j]
      BY <2>1, <2>3 DEF Places, OnlyDirectOvertakes
    <2> QED
      BY <1>2, <2>2, <2>3
  <1> QED
    BY <1>5, <1>6, <1>7 DEF Places

\* A packet comes in, and is put on the link or freed.
LEMMA ArrivePlaces ==
  ASSUME TypeOK, Places, Arrive
  PROVE  Places' /\ input' \in Seq(Packet) /\ freed' \subseteq Packet
  <1> DEFINE x == arrived + 1
  <1>1. x \in Packet /\ arrived \in Nat
    BY BoundAssumption DEF Arrive, TypeOK, Packet
  <1>2. /\ \A y \in Range(input) \cup PacketsIn(queue) \cup Sent \cup freed : y < x /\ y # x
        /\ Range(input) \cup PacketsIn(queue) \cup Sent \cup freed \cup {x} = 1..arrived'
    <2>1. arrived' = x
      BY DEF Arrive
    <2>2. 1..x = 1..arrived \cup {x} /\ \A y \in 1..arrived : y < x /\ y # x
      BY <1>1
    <2> QED
      BY <2>1, <2>2 DEF Places, NothingLost
  <1>3. Sent' = Sent /\ UNCHANGED <<queue, delivered, direct>>
    BY DEF Arrive, Sent
  <1>4. OnlyDirectOvertakes'
    BY <1>3 DEF Places, OnlyDirectOvertakes
  <1>5. CASE input' = Append(input, x) /\ freed' = freed
    <2> DEFINE n == Len(input)
    <2>1. /\ input' \in Seq(Packet) /\ n \in Nat /\ DOMAIN input = 1..n /\ DOMAIN input' = 1..(n + 1)
          /\ \A i \in 1..n : input'[i] = input[i]
          /\ input'[n + 1] = x
          /\ \A i \in 1..(n + 1) : i \in 1..n \/ i = n + 1
          /\ \A i \in 1..n : i \in 1..(n + 1)
          /\ n + 1 \in 1..(n + 1)
      BY <1>1, <1>5, AppendFacts DEF TypeOK
    <2> HIDE DEF n, x
    <2>2. Range(input') = Range(input) \cup {x}
      <3>1. \A y \in Range(input') : y \in Range(input) \/ y = x
        BY <2>1 DEF Range
      <3>2. x \in Range(input') /\ Range(input) \subseteq Range(input')
        BY <2>1 DEF Range
      <3> QED
        BY <3>1, <3>2
    <2>3. \A i, j \in DOMAIN input' : i < j => input'[i] < input'[j]
      <3> SUFFICES ASSUME NEW i \in 1..(n + 1), NEW j \in 1..(n + 1), i < j
                   PROVE  input'[i] < input'[j]
        BY <2>1
      <3>1. i \in 1..n
        BY <2>1
      <3>2. input[i] < x
        BY <1>2, <2>1, <3>1 DEF Range
      <3> QED
        BY <2>1, <3>1, <3>2 DEF Places, Order
    <2>4. Order'
      BY <1>2, <1>3, <2>2, <2>3 DEF Places, Order
    <2>5. NothingLost'
      <3>1. IsInjective(input')
        BY <2>1, <2>3, RisingIsInjective
      <3>2. Range(input') \cup PacketsIn(queue') \cup Sent' \cup freed' = 1..arrived'
        BY <1>2, <1>3, <1>5, <2>2
      <3>3. /\ Range(input') \cap PacketsIn(queue') = {} /\ Range(input') \cap Sent' = {}
            /\ Range(input') \cap freed' = {}
        BY <1>2, <1>3, <1>5, <2>2 DEF Places, NothingLost
      <3> QED
        BY <1>3, <1>5, <3>1, <3>2, <3>3 DEF Places, NothingLost
    <2> QED
      BY <1>4, <1>5, <2>1, <2>4, <2>5 DEF Places, TypeOK
  <1>6. CASE freed' = freed \cup {x} /\ input' = input
    <2> HIDE DEF x
    <2>1. Order'
      BY <1>3, <1>6 DEF Places, Order
    <2>2. NothingLost'
      <3>1. Range(input') \cup PacketsIn(queue') \cup Sent' \cup freed' = 1..arrived'
        BY <1>2, <1>3, <1>6
      <3>2. /\ Range(input') \cap freed' = {} /\ PacketsIn(queue') \cap freed' = {} /\ Sent' \cap freed' = {}
        BY <1>2, <1>3, <1>6 DEF Places, NothingLost
      <3> QED
        BY <1>3, <1>6, <3>1, <3>2 DEF Places, NothingLost
    <2> QED
      BY <1>1, <1>4, <1>6, <2>1, <2>2 DEF Places, TypeOK
  <1> QED
    BY <1>5, <1>6 DEF Arrive

\* A reconfiguration frees what is queued.
LEMMA DropPlaces ==
  ASSUME TypeOK, Places, Drop
  PROVE  Places' /\ freed' \subseteq Packet
  <1>1. PacketsIn(queue') = {} /\ Sorted(queue') /\ queue' \in Seq(Entry)
    BY EmptyQueue DEF Drop
  <1>2. Sent' = Sent /\ freed' = freed \cup PacketsIn(queue)
        /\ UNCHANGED <<input, delivered, direct, arrived>>
    BY DEF Drop, Sent
  <1>3. freed' \subseteq Packet
    BY <1>2, PacketsInFacts DEF TypeOK
  <1>4. Order'
    BY <1>1, <1>2 DEF Places, Order
  <1>5. NothingLost'
    <2>1. Range(input') \cup PacketsIn(queue') \cup Sent' \cup freed' = 1..arrived'
      BY <1>1, <1>2 DEF Places, NothingLost
    <2>2. /\ Range(input') \cap PacketsIn(queue') = {} /\ Range(input') \cap Sent' = {}
          /\ Range(input') \cap freed' = {}
      BY <1>1, <1>2 DEF Places, NothingLost
    <2>3. PacketsIn(queue') \cap Sent' = {} /\ PacketsIn(queue') \cap freed' = {} /\ Sent' \cap freed' = {}
      BY <1>1, <1>2 DEF Places, NothingLost
    <2> QED
      BY <1>1, <1>2, <2>1, <2>2, <2>3, SortedIsInjective DEF Places, NothingLost
  <1>6. OnlyDirectOvertakes'
    BY <1>2 DEF Places, OnlyDirectOvertakes
  <1> QED
    BY <1>3, <1>4, <1>5, <1>6 DEF Places

-----------------------------------------------------------------------------
(* Time and the delays.                                                    *)

\* Every step leaves the app alone and notes a full queue.
Frame == app' = app /\ filled' = (filled \/ Len(queue') >= capacity)

LEMMA PairedDelay ==
  ASSUME NEW q \in Seq(Entry), NEW u \in Nat, Paired(q, FALSE)
  PROVE  Paired(Append(q, Delay(u)), TRUE)
  <1> DEFINE r == Append(q, Delay(u))
             n == Len(q)
  <1>1. Delay(u) \in Entry
    BY EntryFacts
  <1>2. /\ r \in Seq(Entry) /\ n \in Nat /\ DOMAIN q = 1..n /\ DOMAIN r = 1..(n + 1)
        /\ \A i \in 1..n : r[i] = q[i]
        /\ Len(r) = n + 1
    BY <1>1, AppendFacts
  <1>3. \A i \in 1..n : IsDelay(q[i]) => i < n /\ ~IsDelay(q[i + 1])
    BY <1>2 DEF Paired
  <1> HIDE DEF r, n
  <1>4. \A i \in 1..n : i < n => i + 1 \in 1..n /\ i < n + 1
    BY <1>2
  <1>5. \A i \in 1..(n + 1) : i \in 1..n \/ i = n + 1
    BY <1>2
  <1>6. Paired(r, TRUE)
    BY <1>2, <1>3, <1>4, <1>5 DEF Paired
  <1> QED
    BY <1>6 DEF r

LEMMA PairedPacket ==
  ASSUME NEW q \in Seq(Entry), NEW p \in Packet, Paired(q, TRUE)
  PROVE  Paired(Append(q, Pkt(p)), FALSE)
  <1> DEFINE r == Append(q, Pkt(p))
             n == Len(q)
  <1>1. Pkt(p) \in Entry /\ ~IsDelay(Pkt(p))
    BY EntryFacts
  <1>2. /\ r \in Seq(Entry) /\ n \in Nat /\ DOMAIN q = 1..n /\ DOMAIN r = 1..(n + 1)
        /\ \A i \in 1..n : r[i] = q[i]
        /\ Len(r) = n + 1 /\ ~IsDelay(r[n + 1])
    BY <1>1, AppendFacts
  <1>3. \A i \in 1..n : IsDelay(q[i]) => (i < n /\ ~IsDelay(q[i + 1])) \/ i = n
    BY <1>2 DEF Paired
  <1> HIDE DEF r, n
  <1>4. \A i \in 1..n : i < n + 1 /\ (i < n => i + 1 \in 1..n)
    BY <1>2
  <1>5. \A i \in 1..(n + 1) : i \in 1..n \/ i = n + 1
    BY <1>2
  <1>6. Paired(r, FALSE)
    BY <1>2, <1>3, <1>4, <1>5 DEF Paired
  <1> QED
    BY <1>6 DEF r

\* A breath later, what was held back may be held back by the clock alone.
LEMMA Later ==
  ASSUME NEW q \in Seq(Entry), NEW t \in Nat, NEW u \in Nat, t <= u, NEW d \in [Packet -> Nat],
         HeldBack(q, t, d), Bounded(q, t)
  PROVE  HeldBack(q, u, d) /\ Bounded(q, u)
  <1>1. \A i \in DOMAIN q : q[i] \in Entry
    OBVIOUS
  <1>2. \A i \in DOMAIN q : ~IsDelay(q[i]) => d[q[i].p] \in Nat
    BY <1>1, EntryFacts
  <1>3. \A i \in DOMAIN q : IsDelay(q[i]) => q[i].ttx \in Nat
    BY <1>1, EntryFacts
  <1>4. HeldBack(q, u, d)
    <2> SUFFICES ASSUME NEW i \in DOMAIN q, ~IsDelay(q[i]), ~(d[q[i].p] <= u)
                 PROVE  \E j \in 1..(i - 1) : IsDelay(q[j]) /\ q[j].ttx >= d[q[i].p]
      BY DEF HeldBack
    <2>1. ~(d[q[i].p] <= t)
      BY <1>2
    <2> QED
      BY <2>1 DEF HeldBack
  <1>5. Bounded(q, u)
    BY <1>3, DelayAssumption DEF Bounded
  <1> QED
    BY <1>4, <1>5

\* The times of a packet that is not queued do not matter.
LEMMA Elsewhere ==
  ASSUME NEW q \in Seq(Entry), NEW t, NEW d, NEW dd, NEW e, NEW ee,
         \A p \in PacketsIn(q) : dd[p] = d[p] /\ ee[p] = e[p],
         Fit(q, t, d, e)
  PROVE  Fit(q, t, dd, ee)
  <1> USE DEF Fit
  <1>1. \A i \in DOMAIN q : ~IsDelay(q[i]) => dd[q[i].p] = d[q[i].p] /\ ee[q[i].p] = e[q[i].p]
    BY PacketsInFacts
  <1>2. HeldBack(q, t, dd)
    <2> SUFFICES ASSUME NEW i \in DOMAIN q, ~IsDelay(q[i]), ~(dd[q[i].p] <= t)
                 PROVE  \E j \in 1..(i - 1) : IsDelay(q[j]) /\ q[j].ttx >= dd[q[i].p]
      BY DEF HeldBack
    <2>1. PICK j \in 1..(i - 1) : IsDelay(q[j]) /\ q[j].ttx >= d[q[i].p]
      BY <1>1 DEF HeldBack
    <2> QED
      BY <1>1, <2>1
  <1>3. Soon(q, ee)
    BY <1>1 DEF Soon
  <1> QED
    BY <1>2, <1>3

LEMMA QueueStep ==
  ASSUME Frame, HeldBack(queue', now', due'), Bounded(queue', now'), Soon(queue', enqueued'),
         ~filled' => Paired(queue', Open'),
         Open' /\ ~full' => \E j \in DOMAIN queue' : IsDelay(queue'[j]) /\ queue'[j].ttx = now' + delay
  PROVE  QueueInv'
  <1>1. ~filled' => ~full'
    BY DEF Frame, full
  <1> QED
    BY <1>1 DEF QueueInv

\* What is sent in a step is due, and what was sent keeps its time.
LEMMA EarlyStep ==
  ASSUME TypeOK, NotEarly, NEW x \in Packet, \A p \in Sent : due'[p] = due[p],
         delivered' = delivered \/ (delivered' = Append(delivered, <<x, now>>) /\ due'[x] <= now)
  PROVE  NotEarly'
  <1>1. CASE delivered' = delivered
    <2>1. \A i \in DOMAIN delivered : delivered[i][1] \in Sent
      BY DEF Sent
    <2> QED
      BY <1>1, <2>1 DEF NotEarly
  <1>2. CASE delivered' = Append(delivered, <<x, now>>) /\ due'[x] <= now
    <2>1. /\ \A i \in DOMAIN delivered' :
               \/ i \in DOMAIN delivered /\ delivered'[i] = delivered[i]
               \/ delivered'[i][1] = x /\ delivered'[i][2] = now
          /\ \A i \in DOMAIN delivered : delivered[i][1] \in Sent
      BY <1>2, PushSent
    <2> QED
      BY <1>2, <2>1 DEF NotEarly
  <1> QED
    BY <1>1, <1>2

-----------------------------------------------------------------------------
(* The actions.                                                            *)

LEMMA InitIInv ==
  ASSUME Init
  PROVE  IInv
  <1> USE DEF Init, QInit
  <1>1. TypeOK
    <2>1. queue \in Seq(Entry) /\ input \in Seq(Packet) /\ delivered \in Seq(Packet \X Nat)
      OBVIOUS
    <2>2. enqueued \in [Packet -> Nat] /\ due \in [Packet -> Nat]
      OBVIOUS
    <2>3. now \in Nat /\ arrived \in 0..MaxPackets
      BY BoundAssumption
    <2>4. pc \in {"idle", "pull", "arrive", "push"} /\ app \in Apps /\ filled \in BOOLEAN
          /\ freed \subseteq Packet /\ direct \subseteq Packet
      OBVIOUS
    <2> QED
      BY <2>1, <2>2, <2>3, <2>4 DEF TypeOK
  <1>2. /\ PacketsIn(queue) = {} /\ Sorted(queue) /\ HeldBack(queue, now, due)
        /\ Bounded(queue, now) /\ Soon(queue, enqueued) /\ Paired(queue, Open)
    BY EmptyQueue
  <1>3. (\A i \in DOMAIN input : FALSE) /\ (\A i \in DOMAIN delivered : FALSE)
        /\ (\A i \in DOMAIN queue : FALSE)
    OBVIOUS
  <1>4. Range(input) = {} /\ Sent = {}
    BY <1>3 DEF Range, Sent
  <1>5. Order
    BY <1>2, <1>3, <1>4 DEF Order
  <1>6. QueueInv
    BY <1>2 DEF QueueInv, Open
  <1>7. NothingLost
    <2>1. IsInjective(input)
      BY <1>3 DEF IsInjective
    <2>2. 1..arrived = {}
      OBVIOUS
    <2> QED
      BY <1>2, <1>3, <1>4, <2>1, <2>2 DEF NothingLost
  <1>8. NotEarly /\ OnlyDirectOvertakes /\ NotLate /\ PanicsOnlyOnceFilled
    BY <1>3 DEF NotEarly, OnlyDirectOvertakes, NotLate, PanicsOnlyOnceFilled
  <1> QED
    BY <1>1, <1>5, <1>6, <1>7, <1>8 DEF IInv

LEMMA BreatheStep ==
  ASSUME IInv, Frame, Breathe
  PROVE  IInv'
  <1>1. /\ now \in Nat /\ now' \in Nat /\ now <= now' /\ pc = "idle" /\ pc' = "pull" /\ panic = "none"
        /\ UNCHANGED <<queue, input, panic, arrived, delivered, freed, enqueued, due, direct>>
    BY BoundAssumption DEF Breathe, IInv, TypeOK
  <1>2. TypeOK'
    BY <1>1 DEF IInv, TypeOK, Frame
  <1>3. Places'
    BY <1>1, SamePlaces DEF IInv, Places, TypeOK, Order
  <1>4. QueueInv'
    <2>1. HeldBack(queue', now', due') /\ Bounded(queue', now')
      BY <1>1, Later DEF IInv, TypeOK, QueueInv
    <2>2. Soon(queue', enqueued')
      BY <1>1 DEF IInv, QueueInv
    <2>3. Open = FALSE /\ Open' = FALSE
      BY <1>1 DEF Open
    <2>4. ~filled' => Paired(queue', Open')
      BY <1>1, <2>3 DEF IInv, QueueInv, Frame
    <2> QED
      BY <2>1, <2>2, <2>3, <2>4, QueueStep
  <1>5. NotEarly' /\ NotLate' /\ PanicsOnlyOnceFilled'
    BY <1>1 DEF IInv, NotEarly, NotLate, PanicsOnlyOnceFilled
  <1> QED
    BY <1>2, <1>3, <1>4, <1>5 DEF IInv, Places

\* The loop ends at a delay that is not over; every packet is behind it.
LEMMA PullReturnStep ==
  ASSUME IInv, Frame, PullReturn
  PROVE  IInv'
  <1>1. /\ pc = "pull" /\ pc' = "arrive" /\ panic = "none"
        /\ UNCHANGED <<queue, input, now, panic, arrived, delivered, freed, enqueued, due, direct>>
    BY DEF PullReturn
  <1>2. TypeOK'
    BY <1>1 DEF IInv, TypeOK, Frame
  <1>3. Places'
    BY <1>1, SamePlaces DEF IInv, Places, TypeOK, Order
  <1>4. QueueInv'
    <2>1. Open = FALSE /\ Open' = FALSE
      BY <1>1 DEF Open
    <2>2. ~filled' => Paired(queue', Open')
      BY <1>1, <2>1 DEF IInv, QueueInv, Frame
    <2> QED
      BY <1>1, <2>1, <2>2, QueueStep DEF IInv, QueueInv
  <1>5. NotLate'
    <2> SUFFICES ASSUME NEW p \in PacketsIn(queue)
                 PROVE  now < enqueued[p] + delay
      BY <1>1 DEF NotLate
    <2>1. PICK i \in DOMAIN queue : ~IsDelay(queue[i]) /\ p = queue[i].p
      BY PacketsInFacts DEF IInv, TypeOK
    <2>2. queue # << >> /\ 1 \in DOMAIN queue /\ Head(queue) = queue[1] /\ i \in Nat /\ i >= 1
          /\ queue[1] \in Entry
      BY <2>1 DEF IInv, TypeOK
    <2>3. IsDelay(queue[1]) /\ ~(now >= queue[1].ttx) /\ queue[1].ttx \in Nat
      BY <2>2, EntryFacts DEF PullReturn, MorePull, Expired, empty
    <2>4. 1 < i
      BY <2>1, <2>2, <2>3
    <2>5. queue[1].ttx <= enqueued[p] + delay
      BY <1>1, <2>1, <2>2, <2>3, <2>4 DEF IInv, QueueInv, Soon
    <2>6. p \in Packet /\ enqueued[p] \in Nat /\ now \in Nat
      BY PacketsInFacts DEF IInv, TypeOK
    <2> QED
      BY <2>3, <2>5, <2>6, DelayAssumption
  <1>6. NotEarly' /\ PanicsOnlyOnceFilled'
    BY <1>1 DEF IInv, NotEarly, PanicsOnlyOnceFilled
  <1> QED
    BY <1>2, <1>3, <1>4, <1>5, <1>6 DEF IInv, Places

LEMMA ArriveStep ==
  ASSUME IInv, Frame, Arrive
  PROVE  IInv'
  <1>1. /\ pc = "arrive" /\ panic = "none"
        /\ UNCHANGED <<queue, now, pc, panic, delivered, enqueued, due, direct>>
    BY DEF Arrive
  <1>2. Places' /\ input' \in Seq(Packet) /\ freed' \subseteq Packet
    BY ArrivePlaces DEF IInv, Places
  <1>3. arrived' \in 0..MaxPackets
    BY BoundAssumption DEF Arrive, IInv, TypeOK
  <1>4. TypeOK'
    BY <1>1, <1>2, <1>3 DEF IInv, TypeOK, Frame
  <1>5. QueueInv'
    <2>1. Open = FALSE /\ Open' = FALSE
      BY <1>1 DEF Open
    <2>2. ~filled' => Paired(queue', Open')
      BY <1>1, <2>1 DEF IInv, QueueInv, Frame
    <2> QED
      BY <1>1, <2>1, <2>2, QueueStep DEF IInv, QueueInv
  <1>6. NotEarly' /\ NotLate' /\ PanicsOnlyOnceFilled'
    BY <1>1 DEF IInv, NotEarly, NotLate, PanicsOnlyOnceFilled
  <1> QED
    BY <1>2, <1>4, <1>5, <1>6 DEF IInv, Places

LEMMA DropStep ==
  ASSUME IInv, Frame, Drop
  PROVE  IInv'
  <1>1. /\ pc = "idle" /\ panic = "none" /\ queue' = << >>
        /\ UNCHANGED <<input, now, pc, panic, arrived, delivered, enqueued, due, direct>>
    BY DEF Drop
  <1>2. Places' /\ freed' \subseteq Packet
    BY DropPlaces DEF IInv, Places
  <1>3. queue' \in Seq(Entry)
    BY <1>1
  <1>4. TypeOK'
    BY <1>1, <1>2, <1>3 DEF IInv, TypeOK, Frame
  <1>5. QueueInv'
    <2>1. HeldBack(queue', now', due') /\ Bounded(queue', now') /\ Soon(queue', enqueued')
          /\ Paired(queue', Open')
      BY <1>1, EmptyQueue
    <2>2. Open' = FALSE
      BY <1>1 DEF Open
    <2> QED
      BY <2>1, <2>2, QueueStep
  <1>6. NotEarly' /\ NotLate' /\ PanicsOnlyOnceFilled'
    BY <1>1 DEF IInv, NotEarly, NotLate, PanicsOnlyOnceFilled
  <1> QED
    BY <1>2, <1>4, <1>5, <1>6 DEF IInv, Places

LEMMA PushBeginStep ==
  ASSUME IInv, Frame, PushBegin
  PROVE  IInv'
  <1>1. /\ app # "latency" /\ pc = "arrive" /\ pc' = "push" /\ panic = "none"
        /\ UNCHANGED <<queue, input, now, panic, arrived, delivered, freed, enqueued, due, direct>>
    BY DEF PushBegin
  <1>2. TypeOK'
    BY <1>1 DEF IInv, TypeOK, Frame
  <1>3. Places'
    BY <1>1, SamePlaces DEF IInv, Places, TypeOK, Order
  <1>4. QueueInv'
    <2>1. Open = FALSE /\ Open' = FALSE
      BY <1>1 DEF Open, Frame
    <2>2. ~filled' => Paired(queue', Open')
      BY <1>1, <2>1 DEF IInv, QueueInv, Frame
    <2> QED
      BY <1>1, <2>1, <2>2, QueueStep DEF IInv, QueueInv
  <1>5. NotEarly' /\ NotLate' /\ PanicsOnlyOnceFilled'
    BY <1>1 DEF IInv, NotEarly, NotLate, PanicsOnlyOnceFilled
  <1> QED
    BY <1>2, <1>3, <1>4, <1>5 DEF IInv, Places

LEMMA PushReturnStep ==
  ASSUME IInv, Frame, PushReturn
  PROVE  IInv'
  <1>1. /\ pc = "push" /\ pc' = "idle" /\ panic = "none" /\ (input = << >> \/ full)
        /\ UNCHANGED <<queue, input, now, panic, arrived, delivered, freed, enqueued, due, direct>>
    BY DEF PushReturn
  <1>2. TypeOK'
    BY <1>1 DEF IInv, TypeOK, Frame
  <1>3. Places'
    BY <1>1, SamePlaces DEF IInv, Places, TypeOK, Order
  <1>4. QueueInv'
    <2>1. Open' = FALSE
      BY <1>1 DEF Open
    <2>2. ~filled' => ~filled /\ ~full
      BY <1>1 DEF full, Frame
    <2>3. ~filled' => Open = FALSE
      BY <1>1, <2>2 DEF Open
    <2>4. ~filled' => Paired(queue', Open')
      BY <1>1, <2>1, <2>2, <2>3 DEF IInv, QueueInv
    <2> QED
      BY <1>1, <2>1, <2>4, QueueStep DEF IInv, QueueInv
  <1>5. NotEarly' /\ NotLate' /\ PanicsOnlyOnceFilled'
    BY <1>1 DEF IInv, NotEarly, NotLate, PanicsOnlyOnceFilled
  <1> QED
    BY <1>2, <1>3, <1>4, <1>5 DEF IInv, Places

\* One round of pull: the packet at the front, or the one behind an expired
\* delay, is due.  The queue has been full if there is none.
LEMMA PullRoundStep ==
  ASSUME IInv, Frame, PullRound
  PROVE  IInv'
  <1> DEFINE rest == IF IsDelay(Head(queue)) THEN Tail(queue) ELSE queue
             m == Len(queue)
  <1>1. /\ pc = "pull" /\ panic = "none" /\ queue # << >> /\ Expired(Head(queue))
        /\ UNCHANGED <<input, now, pc, arrived, freed, enqueued, due, direct>>
    BY DEF PullRound, MorePull, empty
  <1>2. /\ queue \in Seq(Entry) /\ m \in Nat /\ m > 0 /\ DOMAIN queue = 1..m
        /\ Head(queue) = queue[1] /\ 1 \in 1..m /\ now \in Nat
        /\ due \in [Packet -> Nat]
    BY <1>1, TailFacts DEF IInv, TypeOK
  <1>3. /\ Sorted(queue) /\ HeldBack(queue, now, due) /\ Bounded(queue, now) /\ Soon(queue, enqueued)
        /\ ~filled => Paired(queue, Open)
    BY <1>1 DEF IInv, QueueInv, Order
  <1>4. Open = FALSE /\ Open' = FALSE
    BY <1>1 DEF Open
  <1>5. IsDelay(queue[1]) => queue[1].ttx <= now /\ queue[1].ttx \in Nat
    <2>1. queue[1] \in Entry
      BY <1>2
    <2> QED
      BY <1>1, <1>2, <2>1, EntryFacts DEF Expired
  \* Either kind of round takes entries from the front.
  <1>6. ASSUME NEW k \in Nat, NEW t \in Nat, queue' \in Seq(Entry),
               Without(queue, queue', k), Over(queue, k, t), Fit(queue, t, due, enqueued)
        PROVE  /\ Fit(queue', t, due, enqueued)
               /\ PacketsIn(queue') \subseteq PacketsIn(queue)
               /\ \A p \in PacketsIn(queue) :
                    p \in PacketsIn(queue') \/ \E i \in 1..k : ~IsDelay(queue[i]) /\ p = queue[i].p
               /\ \A i \in 1..k : ~IsDelay(queue[i]) => \A p \in PacketsIn(queue') : queue[i].p < p
               /\ Paired(queue, FALSE) => Paired(queue', FALSE)
    BY <1>2, <1>6, TakeFront
  <1>7. Fit(queue, now, due, enqueued)
    BY <1>3 DEF Fit
  <1> HIDE DEF m
  <1>8. CASE rest # << >> /\ ~IsDelay(Head(rest))
    <2> DEFINE k == IF IsDelay(queue[1]) THEN 2 ELSE 1
               x == queue[k].p
    <2>1. /\ queue' = Tail(rest) /\ delivered' = Append(delivered, <<Head(rest).p, now>>)
          /\ panic' = panic
      BY <1>8 DEF PullRound
    <2>2. /\ k \in 1..2 /\ k \in 1..m /\ Head(rest) = queue[k] /\ ~IsDelay(queue[k])
          /\ queue' \in Seq(Entry) /\ Without(queue, queue', k)
      <3>1. CASE IsDelay(queue[1])
        <4>1. /\ rest = Tail(queue) /\ rest \in Seq(Entry) /\ Len(rest) = m - 1
              /\ \A i \in 1..(m - 1) : rest[i] = queue[i + 1] /\ i + 1 \in 1..m
          BY <1>1, <1>2, <3>1, TailFacts DEF m
        <4> HIDE DEF rest
        <4>2. /\ queue' \in Seq(Entry) /\ Len(rest) \in Nat /\ Len(rest) > 0
              /\ Len(queue') = Len(rest) - 1
              /\ \A i \in 1..(Len(rest) - 1) : queue'[i] = rest[i + 1] /\ i + 1 \in 1..Len(rest)
              /\ Head(rest) = rest[1]
          BY <1>8, <2>1, <4>1, TailFacts
        <4>3. rest[1] = queue[2] /\ 2 \in 1..m
          BY <1>2, <4>1, <4>2
        <4>4. \A i \in 1..Len(queue') : queue'[i] = queue[i + 2]
          <5> SUFFICES ASSUME NEW i \in 1..Len(queue')
                       PROVE  queue'[i] = queue[i + 2]
            OBVIOUS
          <5>1. i \in Nat /\ i \in 1..(Len(rest) - 1)
            BY <4>2
          <5>2. queue'[i] = rest[i + 1] /\ i + 1 \in 1..Len(rest)
            BY <4>2, <5>1
          <5>3. i + 1 \in 1..(m - 1)
            BY <4>1, <5>2
          <5>4. rest[i + 1] = queue[i + 1 + 1] /\ i + 1 + 1 = i + 2
            BY <4>1, <5>1, <5>3
          <5> QED
            BY <5>2, <5>4
        <4> QED
          BY <1>2, <1>8, <3>1, <4>1, <4>2, <4>3, <4>4 DEF Without, m
      <3>2. CASE ~IsDelay(queue[1])
        <4>1. rest = queue
          BY <1>2, <3>2
        <4>2. /\ queue' \in Seq(Entry) /\ Len(queue') = m - 1
              /\ \A i \in 1..(m - 1) : queue'[i] = queue[i + 1]
          BY <1>1, <1>2, <2>1, <4>1, TailFacts DEF m
        <4> QED
          BY <1>2, <3>2, <4>1, <4>2 DEF Without, m
      <3> QED
        BY <3>1, <3>2
    <2>3. \A i \in 1..k : i = k \/ (i = 1 /\ IsDelay(queue[1]))
      OBVIOUS
    <2>4. delivered' = Append(delivered, <<x, now>>)
      BY <2>1, <2>2
    <2> HIDE DEF k, rest
    <2>5. x \in PacketsIn(queue) /\ x \in Packet
      BY <1>2, <2>2, PacketsInFacts
    <2>6. due[x] <= now
      <3>1. \/ due[x] <= now
            \/ \E j \in 1..(k - 1) : IsDelay(queue[j]) /\ queue[j].ttx >= due[x]
        BY <1>2, <1>3, <2>2 DEF HeldBack
      <3>2. \A j \in 1..(k - 1) : j = 1
        BY <2>2
      <3>3. due[x] \in Nat
        BY <1>2, <2>5
      <3> QED
        BY <1>2, <1>5, <3>1, <3>2, <3>3
    <2>7. Over(queue, k, now)
      BY <1>5, <2>2, <2>3 DEF Over
    <2>8. /\ Fit(queue', now, due, enqueued)
          /\ PacketsIn(queue') \subseteq PacketsIn(queue)
          /\ \A p \in PacketsIn(queue) :
               p \in PacketsIn(queue') \/ \E i \in 1..k : ~IsDelay(queue[i]) /\ p = queue[i].p
          /\ \A i \in 1..k : ~IsDelay(queue[i]) => \A p \in PacketsIn(queue') : queue[i].p < p
          /\ Paired(queue, FALSE) => Paired(queue', FALSE)
      <3>1. k \in Nat
        BY <2>2
      <3> QED
        BY <1>2, <1>6, <1>7, <2>2, <2>7, <3>1
    <2>9. k \in 1..k
      BY <2>2
    <2>10. \A p \in PacketsIn(queue') : x < p
      BY <2>2, <2>8, <2>9
    <2>11. PacketsIn(queue') = PacketsIn(queue) \ {x}
      <3>1. x \notin PacketsIn(queue')
        BY <2>5, <2>10 DEF Packet
      <3>2. \A p \in PacketsIn(queue) : p \in PacketsIn(queue') \/ p = x
        BY <2>3, <2>8
      <3> QED
        BY <2>8, <3>1, <3>2
    <2> HIDE DEF x
    <2>12. Places'
      BY <1>1, <2>2, <2>4, <2>5, <2>8, <2>10, <2>11, FromQueue DEF IInv, Places, Fit
    <2>13. delivered' \in Seq(Packet \X Nat)
      BY <2>4, <2>5, PushSent DEF IInv
    <2>14. TypeOK'
      BY <1>1, <2>2, <2>13 DEF IInv, TypeOK, Frame
    <2>15. QueueInv'
      <3>1. ~filled' => Paired(queue', Open')
        BY <1>3, <1>4, <2>8 DEF Frame
      <3> QED
        BY <1>1, <1>4, <2>8, <3>1, QueueStep DEF Fit
    <2>16. NotEarly'
      BY <1>1, <2>4, <2>5, <2>6, EarlyStep DEF IInv
    <2>17. NotLate' /\ PanicsOnlyOnceFilled'
      BY <1>1, <2>1 DEF NotLate, PanicsOnlyOnceFilled
    <2> QED
      BY <2>12, <2>14, <2>15, <2>16, <2>17 DEF IInv, Places
  <1>9. CASE ~(rest # << >> /\ ~IsDelay(Head(rest)))
    <2>1. /\ queue' = IF rest = << >> THEN rest ELSE Tail(rest)
          /\ delivered' = delivered /\ panic' # "none"
      BY <1>9 DEF PullRound
    <2>2. IsDelay(queue[1])
      BY <1>1, <1>2, <1>9
    <2>3. /\ rest = Tail(queue) /\ rest \in Seq(Entry) /\ Len(rest) = m - 1
          /\ \A i \in 1..(m - 1) : rest[i] = queue[i + 1] /\ i + 1 \in 1..m
      BY <1>1, <1>2, <2>2, TailFacts DEF m
    <2> HIDE DEF rest
    <2>4. ~(1 < m /\ ~IsDelay(queue[2]))
      <3> SUFFICES ASSUME 1 < m
                   PROVE  IsDelay(queue[2])
        OBVIOUS
      <3>1. 1 \in 1..(m - 1) /\ 1 + 1 = 2 /\ Len(rest) > 0
        BY <1>2, <2>3
      <3>2. rest[1] = queue[2]
        BY <2>3, <3>1
      <3>3. rest # << >> /\ Head(rest) = rest[1]
        BY <2>3, <3>1
      <3> QED
        BY <1>9, <3>2, <3>3
    <2>5. filled
      BY <1>2, <1>3, <1>4, <2>2, <2>4 DEF Paired, m
    <2>6. queue' \in Seq(Entry) /\ Sorted(queue') /\ PacketsIn(queue') = PacketsIn(queue)
      <3>1. CASE rest = << >>
        <4>1. queue' \in Seq(Entry) /\ Without(queue, queue', 1)
          <5>1. queue' = rest /\ queue' \in Seq(Entry)
            BY <2>1, <2>3, <3>1
          <5>2. Len(queue) = Len(queue') + 1 /\ Len(queue') = m - 1
            BY <1>2, <2>3, <5>1 DEF m
          <5>3. \A i \in 1..Len(queue') : queue'[i] = queue[i + 1]
            BY <2>3, <5>1, <5>2
          <5> QED
            BY <5>1, <5>2, <5>3 DEF Without
        <4>2. \A i \in 1..1 : i = 1
          OBVIOUS
        <4>3. Over(queue, 1, now)
          BY <1>5, <4>2 DEF Over
        <4>4. /\ Fit(queue', now, due, enqueued) /\ PacketsIn(queue') \subseteq PacketsIn(queue)
              /\ \A p \in PacketsIn(queue) :
                   p \in PacketsIn(queue') \/ \E i \in 1..1 : ~IsDelay(queue[i]) /\ p = queue[i].p
          BY <1>2, <1>6, <1>7, <4>1, <4>3
        <4> QED
          BY <2>2, <4>1, <4>2, <4>4 DEF Fit
      <3>2. CASE rest # << >>
        <4>1. /\ queue' \in Seq(Entry) /\ Len(rest) \in Nat /\ Len(rest) > 0
              /\ Len(queue') = Len(rest) - 1
              /\ \A i \in 1..(Len(rest) - 1) : queue'[i] = rest[i + 1] /\ i + 1 \in 1..Len(rest)
          BY <2>1, <2>3, <3>2, TailFacts
        <4>2. PacketsIn(queue') = PacketsIn(queue) /\ Sorted(queue')
          <5>1. IsDelay(queue[2]) /\ 2 \in 1..m
            BY <1>2, <2>3, <2>4, <4>1
          <5> DEFINE t == now + queue[2].ttx
          <5>2. queue[2].ttx \in Nat /\ t \in Nat /\ now <= t /\ queue[2].ttx <= t
            BY <1>2, <5>1, EntryFacts
          <5> HIDE DEF t
          <5>3. Fit(queue, t, due, enqueued)
            BY <1>2, <1>3, <5>2, Later DEF Fit
          <5>4. Without(queue, queue', 2)
            <6>1. m = Len(queue') + 2
              BY <1>2, <2>3, <4>1
            <6>2. ASSUME NEW i \in 1..Len(queue')
                  PROVE  queue'[i] = queue[i + 2]
              <7>1. queue'[i] = rest[i + 1] /\ i + 1 \in 1..(m - 1)
                BY <1>2, <2>3, <4>1
              <7>2. rest[i + 1] = queue[i + 1 + 1] /\ i + 1 + 1 = i + 2
                BY <2>3, <7>1
              <7> QED
                BY <7>1, <7>2
            <6> QED
              BY <6>1, <6>2 DEF Without, m
          <5>5. \A i \in 1..2 : IsDelay(queue[i]) /\ queue[i].ttx <= t
            <6>1. \A i \in 1..2 : i = 1 \/ i = 2
              OBVIOUS
            <6>2. queue[1].ttx <= t
              BY <1>2, <1>5, <2>2, <5>2
            <6> QED
              BY <2>2, <5>1, <5>2, <6>1, <6>2
          <5>6. Over(queue, 2, t)
            BY <5>5 DEF Over
          <5>7. /\ Fit(queue', t, due, enqueued) /\ PacketsIn(queue') \subseteq PacketsIn(queue)
                /\ \A p \in PacketsIn(queue) :
                     p \in PacketsIn(queue') \/ \E i \in 1..2 : ~IsDelay(queue[i]) /\ p = queue[i].p
            BY <1>6, <4>1, <5>2, <5>3, <5>4, <5>6
          <5> QED
            BY <5>5, <5>7 DEF Fit
        <4> QED
          BY <4>1, <4>2
      <3> QED
        BY <3>1, <3>2
    <2>7. Places'
      BY <1>1, <2>1, <2>6, SamePlaces DEF IInv, Places
    <2>8. TypeOK'
      BY <1>1, <2>1, <2>6 DEF IInv, TypeOK, Frame
    <2>9. QueueInv' /\ NotLate'
      BY <2>1 DEF QueueInv, NotLate
    <2>10. NotEarly'
      BY <1>1, <2>1 DEF IInv, NotEarly
    <2>11. PanicsOnlyOnceFilled'
      BY <2>5 DEF PanicsOnlyOnceFilled, Frame
    <2> QED
      BY <2>7, <2>8, <2>9, <2>10, <2>11 DEF IInv, Places
  <1> QED
    BY <1>8, <1>9

\* What push needs to know of a queue with room.
LEMMA PushFacts ==
  ASSUME IInv, panic = "none"
  PROVE  /\ queue \in Seq(Entry) /\ now \in Nat /\ now + delay \in Nat
         /\ due \in [Packet -> Nat] /\ enqueued \in [Packet -> Nat] /\ input \in Seq(Packet)
         /\ Fit(queue, now, due, enqueued)
         /\ ~filled => Paired(queue, Open)
         /\ input # << >> =>
              /\ Head(input) \in Packet /\ Tail(input) \in Seq(Packet)
              /\ Head(input) \notin PacketsIn(queue) /\ Head(input) \notin Sent
              /\ \A p \in PacketsIn(queue) : p < Head(input)
  <1>1. /\ queue \in Seq(Entry) /\ now \in Nat /\ now + delay \in Nat
        /\ due \in [Packet -> Nat] /\ enqueued \in [Packet -> Nat] /\ input \in Seq(Packet)
    BY DelayAssumption DEF IInv, TypeOK
  <1>2. Fit(queue, now, due, enqueued) /\ (~filled => Paired(queue, Open))
    BY DEF IInv, QueueInv, Order, Fit
  <1>3. ASSUME input # << >>
        PROVE  /\ Head(input) \in Packet /\ Tail(input) \in Seq(Packet)
               /\ Head(input) \notin PacketsIn(queue) /\ Head(input) \notin Sent
               /\ \A p \in PacketsIn(queue) : p < Head(input)
    <2>1. \A i, j \in DOMAIN input : i < j => input[i] < input[j]
      BY DEF IInv, Order
    <2>2. Head(input) \in Packet /\ Head(input) \in Range(input) /\ Tail(input) \in Seq(Packet)
      BY <1>1, <1>3, <2>1, PopInput
    <2> QED
      BY <2>2 DEF IInv, Order, NothingLost
  <1> QED
    BY <1>1, <1>2, <1>3

LEMMA PushDelayStep ==
  ASSUME IInv, Frame, PushDelay
  PROVE  IInv'
  <1>1. /\ app = "latency" /\ pc = "arrive" /\ pc' = "push" /\ panic = "none"
        /\ queue' = IF input # << >> /\ ~full THEN Append(queue, Delay(now + delay)) ELSE queue
        /\ UNCHANGED <<input, now, panic, arrived, delivered, freed, enqueued, due, direct>>
    BY DEF PushDelay
  <1>2. /\ queue \in Seq(Entry) /\ now \in Nat /\ now + delay \in Nat
        /\ Fit(queue, now, due, enqueued) /\ (~filled => Paired(queue, Open))
    BY <1>1, PushFacts
  <1>3. Open = FALSE
    BY <1>1 DEF Open
  <1>4. NotEarly' /\ NotLate' /\ PanicsOnlyOnceFilled'
    BY <1>1 DEF IInv, NotEarly, NotLate, PanicsOnlyOnceFilled
  <1>5. CASE input # << >> /\ ~full
    <2> DEFINE u == now + delay
    <2>1. queue' = Append(queue, Delay(u)) /\ u \in Nat /\ u <= now + delay
      BY <1>1, <1>2, <1>5
    <2>2. /\ queue' \in Seq(Entry) /\ PacketsIn(queue') = PacketsIn(queue)
          /\ Fit(queue', now, due, enqueued)
          /\ \E j \in DOMAIN queue' : IsDelay(queue'[j]) /\ queue'[j].ttx = u
      BY <1>2, <2>1, AddDelay
    <2>3. ~filled => Paired(queue', TRUE)
      BY <1>2, <1>3, <2>1, PairedDelay
    <2>4. Open' = TRUE
      BY <1>1, <1>5 DEF Open, Frame
    <2>5. QueueInv'
      <3>1. ~filled' => Paired(queue', Open')
        BY <2>3, <2>4 DEF Frame
      <3>2. HeldBack(queue', now', due') /\ Bounded(queue', now') /\ Soon(queue', enqueued')
        BY <1>1, <2>2 DEF Fit
      <3>3. \E j \in DOMAIN queue' : IsDelay(queue'[j]) /\ queue'[j].ttx = now' + delay
        BY <1>1, <2>2
      <3> QED
        BY <3>1, <3>2, <3>3, QueueStep
    <2>6. Places'
      BY <1>1, <2>2, SamePlaces DEF IInv, Places, Fit
    <2>7. TypeOK'
      BY <1>1, <2>2 DEF IInv, TypeOK, Frame
    <2> QED
      BY <1>4, <2>5, <2>6, <2>7 DEF IInv, Places
  <1>6. CASE ~(input # << >> /\ ~full)
    <2>1. queue' = queue
      BY <1>1, <1>6
    <2>2. Places'
      BY <1>1, <2>1, SamePlaces DEF IInv, Places, TypeOK, Order
    <2>3. TypeOK'
      BY <1>1, <2>1 DEF IInv, TypeOK, Frame
    <2>4. Open' /\ ~full' => FALSE
      BY <1>1, <1>6, <2>1 DEF Open, full
    <2>5. ~filled' => ~filled /\ ~full'
      BY DEF Frame, full
    <2>6. ~filled' => Paired(queue', Open')
      BY <1>2, <1>3, <2>1, <2>4, <2>5 DEF Open
    <2>7. QueueInv'
      BY <1>1, <1>2, <2>1, <2>4, <2>6, QueueStep DEF Fit
    <2> QED
      BY <1>4, <2>2, <2>3, <2>7 DEF IInv, Places
  <1> QED
    BY <1>5, <1>6

\* The oldest packet goes to the back of the queue q, which is the queue or the
\* queue with one more delay, and which holds the packet back until u.
LEMMA Enqueue ==
  ASSUME IInv, Frame, panic = "none", UNCHANGED <<now, pc, panic, arrived, delivered, freed, direct>>,
         pc = "push", input # << >>, input' = Tail(input), NEW u \in Nat, Record(Head(input), u),
         NEW q \in Seq(Entry), Fit(q, now, due, enqueued), PacketsIn(q) = PacketsIn(queue),
         Holds(q, now, u), queue' = Append(q, Pkt(Head(input))), ~filled => Paired(q, TRUE),
         Open' /\ ~full' => \E j \in DOMAIN q : IsDelay(q[j]) /\ q[j].ttx = now + delay
  PROVE  IInv'
  <1> DEFINE x == Head(input)
             n == Len(q)
  <1>1. /\ now \in Nat /\ due \in [Packet -> Nat] /\ enqueued \in [Packet -> Nat]
        /\ x \in Packet /\ input' \in Seq(Packet)
        /\ x \notin Sent /\ \A p \in PacketsIn(q) : p < x
    BY PushFacts
  <1>2. due' = [due EXCEPT ![x] = u] /\ enqueued' = [enqueued EXCEPT ![x] = now]
    BY DEF Record
  <1>3. queue' = Append(q, Pkt(x)) /\ input' = Tail(input)
    OBVIOUS
  <1> HIDE DEF x
  <1>4. /\ queue' \in Seq(Entry) /\ PacketsIn(queue') = PacketsIn(q) \cup {x}
        /\ Fit(queue', now, due', enqueued')
    <2>1. /\ Append(q, Pkt(x)) \in Seq(Entry)
          /\ PacketsIn(Append(q, Pkt(x))) = PacketsIn(q) \cup {x}
          /\ Fit(Append(q, Pkt(x)), now, [due EXCEPT ![x] = u], [enqueued EXCEPT ![x] = now])
      BY <1>1, AddPacket
    <2> QED
      BY <1>2, <1>3, <2>1
  <1>5. due' \in [Packet -> Nat] /\ enqueued' \in [Packet -> Nat]
    BY <1>1, <1>2
  <1>6. TypeOK'
    BY <1>1, <1>4, <1>5 DEF IInv, TypeOK, Frame
  <1>7. Places'
    BY <1>3, <1>4, ToQueue DEF IInv, Places, x, Fit
  <1>8. QueueInv'
    <2>1. ~filled' => Paired(queue', Open')
      <3>1. ~filled => Paired(queue', FALSE)
        BY <1>1, <1>3, PairedPacket
      <3> QED
        BY <3>1 DEF Frame, Paired
    <2>2. /\ Pkt(x) \in Entry /\ n \in Nat /\ DOMAIN q = 1..n /\ DOMAIN queue' = 1..(n + 1)
          /\ \A i \in 1..n : queue'[i] = q[i] /\ i \in 1..(n + 1)
      BY <1>1, <1>3, EntryFacts, AppendFacts
    <2> HIDE DEF n
    <2>3. Open' /\ ~full' => \E j \in DOMAIN queue' : IsDelay(queue'[j]) /\ queue'[j].ttx = now' + delay
      BY <2>2
    <2> QED
      BY <1>4, <2>1, <2>3, QueueStep DEF Fit
  <1>9. NotEarly'
    <2>1. \A p \in Sent : due'[p] = due[p]
      BY <1>1, <1>2, SentFacts DEF IInv
    <2> QED
      BY <1>1, <2>1, EarlyStep DEF IInv
  <1>10. NotLate' /\ PanicsOnlyOnceFilled'
    BY DEF NotLate, PanicsOnlyOnceFilled
  <1> QED
    BY <1>6, <1>7, <1>8, <1>9, <1>10 DEF IInv, Places

LEMMA PushPacketStep ==
  ASSUME IInv, Frame, PushPacket
  PROVE  IInv'
  <1>1. /\ app = "latency" /\ pc = "push" /\ panic = "none" /\ input # << >> /\ ~full
        /\ queue' = Append(queue, Pkt(Head(input))) /\ input' = Tail(input)
        /\ Record(Head(input), now + delay)
        /\ UNCHANGED <<now, pc, panic, arrived, delivered, freed, direct>>
    BY DEF PushPacket
  <1>2. /\ queue \in Seq(Entry) /\ now \in Nat /\ now + delay \in Nat
        /\ Fit(queue, now, due, enqueued) /\ (~filled => Paired(queue, Open))
    BY <1>1, PushFacts
  <1>3. \E j \in DOMAIN queue : IsDelay(queue[j]) /\ queue[j].ttx = now + delay
    BY <1>1 DEF IInv, QueueInv, Open
  <1>4. Holds(queue, now, now + delay)
    BY <1>2, <1>3 DEF Holds
  <1>5. ~filled => Paired(queue, TRUE)
    BY <1>2 DEF Paired
  <1> QED
    BY <1>1, <1>2, <1>3, <1>4, <1>5, Enqueue

\* A packet that got a delay of its own, or the delay alone if that fills the queue.
LEMMA JitteredStep ==
  ASSUME IInv, Frame, PushRound, PushJittered
  PROVE  IInv'
  <1>1. /\ app # "latency" /\ pc = "push" /\ panic = "none" /\ input # << >> /\ ~full
        /\ UNCHANGED <<now, pc, panic, arrived, delivered, freed, direct>>
    BY DEF PushRound, PushJittered
  <1>2. PICK t \in now..(now + delay) :
          IF Len(WithDelay(t)) >= capacity
          THEN queue' = WithDelay(t) /\ UNCHANGED <<input, enqueued, due>>
          ELSE /\ queue' = Append(WithDelay(t), Pkt(Head(input)))
               /\ input' = Tail(input)
               /\ Record(Head(input), t)
    BY DEF PushJittered
  <1>3. /\ queue \in Seq(Entry) /\ now \in Nat /\ now + delay \in Nat
        /\ Fit(queue, now, due, enqueued) /\ (~filled => Paired(queue, Open))
    BY <1>1, PushFacts
  <1>4. t \in Nat /\ t <= now + delay
    BY <1>3
  <1>5. Open = FALSE /\ Open' = FALSE
    BY <1>1 DEF Open, Frame
  <1> DEFINE q == WithDelay(t)
  <1>6. /\ q \in Seq(Entry) /\ PacketsIn(q) = PacketsIn(queue) /\ Fit(q, now, due, enqueued)
        /\ \E j \in DOMAIN q : IsDelay(q[j]) /\ q[j].ttx = t
    BY <1>3, <1>4, AddDelay DEF WithDelay
  <1>7. ~filled => Paired(q, TRUE)
    BY <1>3, <1>4, <1>5, PairedDelay DEF WithDelay
  <1>8. CASE Len(q) >= capacity
    <2>1. queue' = q /\ UNCHANGED <<input, enqueued, due>>
      BY <1>2, <1>8
    <2>2. filled'
      BY <1>8, <2>1 DEF Frame
    <2> HIDE DEF q
    <2>3. Places'
      BY <1>1, <1>6, <2>1, SamePlaces DEF IInv, Places, Fit
    <2>4. TypeOK'
      BY <1>1, <1>6, <2>1 DEF IInv, TypeOK, Frame
    <2>5. QueueInv'
      BY <1>1, <1>5, <1>6, <2>1, <2>2, QueueStep DEF Fit
    <2>6. NotEarly' /\ NotLate' /\ PanicsOnlyOnceFilled'
      BY <1>1, <2>1 DEF IInv, NotEarly, NotLate, PanicsOnlyOnceFilled
    <2> QED
      BY <2>3, <2>4, <2>5, <2>6 DEF IInv, Places
  <1>9. CASE ~(Len(q) >= capacity)
    <2>1. queue' = Append(q, Pkt(Head(input))) /\ input' = Tail(input) /\ Record(Head(input), t)
      BY <1>2, <1>9
    <2> HIDE DEF q
    <2>2. Holds(q, now, t)
      BY <1>4, <1>6 DEF Holds
    <2> QED
      BY <1>1, <1>4, <1>5, <1>6, <1>7, <2>1, <2>2, Enqueue
  <1> QED
    BY <1>8, <1>9

\* A packet without a delay overtakes the queue.
LEMMA DirectStep ==
  ASSUME IInv, Frame, PushRound, PushDirect
  PROVE  IInv'
  <1> DEFINE x == Head(input)
  <1>1. /\ app # "latency" /\ pc = "push" /\ panic = "none" /\ input # << >>
        /\ delivered' = Append(delivered, <<x, now>>) /\ direct' = direct \cup {x}
        /\ input' = Tail(input) /\ Record(x, now)
        /\ UNCHANGED <<queue, now, pc, panic, arrived, freed>>
    BY DEF PushRound, PushDirect
  <1>2. /\ queue \in Seq(Entry) /\ now \in Nat /\ due \in [Packet -> Nat] /\ enqueued \in [Packet -> Nat]
        /\ Fit(queue, now, due, enqueued) /\ (~filled => Paired(queue, Open))
        /\ x \in Packet /\ input' \in Seq(Packet) /\ x \notin PacketsIn(queue) /\ x \notin Sent
    BY <1>1, PushFacts
  <1>3. Places'
    BY <1>1, ToWire DEF IInv, Places
  <1> HIDE DEF x
  <1>4. due' = [due EXCEPT ![x] = now] /\ enqueued' = [enqueued EXCEPT ![x] = now]
    BY <1>1 DEF Record
  <1>5. delivered' \in Seq(Packet \X Nat)
    BY <1>1, <1>2, PushSent DEF IInv
  <1>6. due' \in [Packet -> Nat] /\ enqueued' \in [Packet -> Nat]
    BY <1>2, <1>4
  <1>7. direct' \subseteq Packet
    BY <1>1, <1>2 DEF IInv, TypeOK
  <1>8. TypeOK'
    BY <1>1, <1>2, <1>5, <1>6, <1>7 DEF IInv, TypeOK, Frame
  <1>9. QueueInv'
    <2>1. Open = FALSE /\ Open' = FALSE
      BY <1>1 DEF Open, Frame
    <2>2. \A p \in PacketsIn(queue) : due'[p] = due[p] /\ enqueued'[p] = enqueued[p]
      <3>1. \A p \in PacketsIn(queue) : p \in Packet /\ p # x
        BY <1>2, PacketsInFacts
      <3> QED
        BY <1>2, <1>4, <3>1
    <2>3. Fit(queue, now, due', enqueued')
      BY <1>2, <2>2, Elsewhere
    <2>4. ~filled' => Paired(queue', Open')
      BY <1>1, <1>2, <2>1 DEF Frame
    <2> QED
      BY <1>1, <1>2, <2>1, <2>3, <2>4, QueueStep DEF Fit
  <1>10. NotEarly'
    <2>1. \A p \in Sent : due'[p] = due[p]
      BY <1>2, <1>4, SentFacts DEF IInv
    <2>2. due'[x] <= now
      BY <1>2, <1>4
    <2> QED
      BY <1>1, <1>2, <2>1, <2>2, EarlyStep DEF IInv
  <1>11. NotLate' /\ PanicsOnlyOnceFilled'
    BY <1>1 DEF NotLate, PanicsOnlyOnceFilled
  <1> QED
    BY <1>3, <1>8, <1>9, <1>10, <1>11 DEF IInv, Places

LEMMA PlainStep ==
  ASSUME IInv, Frame, PushRound, PushPlain
  PROVE  IInv'
  <1>1. /\ app # "latency" /\ pc = "push" /\ panic = "none" /\ input # << >>
        /\ queue' = Append(queue, Pkt(Head(input))) /\ input' = Tail(input)
        /\ Record(Head(input), now)
        /\ UNCHANGED <<now, pc, panic, arrived, delivered, freed, direct>>
    BY DEF PushRound, PushPlain
  <1>2. /\ queue \in Seq(Entry) /\ now \in Nat
        /\ Fit(queue, now, due, enqueued) /\ (~filled => Paired(queue, Open))
    BY <1>1, PushFacts
  <1>3. ~Open'
    BY <1>1 DEF Open, Frame
  <1>4. Holds(queue, now, now)
    BY <1>2 DEF Holds
  <1>5. ~filled => Paired(queue, TRUE)
    BY <1>2 DEF Paired
  <1> QED
    BY <1>1, <1>2, <1>3, <1>4, <1>5, Enqueue

LEMMA NextIInv ==
  ASSUME IInv, [Next]_vars
  PROVE  IInv'
  <1>1. CASE Next
    <2>1. Frame /\ Step
      BY <1>1 DEF Next, Frame
    <2>2. CASE PushRound
      <3>1. PushJittered \/ PushDirect \/ PushPlain
        BY <2>2 DEF PushRound
      <3> QED
        BY <2>1, <2>2, <3>1, JitteredStep, DirectStep, PlainStep
    <2> QED
      BY <2>1, <2>2, BreatheStep, PullRoundStep, PullReturnStep, ArriveStep, DropStep,
         PushDelayStep, PushPacketStep, PushBeginStep, PushReturnStep DEF Step
  <1>2. CASE UNCHANGED vars
    <2>1. UNCHANGED <<queue, input, now, pc, panic, arrived, delivered, freed, enqueued, due, direct,
                      app, filled>>
      BY <1>2 DEF vars, qvars
    <2>2. TypeOK'
      BY <2>1 DEF IInv, TypeOK
    <2>3. Places'
      BY <2>1, SamePlaces DEF IInv, Places, TypeOK, Order
    <2>4. QueueInv'
      BY <2>1 DEF IInv, QueueInv, Open, full
    <2>5. NotEarly' /\ NotLate' /\ PanicsOnlyOnceFilled'
      BY <2>1 DEF IInv, NotEarly, NotLate, PanicsOnlyOnceFilled
    <2> QED
      BY <2>2, <2>3, <2>4, <2>5 DEF IInv, Places
  <1> QED
    BY <1>1, <1>2

-----------------------------------------------------------------------------

LEMMA DelayInv == Spec => []IInv
  <1>1. Init => IInv
    BY InitIInv
  <1>2. IInv /\ [Next]_vars => IInv'
    BY NextIInv
  <1> QED
    BY <1>1, <1>2, PTL DEF Spec

\* pull never hands a packet over before the delay that push meant for it is over:
\* Latency's ms for its whole batch, or the delay that Jitter drew for it, also when
\* the queue fills up between the two or the app is reconfigured.
THEOREM PacketsNotEarly == Spec => []NotEarly
  <1>1. IInv => NotEarly
    BY DEF IInv
  <1> QED
    BY <1>1, DelayInv, PTL

\* When pull returns, no packet has been queued for as long as the latency, or the
\* longest jitter, whatever delays are ahead of it.
THEOREM PacketsNotLate == Spec => []NotLate
  <1>1. IInv => NotLate
    BY DEF IInv
  <1> QED
    BY <1>1, DelayInv, PTL

\* Every packet the apps were given is on the link, in the queue, transmitted or
\* freed, and in one of these places once; Drop frees what a reconfiguration finds.
THEOREM PacketsNotLost == Spec => []NothingLost
  <1>1. IInv => NothingLost
    BY DEF IInv
  <1> QED
    BY <1>1, DelayInv, PTL

\* Only Jitter's packets without a delay, with reorder set, overtake others.
THEOREM OrderIsKept == Spec => []OnlyDirectOvertakes
  <1>1. IInv => OnlyDirectOvertakes
    BY DEF IInv
  <1> QED
    BY <1>1, DelayInv, PTL

\* dequeue_packet panics in no run in which the queue has not been full.
THEOREM PullFindsAPacket == Spec => []PanicsOnlyOnceFilled
  <1>1. IInv => PanicsOnlyOnceFilled
    BY DEF IInv
  <1> QED
    BY <1>1, DelayInv, PTL
=============================================================================
