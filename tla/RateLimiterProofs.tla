------------------------- MODULE RateLimiterProofs -------------------------
(***************************************************************************)
(* Proofs about the token bucket for every rate, scale, tick and clock     *)
(* resolution: what it forwards over any window is bounded from above by   *)
(* the rate and a bucketful, and from below by tick/(tick + 1) of the rate.*)
(***************************************************************************)
EXTENDS RateLimiter, TLAPS

\* Truncating division, as as_micros does it.
LEMMA Truncation ==
  ASSUME NEW a \in Nat, NEW u \in Nat, u > 0
  PROVE  /\ a \div u \in Nat
         /\ u * (a \div u) <= a
         /\ a < u * (a \div u) + u
  BY Z3

\* Products of naturals are naturals, and are monotone.
LEMMA Product ==
  ASSUME NEW a \in Nat, NEW b \in Nat
  PROVE  a * b \in Nat
  BY Z3

LEMMA ProductMonotone ==
  ASSUME NEW a \in Nat, NEW b \in Int, NEW c \in Int, b <= c
  PROVE  a * b <= a * c
  BY Z3

\* initial_tokens never exceeds the bucket.
LEMMA InitialFits == initial_tokens \in 0..capacity
  <1>1. scale \div tick \in Nat /\ scale \div tick >= 1
    BY ScaleAssumption, TickAssumption, Z3
  <1>. QED BY <1>1, ScaleAssumption, RateAssumption, Z3 DEF initial_tokens, capacity

\* Crediting r * us tokens, of which the bucket keeps t2 - t, for at least
\* u * us clock units keeps the upper bound.
LEMMA CreditUpper ==
  ASSUME NEW u \in Nat, NEW r \in Nat, NEW us \in Nat, NEW dt \in Nat,
         NEW p \in Int, NEW t \in Int, NEW t2 \in Int, NEW m \in Int, NEW e \in Int,
         u * us <= dt,
         t2 <= t + r * us,
         u * (p + t) <= u * m + r * e
  PROVE  u * (p + t2) <= u * m + r * (e + dt)
  <1>1. u * (p + t2) <= u * (p + (t + r * us))
    <2>1. p + t2 \in Int /\ p + (t + r * us) \in Int /\ p + t2 <= p + (t + r * us)
      BY Z3
    <2>. QED BY <2>1, ProductMonotone
  <1>2. u * (p + (t + r * us)) = u * (p + t) + r * (u * us)
    BY Z3
  <1>3. r * (u * us) <= r * dt
    <2>1. u * us \in Int
      BY Z3
    <2>. QED BY <2>1, ProductMonotone
  <1>4. r * (e + dt) = r * e + r * dt
    BY Z3
  <1>. QED BY <1>1, <1>2, <1>3, <1>4, Z3

\* Crediting r * us tokens for fewer than u * (us + 1) clock units, us being
\* at least k, keeps the lower bound of k/(k + 1) of the rate.
LEMMA CreditLower ==
  ASSUME NEW u \in Nat, NEW r \in Nat, NEW k \in Nat, NEW us \in Nat, NEW dt \in Nat,
         NEW g \in Int, NEW e \in Int,
         k <= us,
         dt <= u * us + u,
         (k + 1) * u * g >= k * r * e
  PROVE  (k + 1) * u * (g + r * us) >= k * r * (e + dt)
  <1>1. k * dt <= k * (u * us + u)
    BY ProductMonotone, Z3
  <1>2. k * (u * us + u) <= (k + 1) * (u * us)
    <2>1. u * k <= u * us
      BY ProductMonotone
    <2>2. k * (u * us + u) = k * (u * us) + u * k
      BY Z3
    <2>3. (k + 1) * (u * us) = k * (u * us) + u * us
      BY Z3
    <2>. QED BY <2>1, <2>2, <2>3, Z3
  <1>3. k * dt <= (k + 1) * (u * us)
    BY <1>1, <1>2, Z3
  <1>4. r * (k * dt) <= r * ((k + 1) * (u * us))
    <2>1. k * dt \in Int /\ (k + 1) * (u * us) \in Int
      BY Z3
    <2>. QED BY <1>3, <2>1, ProductMonotone
  <1>5. (k + 1) * u * (g + r * us) = (k + 1) * u * g + r * ((k + 1) * (u * us))
    BY Z3
  <1>6. k * r * (e + dt) = k * r * e + r * (k * dt)
    BY Z3
  <1>. QED BY <1>4, <1>5, <1>6, Z3

-----------------------------------------------------------------------------
(* The invariant and its preservation, one lemma per step that touches the *)
(* bucket.                                                                 *)

\* Before the first push the bucket is as it was made.
NotStarted == lastTime = Never => /\ pc = "idle"
                                  /\ mark.tokens = tokens
                                  /\ mark.passed = passed
                                  /\ mark.wasted = wasted

Inv == TypeOK /\ NotStarted /\ WithinTokens /\ RateGranted

LEMMA ConstantFacts ==
  /\ rate \in Nat /\ scale \in Nat /\ tick \in Nat /\ UNIT \in Nat /\ UNIT > 0
  /\ capacity \in Nat
  /\ \A len \in Lengths : Cost(len) \in Nat
  <1>1. rate \in Nat /\ scale \in Nat /\ tick \in Nat /\ UNIT \in Nat /\ UNIT > 0
    BY RateAssumption, ScaleAssumption, TickAssumption, UnitAssumption
  <1>2. capacity \in Nat
    BY <1>1, Product DEF capacity
  <1>3. ASSUME NEW len \in Lengths PROVE Cost(len) \in Nat
    <2>1. bitlength(len) \in Nat
      BY LengthsAssumption DEF bitlength
    <2>. QED BY <1>1, <2>1, Product DEF Cost
  <1>. QED BY <1>1, <1>2, <1>3

\* The quantities of the invariant are integers.
LEMMA Integers ==
  ASSUME TypeOK, lastTime # Never
  PROVE  /\ now \in Nat /\ lastTime \in Nat /\ lastTime <= now
         /\ tokens \in Nat /\ tokens <= capacity /\ capacity \in Nat
         /\ passed \in Nat /\ wasted \in Nat
         /\ mark.tokens \in Int /\ mark.lastTime \in Int
         /\ mark.passed \in Int /\ mark.wasted \in Int
  BY ConstantFacts DEF TypeOK, Never

LEMMA InitInv == Init => Inv
  <1>. SUFFICES ASSUME Init PROVE Inv
    OBVIOUS
  <1>1. TypeOK
    BY InitialFits, ConstantFacts DEF Init, TypeOK, Never
  <1>2. lastTime = Never
    BY DEF Init
  <1>3. NotStarted
    BY DEF Init, NotStarted
  <1>. QED BY <1>1, <1>2, <1>3 DEF Inv, WithinTokens, RateGranted

LEMMA StartClockStep ==
  ASSUME Inv, lastTime = Never, StartClock, UNCHANGED <<now, input, passed>>,
         pc' \in {"idle", "forward"}
  PROVE  Inv'
  <1>0. mark.tokens = tokens /\ mark.passed = passed /\ mark.wasted = wasted
    BY DEF Inv, NotStarted
  <1>1. /\ tokens \in Nat /\ passed \in Nat /\ wasted \in Nat /\ now \in Nat
        /\ tokens \in 0..capacity
    BY ConstantFacts DEF Inv, TypeOK
  <1>2. /\ mark'.tokens = tokens /\ mark'.lastTime = now
        /\ mark'.passed = passed /\ mark'.wasted = wasted
        /\ mark' \in [tokens : 0..capacity, lastTime : Nat, passed : Nat, wasted : Nat]
    BY <1>0, <1>1 DEF StartClock, Inv, TypeOK
  <1>3. TypeOK'
    BY <1>1, <1>2 DEF StartClock, Inv, TypeOK
  <1>4. /\ passed' - mark'.passed = 0 /\ lastTime' - mark'.lastTime = 0
        /\ wasted' - mark'.wasted = 0 /\ tokens' = mark'.tokens /\ tokens' \in Nat
    BY <1>1, <1>2 DEF StartClock
  <1>5. WithinTokens'
    BY <1>4, ConstantFacts, Z3 DEF WithinTokens, PassedSince, ElapsedSince
  <1>6. RateGranted'
    BY <1>4, ConstantFacts, Z3 DEF RateGranted, PassedSince, ElapsedSince
  <1>7. NotStarted'
    BY <1>1 DEF StartClock, NotStarted, Never
  <1>. QED BY <1>3, <1>5, <1>6, <1>7 DEF Inv

LEMMA ReplenishStep ==
  ASSUME Inv, lastTime # Never, us_elapsed >= tick, Replenish,
         UNCHANGED <<now, input, passed>>, pc' \in {"idle", "forward"}
  PROVE  Inv'
  <1>. DEFINE dt == now - lastTime
              p == PassedSince
              e == ElapsedSince
              g == p + tokens + (wasted - mark.wasted) - mark.tokens
  <1>1. /\ now \in Nat /\ lastTime \in Nat /\ lastTime <= now
        /\ tokens \in Nat /\ tokens <= capacity /\ capacity \in Nat
        /\ passed \in Nat /\ wasted \in Nat
        /\ mark.tokens \in Int /\ mark.lastTime \in Int
        /\ mark.passed \in Int /\ mark.wasted \in Int
    BY Integers DEF Inv
  <1>2. dt \in Nat /\ p \in Int /\ e \in Int /\ g \in Int
    BY <1>1 DEF PassedSince, ElapsedSince
  <1>3. /\ us_elapsed \in Nat
        /\ UNIT * us_elapsed <= dt
        /\ dt <= UNIT * us_elapsed + UNIT
    BY <1>2, ConstantFacts, Truncation, Z3 DEF us_elapsed
  <1>4. rate * us_elapsed \in Nat /\ Refill \in Nat
    BY <1>1, <1>3, ConstantFacts, Product DEF Refill
  <1>5. /\ tokens' \in 0..capacity
        /\ tokens' <= tokens + rate * us_elapsed
        /\ wasted' \in Nat
        /\ tokens' + wasted' = tokens + rate * us_elapsed + wasted
    BY <1>1, <1>4 DEF Replenish, Refill
  <1>6. /\ lastTime' = now /\ now' = now /\ mark' = mark
        /\ PassedSince' = p /\ ElapsedSince' = e + dt
    BY <1>1 DEF Replenish, PassedSince, ElapsedSince
  <1>7. TypeOK'
    BY <1>1, <1>5, <1>6 DEF Inv, TypeOK
  <1>8. WithinTokens'
    <2>1. UNIT * (p + tokens) <= UNIT * mark.tokens + rate * e
      BY DEF Inv, WithinTokens
    <2>2. tokens \in Int /\ tokens' \in Int /\ mark.tokens \in Int
      BY <1>1, <1>5
    <2>. HIDE DEF dt, p, e, g
    <2>3. UNIT * (p + tokens') <= UNIT * mark.tokens + rate * (e + dt)
      BY <1>2, <1>3, <1>5, <2>1, <2>2, ConstantFacts, CreditUpper
    <2>. QED BY <1>6, <2>3 DEF WithinTokens
  <1>9. RateGranted'
    <2>1. (tick + 1) * UNIT * g >= tick * rate * e
      BY DEF Inv, RateGranted
    <2>2. p + tokens' + (wasted' - mark.wasted) - mark.tokens = g + rate * us_elapsed
      BY <1>1, <1>2, <1>4, <1>5
    <2>. HIDE DEF dt, p, e, g
    <2>3. (tick + 1) * UNIT * (g + rate * us_elapsed) >= tick * rate * (e + dt)
      BY <1>2, <1>3, <2>1, ConstantFacts, CreditLower
    <2>. QED BY <1>6, <2>2, <2>3 DEF RateGranted
  <1>10. NotStarted'
    BY <1>1, <1>6 DEF NotStarted, Never
  <1>. QED BY <1>7, <1>8, <1>9, <1>10 DEF Inv

LEMMA ForwardStep ==
  ASSUME Inv, PushForward
  PROVE  Inv'
  <1>1. lastTime # Never
    BY DEF Inv, NotStarted, PushForward
  <1>2. /\ now \in Nat /\ lastTime \in Nat /\ lastTime <= now
        /\ tokens \in Nat /\ tokens <= capacity /\ capacity \in Nat
        /\ passed \in Nat /\ wasted \in Nat
        /\ mark.tokens \in Int /\ mark.lastTime \in Int
        /\ mark.passed \in Int /\ mark.wasted \in Int
    BY <1>1, Integers DEF Inv
  <1>3. Head(input) \in Lengths /\ Tail(input) \in Seq(Lengths)
    BY DEF Inv, TypeOK, PushForward
  <1>4. Cost(Head(input)) \in Nat
    BY <1>3, ConstantFacts
  <1>5. /\ UNCHANGED <<now, lastTime, pc, wasted, mark>>
        /\ input' = Tail(input)
    BY DEF PushForward
  <1>6. PICK c \in Nat : tokens' = tokens - c /\ passed' = passed + c /\ c <= tokens
    <2>1. CASE Conforms(Head(input))
      BY <1>2, <1>4, <2>1 DEF PushForward, Conforms
    <2>2. CASE ~Conforms(Head(input))
      BY <1>2, <2>2 DEF PushForward
    <2>. QED BY <2>1, <2>2
  <1>7. tokens' \in 0..capacity /\ passed' \in Nat
    BY <1>2, <1>6
  <1>8. PassedSince' + tokens' = PassedSince + tokens
    BY <1>2, <1>5, <1>6 DEF PassedSince
  <1>9. ElapsedSince' = ElapsedSince
    BY <1>5 DEF ElapsedSince
  <1>10. TypeOK'
    BY <1>3, <1>5, <1>7 DEF Inv, TypeOK
  <1>11. NotStarted' /\ WithinTokens'
    BY <1>1, <1>5, <1>8, <1>9 DEF Inv, NotStarted, WithinTokens
  <1>12. RateGranted'
    BY <1>1, <1>5, <1>8, <1>9 DEF Inv, RateGranted
  <1>. QED BY <1>10, <1>11, <1>12 DEF Inv

LEMMA MarkStep ==
  ASSUME Inv, Mark
  PROVE  Inv'
  <1>1. lastTime # Never
    BY DEF Mark
  <1>2. /\ now \in Nat /\ lastTime \in Nat /\ lastTime <= now
        /\ tokens \in Nat /\ tokens <= capacity /\ capacity \in Nat
        /\ passed \in Nat /\ wasted \in Nat
    BY <1>1, Integers DEF Inv
  <1>3. /\ UNCHANGED <<now, input, tokens, lastTime, pc, passed, wasted>>
        /\ mark'.tokens = tokens /\ mark'.lastTime = lastTime
        /\ mark'.passed = passed /\ mark'.wasted = wasted
        /\ mark' \in [tokens : 0..capacity, lastTime : Nat, passed : Nat, wasted : Nat]
    BY <1>2 DEF Mark
  <1>4. TypeOK' /\ NotStarted'
    BY <1>1, <1>3 DEF Inv, TypeOK, NotStarted
  <1>5. /\ passed' - mark'.passed = 0 /\ lastTime' - mark'.lastTime = 0
        /\ wasted' - mark'.wasted = 0 /\ tokens' = mark'.tokens /\ tokens' \in Nat
    BY <1>2, <1>3
  <1>6. WithinTokens'
    BY <1>5, ConstantFacts, Z3 DEF WithinTokens, PassedSince, ElapsedSince
  <1>7. RateGranted'
    BY <1>5, ConstantFacts, Z3 DEF RateGranted, PassedSince, ElapsedSince
  <1>. QED BY <1>4, <1>6, <1>7 DEF Inv

\* A step that leaves the bucket, the clock of the bucket and the history
\* alone keeps the bounds.
LEMMA OtherStep ==
  ASSUME Inv, TypeOK', UNCHANGED <<tokens, lastTime, passed, wasted, mark>>,
         lastTime = Never => pc' = "idle"
  PROVE  Inv'
  <1>1. NotStarted'
    BY DEF Inv, NotStarted
  <1>2. WithinTokens' /\ RateGranted'
    BY DEF Inv, WithinTokens, RateGranted, PassedSince, ElapsedSince
  <1>. QED BY <1>1, <1>2 DEF Inv

LEMMA InvStep ==
  ASSUME Inv, [Next]_vars
  PROVE  Inv'
  <1>1. ASSUME NEW d \in 1..MaxBreath, Breathe(d) PROVE Inv'
    <2>1. TypeOK'
      BY <1>1 DEF Inv, TypeOK, Breathe, Never
    <2>. QED BY <1>1, <2>1, OtherStep DEF Breathe
  <1>2. ASSUME NEW len \in Lengths, Arrive(len) PROVE Inv'
    <2>1. TypeOK'
      BY <1>2 DEF Inv, TypeOK, Arrive
    <2>. QED BY <1>2, <2>1, OtherStep DEF Arrive
  <1>3. CASE PushReplenish
    <2>1. /\ UNCHANGED <<now, input, passed>>
          /\ pc' \in {"idle", "forward"}
      BY <1>3 DEF PushReplenish
    <2>2. CASE lastTime = Never
      <3>1. StartClock
        BY <1>3, <2>2 DEF PushReplenish
      <3>. QED BY <2>1, <2>2, <3>1, StartClockStep
    <2>3. CASE lastTime # Never /\ us_elapsed >= tick
      <3>1. Replenish
        BY <1>3, <2>3 DEF PushReplenish
      <3>. QED BY <2>1, <2>3, <3>1, ReplenishStep
    <2>4. CASE lastTime # Never /\ ~(us_elapsed >= tick)
      <3>1. UNCHANGED <<lastTime, tokens, wasted, mark>>
        BY <1>3, <2>4 DEF PushReplenish
      <3>2. TypeOK'
        BY <2>1, <3>1 DEF Inv, TypeOK
      <3>. QED BY <2>1, <2>4, <3>1, <3>2, OtherStep
    <2>. QED BY <2>2, <2>3, <2>4
  <1>4. CASE PushForward
    BY <1>4, ForwardStep
  <1>5. CASE PushReturn
    <2>1. TypeOK'
      BY <1>5 DEF Inv, TypeOK, PushReturn
    <2>. QED BY <1>5, <2>1, OtherStep DEF PushReturn
  <1>6. CASE Mark
    BY <1>6, MarkStep
  <1>7. CASE UNCHANGED vars
    <2>1. TypeOK'
      BY <1>7 DEF Inv, TypeOK, vars
    <2>. QED BY <1>7, <2>1, OtherStep DEF vars, Inv, NotStarted
  <1>. QED BY <1>1, <1>2, <1>3, <1>4, <1>5, <1>6, <1>7 DEF Next

LEMMA InvHolds == Spec => []Inv
  <1>1. Init => Inv
    BY InitInv
  <1>2. Inv /\ [Next]_vars => Inv'
    BY InvStep
  <1>. QED BY <1>1, <1>2, PTL DEF Spec

\* The bucket never overfills and no count goes negative.
THEOREM BucketTypeCorrect == Spec => []TypeOK
  <1>1. Inv => TypeOK
    BY DEF Inv
  <1>. QED BY <1>1, InvHolds, PTL

\* The limiter never forwards more than its rate plus one bucketful, over any
\* window of time, for every rate, tick and clock resolution.
THEOREM RateNeverExceeded == Spec => []RateLimited
  <1>1. ASSUME Inv PROVE RateLimited
    <2>1. CASE lastTime = Never
      BY <1>1, <2>1 DEF Inv, RateLimited
    <2>2. CASE lastTime # Never
      <3> DEFINE g == passed - mark.passed
                 e == rate * (lastTime - mark.lastTime)
      <3>1. UNIT \in Nat /\ tokens \in Nat /\ mark.tokens \in Nat /\ mark.tokens <= capacity
            /\ capacity \in Nat /\ g \in Int /\ e \in Int
        <4>1. /\ rate \in Nat /\ lastTime \in Nat /\ mark.lastTime \in Int /\ tokens \in Nat
              /\ passed \in Nat /\ mark.passed \in Int /\ mark.tokens \in 0..capacity
              /\ capacity \in Nat /\ UNIT \in Nat
          BY <1>1, <2>2, Integers, ConstantFacts DEF Inv, TypeOK
        <4> QED BY <4>1, SMT
      <3>2. UNIT * (g + tokens) <= UNIT * mark.tokens + e
        BY <1>1, <2>2 DEF Inv, WithinTokens, PassedSince, ElapsedSince
      <3> HIDE DEF g, e
      <3>3. UNIT * g <= UNIT * (g + tokens) /\ UNIT * mark.tokens <= UNIT * capacity
        <4>1. g <= g + tokens /\ g + tokens \in Int
          BY <3>1, SMT
        <4> QED BY <3>1, <4>1, ProductMonotone
      <3>4. UNIT * g <= UNIT * capacity + e
        <4>1. UNIT * g \in Int /\ UNIT * (g + tokens) \in Int /\ UNIT * mark.tokens \in Int
              /\ UNIT * capacity \in Int
          BY <3>1, SMT
        <4> QED BY <3>1, <3>2, <3>3, <4>1, SMT
      <3> QED BY <1>1, <3>4 DEF Inv, RateLimited, PassedSince, ElapsedSince, g, e
    <2> QED BY <2>1, <2>2
  <1>. QED BY <1>1, InvHolds, PTL

\* The limiter never grants less than tick/(tick + 1) of its rate, over any
\* window of time, for every rate, tick and clock resolution.
THEOREM RateAlwaysGranted == Spec => []RateGranted
  <1>1. Inv => RateGranted
    BY DEF Inv
  <1>. QED BY <1>1, InvHolds, PTL
=============================================================================
