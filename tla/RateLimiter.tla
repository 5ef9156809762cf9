---------------------------- MODULE RateLimiter ----------------------------
(***************************************************************************)
(* rush/src/qos.rs RateLimiter: a token bucket that polices a link.  The   *)
(* engine's clock (engine::now) is read once per breath, so it only moves  *)
(* between calls of push; push replenishes the bucket and then forwards or *)
(* drops its input packet by packet.  Time is counted in units of 1/UNIT   *)
(* microseconds, which makes as_micros a truncating division.              *)
(***************************************************************************)
EXTENDS Integers, Sequences

CONSTANTS rate,      \* bits per second
          scale,     \* microseconds in a second, and tokens per bit
          tick,      \* microseconds between two replenishments, at least
          UNIT,      \* clock units per microsecond
          Lengths,   \* packet lengths that arrive
          MaxBreath, \* bound: clock units that pass between two breaths
          MaxBatch,  \* bound: packets waiting on the input link
          MaxTime    \* bound: clock units in all

ASSUME RateAssumption == rate \in Nat
ASSUME UnitAssumption == UNIT \in Nat /\ UNIT > 0
ASSUME TickAssumption == tick \in Nat /\ tick > 0
ASSUME ScaleAssumption == scale \in Nat /\ scale >= tick
ASSUME LengthsAssumption == Lengths \subseteq Nat
ASSUME BoundsAssumption == MaxBreath \in Nat /\ MaxBatch \in Nat /\ MaxTime \in Nat

VARIABLES now,        \* engine::now()
          input,      \* lengths of the packets on the input link
          tokens,     \* bucket.tokens
          lastTime,   \* bucket.last_time, Never before the first push
          pc,         \* "idle", or "forward" inside push's loop
          passed,     \* history: tokens spent on forwarded packets
          wasted,     \* history: tokens that did not fit the bucket
          mark        \* history: a past state of the bucket, see Mark

vars == <<now, input, tokens, lastTime, pc, passed, wasted, mark>>

Never == -1
capacity == rate * scale
initial_tokens == (rate * scale) \div (scale \div tick)

\* packet::bitlength: bits on the wire, with preamble, CRC and gap.
bitlength(len) == (12 + 8 + (IF len > 60 THEN len ELSE 60) + 4) * 8
Cost(len) == bitlength(len) * scale

Init == /\ now = 0
        /\ input = << >>
        /\ tokens = initial_tokens
        /\ lastTime = Never
        /\ pc = "idle"
        /\ passed = 0 /\ wasted = 0
        /\ mark = [tokens |-> initial_tokens, lastTime |-> 0, passed |-> 0, wasted |-> 0]

\* The engine starts its next breath d units later.
Breathe(d) == /\ pc = "idle"
              /\ now + d <= MaxTime
              /\ now' = now + d
              /\ UNCHANGED <<input, tokens, lastTime, pc, passed, wasted, mark>>

\* The app upstream transmits a packet to the input link.
Arrive(len) == /\ pc = "idle"
               /\ Len(input) < MaxBatch
               /\ input' = Append(input, len)
               /\ UNCHANGED <<now, tokens, lastTime, pc, passed, wasted, mark>>

us_elapsed == (now - lastTime) \div UNIT
\* bucket.tokens + rate * us_elapsed, before it is capped.
Refill == tokens + rate * us_elapsed

\* The first push finds no last_time (the first window to judge opens here).
StartClock == /\ lastTime' = now
              /\ mark' = [mark EXCEPT !.lastTime = now]
              /\ UNCHANGED <<tokens, wasted>>

\* Mutant: the elapsed time is rounded up to whole microseconds.
Replenish_RoundUp ==
  /\ lastTime' = now
  /\ LET refill == tokens + rate * (us_elapsed + 1) IN
     /\ tokens' = IF refill > capacity THEN capacity ELSE refill
     /\ wasted' = wasted + (refill - tokens')
  /\ UNCHANGED mark
Replenish ==
  /\ lastTime' = now
  /\ tokens' = IF Refill > capacity THEN capacity ELSE Refill
  /\ wasted' = wasted + (Refill - tokens')
  /\ UNCHANGED mark

\* Mutant: replenish on every breath, and move last_time on, however little
\* time went by.
PushReplenish_NoTick ==
  /\ pc = "idle"
  /\ pc' = "forward"
  /\ IF lastTime # Never
     THEN Replenish
     ELSE StartClock
  /\ UNCHANGED <<now, input, passed>>
\* push, first half: replenish once every tick at most.  The first push only
\* starts the clock.
PushReplenish ==
  /\ pc = "idle"
  /\ pc' = "forward"
  /\ IF lastTime = Never THEN StartClock
     ELSE IF us_elapsed >= tick THEN Replenish
     ELSE UNCHANGED <<lastTime, tokens, wasted, mark>>
  /\ UNCHANGED <<now, input, passed>>

Conforms(len) == Cost(len) <= tokens

\* push, second half, one packet: spend tokens and transmit, or free it.
PushForward ==
  /\ pc = "forward"
  /\ input # << >>
  /\ input' = Tail(input)
  /\ IF Conforms(Head(input))
     THEN /\ tokens' = tokens - Cost(Head(input))
          /\ passed' = passed + Cost(Head(input))
     ELSE UNCHANGED <<tokens, passed>>
  /\ UNCHANGED <<now, lastTime, pc, wasted, mark>>

PushReturn == /\ pc = "forward"
              /\ input = << >>
              /\ pc' = "idle"
              /\ UNCHANGED <<now, input, tokens, lastTime, passed, wasted, mark>>

\* Auxiliary: remember the bucket as it is, to compare a later state with it.
\* It is no step of the program.
Mark == /\ lastTime # Never
        /\ mark' = [tokens |-> tokens, lastTime |-> lastTime,
                    passed |-> passed, wasted |-> wasted]
        /\ UNCHANGED <<now, input, tokens, lastTime, pc, passed, wasted>>

Next == \/ \E d \in 1..MaxBreath : Breathe(d)
        \/ \E len \in Lengths : Arrive(len)
        \/ PushReplenish
        \/ PushForward
        \/ PushReturn
        \/ Mark

Spec == Init /\ [][Next]_vars

-----------------------------------------------------------------------------

TypeOK == /\ now \in Nat
          /\ input \in Seq(Lengths)
          /\ tokens \in 0..capacity
          /\ lastTime \in {Never} \cup 0..now
          /\ pc \in {"idle", "forward"}
          /\ passed \in Nat /\ wasted \in Nat
          /\ mark \in [tokens : 0..capacity, lastTime : Nat, passed : Nat, wasted : Nat]

\* What passed, and time between two replenishments, since the mark.
PassedSince == passed - mark.passed
ElapsedSince == lastTime - mark.lastTime

\* What was spent and what is left never exceeds what the bucket held at the mark
\* and rate for the time since the last replenishment before it.
WithinTokens ==
  lastTime # Never =>
    UNIT * (PassedSince + tokens) <= UNIT * mark.tokens + rate * ElapsedSince

\* The limit, over every window of time: from any past moment on, the app has
\* forwarded at most what the bucket held then plus rate for the time since the
\* last replenishment before it; and, however long it had nothing to do, a burst
\* is limited to the capacity ("RateLimiter will allow bursts of up to `rate`
\* bits without throttling").
RateLimited ==
  /\ WithinTokens
  /\ lastTime # Never => UNIT * PassedSince <= UNIT * capacity + rate * ElapsedSince

\* The limit is not stricter than asked for: truncating the elapsed time to
\* microseconds loses less than one microsecond in each tick, so except for
\* tokens that did not fit the bucket, at least tick/(tick + 1) of the rate is
\* granted over every window (the comment in RateLimiter::new promises 10%).
RateGranted ==
  lastTime # Never =>
    (tick + 1) * UNIT * (PassedSince + tokens + (wasted - mark.wasted) - mark.tokens)
      >= tick * rate * ElapsedSince
=============================================================================
