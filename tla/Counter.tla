------------------------------ MODULE Counter ------------------------------
(***************************************************************************)
(* The request counter of package internal/counter: the struct both maps   *)
(* keep per identity and the pure part of what RecordRequest and           *)
(* DeleteIfInactive do to it.  KnownCounter and UnknownCounter differ only *)
(* in the name and the threshold of their last field (ViolationHits against*)
(* the key's limit, AbuseHits against global_limit * abuse_multiplier), so *)
(* one record with the field Hits stands for both.                         *)
(*                                                                         *)
(* A time is a number of clock ticks, Second of them in one second.        *)
(***************************************************************************)
EXTENDS Integers

CONSTANTS
  Second,           \* clock ticks in one second
  WindowS,          \* window length in seconds (60 or 1 in the code)
  Burst,            \* cfg.Burst
  GlobalLimit,      \* cfg.GlobalLimit
  AbuseMultiplier,  \* cfg.AbuseMultiplier
  MaxInt            \* the largest int64 (smaller in model checking)

ASSUME ClockAssumption  == Second \in Nat \ {0} /\ WindowS \in Nat \ {0}
ASSUME ConfigAssumption == /\ MaxInt \in Nat \ {0}
                           /\ Burst \in 0..MaxInt
                           /\ GlobalLimit \in 1..MaxInt
                           /\ AbuseMultiplier \in 1..MaxInt

Int64 == (-MaxInt - 1)..MaxInt

\* Two's complement int64 arithmetic: Go wraps around silently.
Wrap(x) == ((x + MaxInt + 1) % (2 * (MaxInt + 1))) - (MaxInt + 1)
Add64(a, b) == Wrap(a + b)
Mul64(a, b) == Wrap(a * b)

\* time.Time.Unix() drops the fraction of the second.
Unix(t)   == t \div Second
SlotOf(t) == Unix(t) \div WindowS

\* What an unknown counter must exceed in one slot to earn an abuse hit.
AbuseThreshold == Mul64(GlobalLimit, AbuseMultiplier)

\* Config.Validate rejects burst >= global_limit * abuse_multiplier.
ValidBurst == Burst < AbuseThreshold
ASSUME BurstAssumption == ValidBurst

Counters == [FirstRequest : Nat, LastRequest : Nat, Total : Nat,
             WindowCount : Nat, Slot : Nat, BurstHits : Nat, Hits : Nat]

\* The counter RecordRequest inserts when the key has none.
NewCounter(t) == [FirstRequest |-> t, LastRequest |-> t, Total |-> 0,
                  WindowCount |-> 0, Slot |-> SlotOf(t), BurstHits |-> 0,
                  Hits |-> 0]

\* The count of slot s once c has counted one more request in it: a request
\* of another slot than the counter's starts a new count.
WindowCountNoReset(c, s) == c.WindowCount + 1
WindowCountAfter(c, s) == IF s = c.Slot THEN c.WindowCount + 1 ELSE 1

\* A request of another slot closes the counter's slot, which earns a hit if
\* its count exceeds the threshold.
HitsAtThreshold(c, s, threshold) ==
  IF s # c.Slot /\ c.WindowCount >= threshold THEN c.Hits + 1 ELSE c.Hits
HitsAfter(c, s, threshold) ==
  IF s # c.Slot /\ c.WindowCount > threshold THEN c.Hits + 1 ELSE c.Hits

\* The n-th request of a slot passes unless n exceeds limit + burst.
AllowedOffByOne(n, limit) == n <= Add64(limit, Burst) + 1
Allowed(n, limit) == n <= Add64(limit, Burst)

InBurst(n, limit) == Allowed(n, limit) /\ n > limit

\* The locked section of RecordRequest for a request whose clock reading is
\* t; the caller's decision is Allowed(Recorded(...).WindowCount, limit).
Recorded(c, t, limit, threshold) ==
  LET s == SlotOf(t)
      n == WindowCountAfter(c, s)
  IN  [FirstRequest |-> c.FirstRequest,
       LastRequest  |-> t,
       Total        |-> c.Total + 1,
       WindowCount  |-> n,
       Slot         |-> s,
       BurstHits    |-> IF InBurst(n, limit) THEN c.BurstHits + 1 ELSE c.BurstHits,
       Hits         |-> HitsAfter(c, s, threshold)]

\* isInactive: nothing in t's slot, and two full windows without a request.
IsInactiveHalfWindow(c, t) == t - c.LastRequest >= Second \div 2
IsInactive(c, t) == /\ SlotOf(t) # c.Slot
                    /\ t - c.LastRequest >= 2 * WindowS * Second

\* A Go map as a function on the keys it holds.
Put(m, k, v)  == [j \in DOMAIN m \cup {k} |-> IF j = k THEN v ELSE m[j]]
Without(m, k) == [j \in DOMAIN m \ {k} |-> m[j]]
=============================================================================
