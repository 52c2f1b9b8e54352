---------------------------- MODULE CounterProofs ----------------------------
(***************************************************************************)
(* Lemmas about the operators of Counter: slots, the counter record and    *)
(* the maps that hold counters.                                            *)
(***************************************************************************)
EXTENDS Counter, TLAPS

-----------------------------------------------------------------------------
(* Arithmetic of slots.                                                     *)

\* Integer division of naturals yields a natural.
LEMMA DivNat == ASSUME NEW a \in Nat, NEW d \in Nat \ {0} PROVE a \div d \in Nat
  OBVIOUS

\* Integer division is monotone.
LEMMA DivMono ==
  ASSUME NEW a \in Nat, NEW b \in Nat, NEW d \in Nat \ {0}, a <= b
  PROVE  a \div d <= b \div d
  OBVIOUS

\* The slot of a time is a natural number.
LEMMA SlotNat == ASSUME NEW t \in Nat PROVE SlotOf(t) \in Nat
  BY ClockAssumption, DivNat DEF SlotOf, Unix

\* Later times have later slots: now.Unix() / windowS is monotone.
LEMMA SlotMono ==
  ASSUME NEW t \in Nat, NEW u \in Nat, t <= u
  PROVE  SlotOf(t) <= SlotOf(u)
  BY ClockAssumption, DivNat, DivMono DEF SlotOf, Unix

\* The remainder of a natural is a natural not above it.
LEMMA ModLe ==
  ASSUME NEW a \in Nat, NEW d \in Nat \ {0}
  PROVE  a % d \in Nat /\ a % d <= a /\ a % d < d /\ (a < d => a % d = a)
  OBVIOUS

\* One more multiple.
LEMMA MulSucc ==
  ASSUME NEW e \in Nat, NEW n \in Nat
  PROVE  e * n \in Nat /\ e * (n + 1) = e * n + e /\ e * (1 + n) = e * n + e
  OBVIOUS

-----------------------------------------------------------------------------
(* The counter.                                                             *)

\* A fresh counter is a counter of the slot of its clock reading.
LEMMA NewCounterType ==
  ASSUME NEW t \in Nat
  PROVE  /\ NewCounter(t) \in Counters
         /\ NewCounter(t).Slot = SlotOf(t)
         /\ NewCounter(t).WindowCount = 0
         /\ NewCounter(t).Hits = 0
  BY SlotNat DEF NewCounter, Counters

\* What the locked section of RecordRequest leaves in the counter.
LEMMA RecordedFacts ==
  ASSUME NEW c \in Counters, NEW t \in Nat, NEW limit, NEW threshold
  PROVE  LET r == Recorded(c, t, limit, threshold) IN
         /\ r \in Counters
         /\ r.FirstRequest = c.FirstRequest
         /\ r.Slot = SlotOf(t)
         /\ r.LastRequest = t
         /\ r.WindowCount = IF SlotOf(t) = c.Slot THEN c.WindowCount + 1 ELSE 1
         /\ r.Hits = IF SlotOf(t) # c.Slot /\ c.WindowCount > threshold
                       THEN c.Hits + 1 ELSE c.Hits
         /\ r.Hits >= c.Hits
<1>1. WindowCountAfter(c, SlotOf(t)) \in Nat /\ HitsAfter(c, SlotOf(t), threshold) \in Nat
      /\ HitsAfter(c, SlotOf(t), threshold) >= c.Hits
  BY DEF WindowCountAfter, HitsAfter, Counters
<1> QED
  BY <1>1, SlotNat DEF Recorded, WindowCountAfter, HitsAfter, Counters

\* A counter whose last request lies less than two windows before t is active.
LEMMA FreshIsActive ==
  ASSUME NEW c \in Counters, NEW t \in Nat, t < c.LastRequest + 2 * WindowS * Second
  PROVE  ~IsInactive(c, t)
<1>1. 2 * WindowS * Second \in Nat
  BY ClockAssumption
<1> QED
  BY <1>1 DEF IsInactive, Counters

-----------------------------------------------------------------------------
(* Maps.                                                                    *)

\* What Put and Without leave of a map.
LEMMA PutFacts ==
  ASSUME NEW m, NEW k, NEW v
  PROVE  /\ DOMAIN Put(m, k, v) = DOMAIN m \cup {k}
         /\ Put(m, k, v)[k] = v
         /\ \A j \in DOMAIN m : j # k => Put(m, k, v)[j] = m[j]
  BY DEF Put

\* The same for the removal of a key.
LEMMA WithoutFacts ==
  ASSUME NEW m, NEW k
  PROVE  /\ DOMAIN Without(m, k) = DOMAIN m \ {k}
         /\ \A j \in DOMAIN m : j # k => Without(m, k)[j] = m[j]
  BY DEF Without
=============================================================================
