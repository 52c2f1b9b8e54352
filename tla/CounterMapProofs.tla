-------------------------- MODULE CounterMapProofs --------------------------
(***************************************************************************)
(* Theorems about CounterMap for every set of keys, goroutines and limits, *)
(* every window, burst, clock resolution, word size and bound: its budgets,*)
(* that it implements FixedWindow, and that hits are those earned.         *)
(***************************************************************************)
EXTENDS CounterMap, CounterProofs, FiniteSetTheorems

-----------------------------------------------------------------------------
(* Limits and thresholds.                                                   *)

\* The int64 sum limit + burst never exceeds the true sum, and equals it
\* when it fits.
LEMMA AddLimit ==
  ASSUME NEW limit \in Limits
  PROVE  /\ limit \in Int /\ MinLimit <= limit /\ limit <= MaxLimit
         /\ Add64(limit, Burst) \in Int
         /\ Add64(limit, Burst) <= limit + Burst
         /\ limit + Burst <= MaxInt => Add64(limit, Burst) = limit + Burst
<1> DEFINE y == limit + Burst + MaxInt + 1
           d == 2 * (MaxInt + 1)
<1>1. limit \in Int /\ MinLimit <= limit /\ limit <= MaxLimit /\ Burst \in Nat
      /\ MaxInt \in Nat /\ limit >= -MaxInt - 1
  BY LimitsAssumption, ConfigAssumption DEF Int64
<1>2. y \in Nat /\ d \in Nat \ {0}
  BY <1>1
<1>3. y % d \in Nat /\ y % d <= y /\ (y < d => y % d = y)
  BY <1>2, ModLe
<1>4. Add64(limit, Burst) = (y % d) - (MaxInt + 1)
  BY DEF Add64, Wrap
<1> QED
  BY <1>1, <1>3, <1>4

\* limit + burst of the largest limit is a natural number.
LEMMA BudgetNat == MaxLimit + Burst \in Nat
  BY LimitsAssumption, ConfigAssumption

\* Thresholds are integers.
LEMMA ThresholdInt == ASSUME NEW limit \in Limits PROVE Threshold(limit) \in Int
<1>1. limit \in Int
  BY AddLimit
<1>2. GlobalLimit * AbuseMultiplier \in Nat /\ MaxInt \in Nat
  BY ConfigAssumption
<1>3. AbuseThreshold \in Int
  BY <1>2, ModLe DEF AbuseThreshold, Mul64, Wrap
<1> QED
  BY <1>1, <1>3 DEF Threshold

-----------------------------------------------------------------------------
(* Type correctness.                                                        *)

\* Facts about one RecordRequest step that every invariant needs.
LEMMA RecordStep ==
  ASSUME TypeOK, NEW p \in Procs, RecordRequest(p)
  PROVE  LET r == calls[p]
             k == r.key
             s == SlotOf(r.time)
             old == IF k \in DOMAIN counters THEN counters[k]
                                             ELSE NewCounter(r.time)
         IN  /\ k \in Keys /\ r.time \in Nat /\ r.time <= now /\ r.limit \in Limits
             /\ s \in Nat /\ s \in Slots /\ s <= SlotOf(now) /\ SlotOf(now) \in Nat
             /\ old \in Counters
             /\ Threshold(r.limit) \in Int
             /\ k \notin DOMAIN counters => old.Slot = s /\ old.WindowCount = 0 /\ old.Hits = 0
<1> DEFINE r == calls[p]
           k == r.key
           old == IF k \in DOMAIN counters THEN counters[k] ELSE NewCounter(r.time)
<1>1. k \in Keys /\ r.time \in Nat /\ r.time <= now /\ r.limit \in Limits
  BY DEF TypeOK, RecordRequest, Requests
<1>2. now \in Nat /\ MaxNow \in Nat /\ now <= MaxNow
  BY BoundsAssumption DEF TypeOK
<1>3. SlotOf(r.time) \in Nat /\ SlotOf(now) \in Nat /\ SlotOf(MaxNow) \in Nat
  BY <1>1, <1>2, SlotNat
<1>4. SlotOf(r.time) <= SlotOf(now) /\ SlotOf(now) <= SlotOf(MaxNow)
  BY <1>1, <1>2, SlotMono
<1>5. SlotOf(r.time) \in Slots
  BY <1>3, <1>4 DEF Slots
<1>6. NewCounter(r.time) \in Counters /\ NewCounter(r.time).Slot = SlotOf(r.time)
      /\ NewCounter(r.time).WindowCount = 0 /\ NewCounter(r.time).Hits = 0
  BY <1>1, NewCounterType
<1>7. old \in Counters
  BY <1>6 DEF TypeOK
<1>8. Threshold(r.limit) \in Int
  BY <1>1, ThresholdInt
<1> QED
  BY <1>1, <1>3, <1>4, <1>5, <1>6, <1>7, <1>8

\* Counting one more request of key k in slot s in a history.
LEMMA BumpFacts ==
  ASSUME NEW g \in [Keys -> [Slots -> Nat]], NEW k \in Keys, NEW s \in Slots
  PROVE  LET h == [g EXCEPT ![k][s] = @ + 1] IN
         /\ h \in [Keys -> [Slots -> Nat]]
         /\ h[k][s] = g[k][s] + 1
         /\ \A j \in Keys, x \in Slots : <<j, x>> # <<k, s>> => h[j][x] = g[j][x]
<1> DEFINE row == [g[k] EXCEPT ![s] = g[k][s] + 1]
           h == [g EXCEPT ![k] = row]
<1>1. row \in [Slots -> Nat] /\ row[s] = g[k][s] + 1
      /\ \A x \in Slots : x # s => row[x] = g[k][x]
  OBVIOUS
<1>2. [g EXCEPT ![k][s] = @ + 1] = h
  OBVIOUS
<1> HIDE DEF row
<1>3. h \in [Keys -> [Slots -> Nat]] /\ h[k] = row /\ \A j \in Keys : j # k => h[j] = g[j]
  BY <1>1
<1> QED
  BY <1>1, <1>2, <1>3

\* The initial state is well typed.
LEMMA InitType == Init => TypeOK
<1> SUFFICES ASSUME Init PROVE TypeOK
  OBVIOUS
<1>1. DOMAIN counters = {} /\ DOMAIN calls = {}
  BY DEF Init
<1> QED
  BY <1>1, BoundsAssumption DEF Init, TypeOK

\* Every step keeps the types.
LEMMA NextType == TypeOK /\ [Next]_vars => TypeOK'
<1> SUFFICES ASSUME TypeOK, [Next]_vars PROVE TypeOK'
  OBVIOUS
<1>1. CASE Tick
  BY <1>1, BoundsAssumption DEF Tick, TypeOK, Requests, Counters
<1>2. ASSUME NEW p \in Procs, NEW k \in Keys, NEW limit \in Limits, Call(p, k, limit)
      PROVE  TypeOK'
  <2>1. [key |-> k, time |-> now, limit |-> limit] \in Requests /\ now \in Nat
    BY BoundsAssumption DEF TypeOK, Requests
  <2>2. DOMAIN calls' \subseteq Procs
        /\ \A q \in DOMAIN calls' : calls'[q] \in Requests /\ calls'[q].time <= now
    BY <1>2, <2>1 DEF Call, TypeOK, Put
  <2> QED
    BY <1>2, <2>2 DEF Call, TypeOK
<1>3. ASSUME NEW p \in Procs, RecordRequest(p) PROVE TypeOK'
  <2> DEFINE r == calls[p]
             k == r.key
             s == SlotOf(r.time)
             old == IF k \in DOMAIN counters THEN counters[k] ELSE NewCounter(r.time)
             new == Recorded(old, r.time, r.limit, Threshold(r.limit))
  <2>1. k \in Keys /\ s \in Slots /\ new \in Counters
    BY <1>3, RecordStep, RecordedFacts
  <2>2. counters' = Put(counters, k, new) /\ calls' = Without(calls, p)
    BY <1>3 DEF RecordRequest
  <2> HIDE DEF new
  <2>3. DOMAIN counters' \subseteq Keys /\ \A j \in DOMAIN counters' : counters'[j] \in Counters
    BY <2>1, <2>2 DEF TypeOK, Put
  <2>4. DOMAIN calls' \subseteq Procs
        /\ \A q \in DOMAIN calls' : calls'[q] \in Requests /\ calls'[q].time <= now
    BY <2>2 DEF TypeOK, Without
  <2>5. granted' \in [Keys -> [Slots -> Nat]] /\ refused' \in [Keys -> [Slots -> Nat]]
    <3>1. \/ granted' = [granted EXCEPT ![k][s] = @ + 1] /\ refused' = refused
          \/ refused' = [refused EXCEPT ![k][s] = @ + 1] /\ granted' = granted
      BY <1>3 DEF RecordRequest
    <3>2. granted \in [Keys -> [Slots -> Nat]] /\ refused \in [Keys -> [Slots -> Nat]]
      BY DEF TypeOK
    <3> HIDE DEF k, s
    <3>3. [granted EXCEPT ![k][s] = @ + 1] \in [Keys -> [Slots -> Nat]]
      BY <2>1, <3>2, BumpFacts
    <3>4. [refused EXCEPT ![k][s] = @ + 1] \in [Keys -> [Slots -> Nat]]
      BY <2>1, <3>2, BumpFacts
    <3> QED
      BY <3>1, <3>2, <3>3, <3>4
  <2>6. late' \in [Keys -> Nat]
    BY <1>3, <2>1 DEF RecordRequest, TypeOK
  <2> QED
    BY <1>3, <2>3, <2>4, <2>5, <2>6 DEF RecordRequest, TypeOK
<1>4. ASSUME NEW k \in Keys, Delete(k) PROVE TypeOK'
  BY <1>4 DEF Delete, TypeOK, Without
<1>5. ASSUME NEW k \in Keys, NEW t \in 0..now, DeleteIfInactive(k, t) PROVE TypeOK'
  BY <1>5 DEF DeleteIfInactive, TypeOK, Without
<1>6. CASE UNCHANGED vars
  BY <1>6 DEF vars, TypeOK
<1> QED
  BY <1>1, <1>2, <1>3, <1>4, <1>5, <1>6 DEF Next

\* The type invariant holds in every reachable state of the map.
THEOREM TypeCorrect == Spec => []TypeOK
  BY InitType, NextType, PTL DEF Spec

-----------------------------------------------------------------------------
(* The effect of RecordRequest on every variable, in the form the           *)
(* invariants below use.                                                    *)

\* One RecordRequest step changes the counter and the histories of one key.
LEMMA RecordEffect ==
  ASSUME TypeOK, NEW p \in Procs, RecordRequest(p)
  PROVE  LET r == calls[p]
             k == r.key
             s == SlotOf(r.time)
             old == IF k \in DOMAIN counters THEN counters[k]
                                             ELSE NewCounter(r.time)
             c == counters'[k]
         IN  /\ now' = now /\ dropped' = dropped
             /\ DOMAIN counters' = DOMAIN counters \cup {k}
             /\ \A j \in DOMAIN counters : j # k => counters'[j] = counters[j]
             /\ c.Slot = s
             /\ c.LastRequest = r.time
             /\ c.WindowCount = IF s = old.Slot THEN old.WindowCount + 1 ELSE 1
             /\ c.Hits = IF s # old.Slot /\ old.WindowCount > Threshold(r.limit)
                           THEN old.Hits + 1 ELSE old.Hits
             /\ IF Allowed(c.WindowCount, r.limit)
                  THEN granted' = [granted EXCEPT ![k][s] = @ + 1] /\ refused' = refused
                  ELSE refused' = [refused EXCEPT ![k][s] = @ + 1] /\ granted' = granted
             /\ \A j \in Keys : j # k => late'[j] = late[j]
             /\ late'[k] = IF s < SlotOf(now) THEN late[k] + 1 ELSE late[k]
<1> DEFINE r == calls[p]
           k == r.key
           s == SlotOf(r.time)
           old == IF k \in DOMAIN counters THEN counters[k] ELSE NewCounter(r.time)
           new == Recorded(old, r.time, r.limit, Threshold(r.limit))
<1>1. k \in Keys /\ old \in Counters /\ r.time \in Nat /\ r.limit \in Limits
      /\ Threshold(r.limit) \in Int
  BY RecordStep
<1> HIDE DEF old, r
<1>2. /\ new.Slot = s
      /\ new.LastRequest = r.time
      /\ new.WindowCount = IF s = old.Slot THEN old.WindowCount + 1 ELSE 1
      /\ new.Hits = IF s # old.Slot /\ old.WindowCount > Threshold(r.limit)
                      THEN old.Hits + 1 ELSE old.Hits
  BY <1>1, RecordedFacts
<1>3. /\ counters' = Put(counters, k, new)
      /\ IF Allowed(new.WindowCount, r.limit)
           THEN granted' = [granted EXCEPT ![k][s] = @ + 1] /\ refused' = refused
           ELSE refused' = [refused EXCEPT ![k][s] = @ + 1] /\ granted' = granted
      /\ late' = [late EXCEPT ![k] = IF s < SlotOf(now) THEN @ + 1 ELSE @]
      /\ now' = now /\ dropped' = dropped
  BY DEF RecordRequest, old, r
<1> HIDE DEF new, s, k
<1>4. /\ counters'[k] = new
      /\ DOMAIN counters' = DOMAIN counters \cup {k}
      /\ \A j \in DOMAIN counters : j # k => counters'[j] = counters[j]
  BY <1>3 DEF Put
<1>5. /\ \A j \in Keys : j # k => late'[j] = late[j]
      /\ late'[k] = IF s < SlotOf(now) THEN late[k] + 1 ELSE late[k]
  BY <1>1, <1>3 DEF TypeOK
<1>6. /\ counters'[k].Slot = s
      /\ counters'[k].LastRequest = r.time
      /\ counters'[k].WindowCount = IF s = old.Slot THEN old.WindowCount + 1 ELSE 1
      /\ counters'[k].Hits = IF s # old.Slot /\ old.WindowCount > Threshold(r.limit)
                               THEN old.Hits + 1 ELSE old.Hits
  BY <1>2, <1>4
<1>7. IF Allowed(counters'[k].WindowCount, r.limit)
        THEN granted' = [granted EXCEPT ![k][s] = @ + 1] /\ refused' = refused
        ELSE refused' = [refused EXCEPT ![k][s] = @ + 1] /\ granted' = granted
  BY <1>3, <1>4
<1>8. now' = now /\ dropped' = dropped
  BY <1>3
<1> QED
  BY <1>4, <1>5, <1>6, <1>7, <1>8, Zenon DEF k, s, old, r

-----------------------------------------------------------------------------
(* The slot budget.                                                         *)

SlotLimit == MaxLimit + Burst
Debt(k)   == late[k] + dropped[k]

\* What slot x of key k may have been granted beyond SlotLimit * Debt(k): the
\* counter stands in one slot, has used up every earlier one and none of the
\* later ones; a counter that was dropped as inactive stood before now's slot.
Allowance(k, x) ==
  IF k \in DOMAIN counters
    THEN IF x > counters[k].Slot THEN 0
         ELSE IF x = counters[k].Slot /\ counters[k].WindowCount < SlotLimit
                THEN counters[k].WindowCount
                ELSE SlotLimit
    ELSE IF x < SlotOf(now) THEN SlotLimit ELSE 0

SlotMatchesClock ==
  \A k \in DOMAIN counters : /\ counters[k].Slot = SlotOf(counters[k].LastRequest)
                             /\ counters[k].LastRequest <= now

WithinAllowance ==
  \A k \in Keys, x \in Slots :
    granted[k][x] <= SlotLimit * Debt(k) + Allowance(k, x)

BudgetInv == TypeOK /\ SlotMatchesClock /\ WithinAllowance

\* The ingredients of the budget are natural numbers.
LEMMA BudgetTypes ==
  ASSUME TypeOK, NEW k \in Keys, NEW x \in Slots
  PROVE  /\ SlotLimit \in Nat /\ Debt(k) \in Nat /\ SlotLimit * Debt(k) \in Nat
         /\ x \in Nat /\ granted[k][x] \in Nat /\ SlotOf(now) \in Nat
         /\ Allowance(k, x) \in Nat /\ Allowance(k, x) <= SlotLimit
<1>1. SlotLimit \in Nat
  BY BudgetNat DEF SlotLimit
<1>2. Debt(k) \in Nat /\ granted[k][x] \in Nat
  BY DEF TypeOK, Debt
<1>3. SlotLimit * Debt(k) \in Nat
  BY <1>1, <1>2, MulSucc
<1>4. x \in Nat /\ SlotOf(now) \in Nat
  <2>1. now \in Nat /\ MaxNow \in Nat
    BY BoundsAssumption DEF TypeOK
  <2>2. SlotOf(now) \in Nat /\ SlotOf(MaxNow) \in Nat
    BY <2>1, SlotNat
  <2> QED
    BY <2>2 DEF Slots
<1>5. k \in DOMAIN counters => counters[k].Slot \in Nat /\ counters[k].WindowCount \in Nat
  BY DEF TypeOK, Counters
<1> QED
  BY <1>1, <1>2, <1>3, <1>4, <1>5 DEF Allowance

\* SlotBudget follows from the inductive invariant.
LEMMA BudgetInvImplies == BudgetInv => SlotBudget
<1> SUFFICES ASSUME BudgetInv, NEW k \in Keys, NEW x \in Slots
             PROVE  granted[k][x] <= SlotLimit * (1 + late[k] + dropped[k])
  BY DEF SlotBudget, SlotLimit
<1>0. 1 + late[k] + dropped[k] = 1 + Debt(k)
  BY DEF BudgetInv, TypeOK, Debt
<1>1. granted[k][x] <= SlotLimit * Debt(k) + Allowance(k, x)
  BY DEF BudgetInv, WithinAllowance
<1>2. SlotLimit \in Nat /\ Debt(k) \in Nat /\ granted[k][x] \in Nat
      /\ Allowance(k, x) \in Nat /\ Allowance(k, x) <= SlotLimit
  BY BudgetTypes DEF BudgetInv
<1>3. SlotLimit * Debt(k) \in Nat /\ SlotLimit * (1 + Debt(k)) = SlotLimit * Debt(k) + SlotLimit
  BY <1>2, MulSucc
<1> QED
  BY <1>0, <1>1, <1>2, <1>3

\* The budget holds initially.
LEMMA BudgetInit == Init => BudgetInv
<1> SUFFICES ASSUME Init PROVE BudgetInv
  OBVIOUS
<1>1. TypeOK
  BY InitType
<1>2. SlotMatchesClock
  BY DEF Init, SlotMatchesClock
<1>3. ASSUME NEW k \in Keys, NEW x \in Slots
      PROVE  granted[k][x] <= SlotLimit * Debt(k) + Allowance(k, x)
  <2>1. granted[k][x] = 0
    BY DEF Init
  <2>2. SlotLimit * Debt(k) \in Nat /\ Allowance(k, x) \in Nat
    BY <1>1, BudgetTypes
  <2> QED
    BY <2>1, <2>2
<1> QED
  BY <1>1, <1>2, <1>3 DEF BudgetInv, WithinAllowance

\* When nothing is granted and the debt of k stays, it is enough that the
\* allowance does not shrink.
LEMMA AllowanceGrows ==
  ASSUME BudgetInv, TypeOK', NEW k \in Keys, NEW x \in Slots,
         granted' = granted, Debt(k)' = Debt(k),
         Allowance(k, x)' >= Allowance(k, x)
  PROVE  granted'[k][x] <= SlotLimit * Debt(k)' + Allowance(k, x)'
<1>1. /\ SlotLimit * Debt(k) \in Nat /\ granted[k][x] \in Nat
      /\ Allowance(k, x) \in Nat
  BY BudgetTypes DEF BudgetInv
<1>2. Allowance(k, x)' \in Nat
  <2>1. SlotLimit \in Nat
    BY BudgetNat DEF SlotLimit
  <2>2. x \in Nat /\ SlotOf(now') \in Nat
    <3>1. now' \in Nat /\ MaxNow \in Nat
      BY BoundsAssumption DEF TypeOK
    <3>2. SlotOf(now') \in Nat /\ SlotOf(MaxNow) \in Nat
      BY <3>1, SlotNat
    <3> QED
      BY <3>2 DEF Slots
  <2>3. k \in DOMAIN counters' => counters'[k].Slot \in Nat /\ counters'[k].WindowCount \in Nat
    BY DEF TypeOK, Counters
  <2> QED
    BY <2>1, <2>2, <2>3 DEF Allowance
<1>3. granted[k][x] <= SlotLimit * Debt(k) + Allowance(k, x)
  BY DEF BudgetInv, WithinAllowance
<1> QED
  BY <1>1, <1>2, <1>3

\* A step that adds one to the debt of k pays for everything granted so far.
LEMMA DebtPays ==
  ASSUME BudgetInv, NEW k \in Keys, NEW x \in Slots, Debt(k)' = Debt(k) + 1
  PROVE  /\ SlotLimit * Debt(k)' \in Nat
         /\ granted[k][x] <= SlotLimit * Debt(k)'
<1>1. /\ SlotLimit \in Nat /\ Debt(k) \in Nat /\ granted[k][x] \in Nat
      /\ Allowance(k, x) \in Nat /\ Allowance(k, x) <= SlotLimit
  BY BudgetTypes DEF BudgetInv
<1>2. SlotLimit * Debt(k) \in Nat
      /\ SlotLimit * (Debt(k) + 1) = SlotLimit * Debt(k) + SlotLimit
  BY <1>1, MulSucc
<1>3. granted[k][x] <= SlotLimit * Debt(k) + Allowance(k, x)
  BY DEF BudgetInv, WithinAllowance
<1> QED
  BY <1>1, <1>2, <1>3

\* The locked section of RecordRequest keeps the budget.
LEMMA BudgetRecord ==
  ASSUME BudgetInv, TypeOK', NEW p \in Procs, RecordRequest(p)
  PROVE  SlotMatchesClock' /\ WithinAllowance'
<1>0. TypeOK
  BY DEF BudgetInv
<1>a. PICK k \in Keys, s \in Slots : k = calls[p].key /\ s = SlotOf(calls[p].time)
  BY <1>0, RecordStep
<1> DEFINE r == calls[p]
           old == IF k \in DOMAIN counters THEN counters[k] ELSE NewCounter(r.time)
           c == counters'[k]
<1>1. /\ k \in Keys /\ r.time \in Nat /\ r.time <= now /\ r.limit \in Limits
      /\ s \in Nat /\ s \in Slots /\ s <= SlotOf(now) /\ SlotOf(now) \in Nat
      /\ old \in Counters
      /\ k \notin DOMAIN counters => old.Slot = s /\ old.WindowCount = 0
  BY <1>0, <1>a, RecordStep
<1>2. /\ now' = now /\ dropped' = dropped
      /\ DOMAIN counters' = DOMAIN counters \cup {k}
      /\ \A j \in DOMAIN counters : j # k => counters'[j] = counters[j]
      /\ c.Slot = s
      /\ c.LastRequest = r.time
      /\ c.WindowCount = IF s = old.Slot THEN old.WindowCount + 1 ELSE 1
      /\ \A j \in Keys : j # k => late'[j] = late[j]
      /\ late'[k] = IF s < SlotOf(now) THEN late[k] + 1 ELSE late[k]
  BY <1>0, <1>a, RecordEffect
<1>3. IF Allowed(c.WindowCount, r.limit)
        THEN granted' = [granted EXCEPT ![k][s] = @ + 1]
        ELSE granted' = granted
  BY <1>0, <1>a, RecordEffect
<1>4. k \in DOMAIN counters => old = counters[k]
  OBVIOUS
<1> HIDE DEF r, old
<1>5. SlotMatchesClock'
  BY <1>1, <1>2, <1>a DEF SlotMatchesClock, BudgetInv, r
<1>6. ASSUME NEW j \in Keys, NEW x \in Slots, j # k
      PROVE  granted'[j][x] <= SlotLimit * Debt(j)' + Allowance(j, x)'
  <2>1. granted'[j][x] = granted[j][x]
    <3>1. granted \in [Keys -> [Slots -> Nat]]
      BY <1>0 DEF TypeOK
    <3>2. [granted EXCEPT ![k][s] = @ + 1][j][x] = granted[j][x]
      BY <1>1, <1>6, <3>1, BumpFacts
    <3> QED
      BY <1>3, <3>2
  <2>2. Debt(j)' = Debt(j)
    BY <1>2, <1>6 DEF Debt
  <2>3. Allowance(j, x)' = Allowance(j, x)
    BY <1>2, <1>6 DEF Allowance
  <2>4. granted[j][x] <= SlotLimit * Debt(j) + Allowance(j, x)
    BY DEF BudgetInv, WithinAllowance
  <2> QED
    BY <2>1, <2>2, <2>3, <2>4
<1>7. ASSUME NEW x \in Slots
      PROVE  granted'[k][x] <= SlotLimit * Debt(k)' + Allowance(k, x)'
  <2> DEFINE n == c.WindowCount
             g == IF Allowed(n, r.limit) /\ x = s THEN granted[k][x] + 1 ELSE granted[k][x]
  <2>1. /\ SlotLimit \in Nat /\ Debt(k) \in Nat /\ SlotLimit * Debt(k) \in Nat
        /\ x \in Nat /\ granted[k][x] \in Nat
        /\ Allowance(k, x) \in Nat /\ Allowance(k, x) <= SlotLimit
    BY <1>0, <1>1, BudgetTypes
  <2>2. granted'[k][x] = g
    <3>1. granted \in [Keys -> [Slots -> Nat]]
      BY <1>0 DEF TypeOK
    <3>2. [granted EXCEPT ![k][s] = @ + 1][k][x]
            = IF x = s THEN granted[k][x] + 1 ELSE granted[k][x]
      BY <1>1, <3>1, BumpFacts
    <3> QED
      BY <1>3, <3>2
  <2>3. n \in Nat /\ n >= 1 /\ old.Slot \in Nat /\ old.WindowCount \in Nat
    BY <1>1, <1>2 DEF Counters
  <2>4. Allowed(n, r.limit) => n <= SlotLimit
    <3>1. /\ r.limit \in Int /\ r.limit <= MaxLimit /\ Add64(r.limit, Burst) \in Int
          /\ Add64(r.limit, Burst) <= r.limit + Burst
      BY <1>1, AddLimit
    <3>2. Burst \in Int /\ MaxLimit \in Int
      BY ConfigAssumption, LimitsAssumption
    <3> QED
      BY <2>3, <3>1, <3>2 DEF Allowed, SlotLimit
  <2>5. Allowance(k, x)' = IF x > s THEN 0
                           ELSE IF x = s /\ n < SlotLimit THEN n ELSE SlotLimit
    BY <1>2 DEF Allowance
  <2> HIDE DEF n
  <2>6. CASE s < SlotOf(now)
    <3>1. Debt(k)' = Debt(k) + 1
      BY <1>1, <1>2, <1>0, <2>6 DEF Debt, TypeOK
    <3>2. SlotLimit * Debt(k)' \in Nat /\ granted[k][x] <= SlotLimit * Debt(k)'
      BY <1>1, <3>1, DebtPays
    <3> QED
      BY <2>1, <2>2, <2>3, <2>4, <2>5, <3>2
  <2>7. CASE s = SlotOf(now)
    <3>1. Debt(k)' = Debt(k)
      BY <1>1, <1>2, <2>7 DEF Debt
    <3>2. granted[k][x] <= SlotLimit * Debt(k) + Allowance(k, x)
      BY <1>1 DEF BudgetInv, WithinAllowance
    <3>3. CASE k \in DOMAIN counters
      <4>1. /\ counters[k].Slot = old.Slot /\ counters[k].WindowCount = old.WindowCount
            /\ old.Slot <= s
        <5>1. counters[k].LastRequest \in Nat /\ counters[k].LastRequest <= now
              /\ now \in Nat /\ counters[k].Slot = SlotOf(counters[k].LastRequest)
          BY <1>0, <3>3, BoundsAssumption DEF BudgetInv, SlotMatchesClock, TypeOK, Counters
        <5> QED
          BY <1>4, <2>7, <3>3, <5>1, SlotMono
      <4>2. Allowance(k, x) = IF x > old.Slot THEN 0
              ELSE IF x = old.Slot /\ old.WindowCount < SlotLimit
                     THEN old.WindowCount ELSE SlotLimit
        BY <3>3, <4>1 DEF Allowance
      <4>3. n = IF s = old.Slot THEN old.WindowCount + 1 ELSE 1
        BY <1>2 DEF n
      <4> QED
        BY <1>1, <2>1, <2>2, <2>3, <2>4, <2>5, <3>1, <3>2, <4>1, <4>2, <4>3
    <3>4. CASE k \notin DOMAIN counters
      <4>1. Allowance(k, x) = IF x < s THEN SlotLimit ELSE 0
        BY <2>7, <3>4 DEF Allowance
      <4> QED
        BY <1>1, <2>1, <2>2, <2>3, <2>4, <2>5, <3>1, <3>2, <4>1
    <3> QED
      BY <3>3, <3>4
  <2> QED
    BY <1>1, <2>6, <2>7
<1>8. WithinAllowance'
  BY <1>6, <1>7 DEF WithinAllowance
<1> QED
  BY <1>5, <1>8

\* Every step keeps the budget.
LEMMA BudgetNext == BudgetInv /\ [Next]_vars => BudgetInv'
<1> SUFFICES ASSUME BudgetInv, [Next]_vars PROVE BudgetInv'
  OBVIOUS
<1>0. TypeOK /\ TypeOK'
  BY NextType DEF BudgetInv
<1>1. CASE Tick
  <2>1. SlotMatchesClock'
    BY <1>0, <1>1, BoundsAssumption
       DEF Tick, SlotMatchesClock, BudgetInv, TypeOK, Counters
  <2>2. ASSUME NEW k \in Keys, NEW x \in Slots
        PROVE  granted'[k][x] <= SlotLimit * Debt(k)' + Allowance(k, x)'
    <3>1. granted' = granted /\ Debt(k)' = Debt(k) /\ counters' = counters
      BY <1>1 DEF Tick, Debt
    <3>2. SlotOf(now) \in Nat /\ SlotOf(now') \in Nat /\ SlotOf(now) <= SlotOf(now')
      <4>1. now \in Nat /\ now' \in Nat /\ now <= now'
        BY <1>0, <1>1, BoundsAssumption DEF TypeOK, Tick
      <4> QED
        BY <4>1, SlotNat, SlotMono
    <3>3. x \in Nat /\ SlotLimit \in Nat /\ Allowance(k, x) \in Nat
      BY <1>0, BudgetTypes
    <3>4. Allowance(k, x)' >= Allowance(k, x)
      BY <3>1, <3>2, <3>3 DEF Allowance
    <3> QED
      BY <1>0, <3>1, <3>4, AllowanceGrows
  <2> QED
    BY <1>0, <2>1, <2>2 DEF BudgetInv, WithinAllowance
<1>2. ASSUME NEW p \in Procs, NEW k \in Keys, NEW limit \in Limits, Call(p, k, limit)
      PROVE  BudgetInv'
  <2>1. now' = now /\ counters' = counters /\ granted' = granted
        /\ late' = late /\ dropped' = dropped
    BY <1>2 DEF Call
  <2> QED
    BY <1>0, <2>1 DEF BudgetInv, SlotMatchesClock, WithinAllowance, Allowance, Debt
<1>3. ASSUME NEW p \in Procs, RecordRequest(p) PROVE BudgetInv'
  BY <1>0, <1>3, BudgetRecord DEF BudgetInv
<1>4. ASSUME NEW k \in Keys, Delete(k) PROVE BudgetInv'
  <2>1. SlotMatchesClock'
    BY <1>4 DEF Delete, SlotMatchesClock, BudgetInv, Without
  <2>2. ASSUME NEW j \in Keys, NEW x \in Slots
        PROVE  granted'[j][x] <= SlotLimit * Debt(j)' + Allowance(j, x)'
    <3>1. CASE j = k
      <4>1. Debt(k)' = Debt(k) + 1 /\ granted' = granted
        BY <1>0, <1>4 DEF Delete, Debt, TypeOK
      <4>2. SlotLimit * Debt(k)' \in Nat /\ granted[k][x] <= SlotLimit * Debt(k)'
        BY <4>1, DebtPays
      <4>3. Allowance(k, x)' \in Nat /\ granted[k][x] \in Nat
        <5>1. Allowance(k, x)' = IF x < SlotOf(now) THEN SlotLimit ELSE 0
          BY <1>4 DEF Delete, Allowance, Without
        <5> QED
          BY <1>0, <5>1, BudgetTypes
      <4> QED
        BY <3>1, <4>1, <4>2, <4>3
    <3>2. CASE j # k
      <4>1. granted' = granted /\ Debt(j)' = Debt(j) /\ now' = now
        BY <1>0, <1>4, <3>2 DEF Delete, Debt, TypeOK
      <4>2. Allowance(j, x)' = Allowance(j, x)
        BY <1>4, <3>2, <4>1 DEF Delete, Allowance, Without
      <4> QED
        BY <4>1, <4>2 DEF BudgetInv, WithinAllowance
    <3> QED
      BY <3>1, <3>2
  <2> QED
    BY <1>0, <2>1, <2>2 DEF BudgetInv, WithinAllowance
<1>5. ASSUME NEW k \in Keys, NEW t \in 0..now, DeleteIfInactive(k, t) PROVE BudgetInv'
  <2>0. now' = now /\ granted' = granted /\ late' = late /\ dropped' = dropped
    BY <1>5 DEF DeleteIfInactive
  <2>1. SlotMatchesClock'
    BY <1>5 DEF DeleteIfInactive, SlotMatchesClock, BudgetInv, Without
  <2>2. counters[k].Slot \in Nat /\ counters[k].Slot < SlotOf(now)
    <3>1. /\ counters[k].LastRequest \in Nat /\ counters[k].Slot \in Nat
          /\ counters[k].Slot = SlotOf(counters[k].LastRequest)
          /\ now \in Nat /\ t \in Nat /\ t <= now
      BY <1>0, <1>5, BoundsAssumption
         DEF DeleteIfInactive, BudgetInv, SlotMatchesClock, TypeOK, Counters
    <3>2. SlotOf(t) # counters[k].Slot /\ counters[k].LastRequest <= t
      <4>1. 2 * WindowS * Second \in Nat
        BY ClockAssumption
      <4> QED
        BY <1>5, <3>1, <4>1 DEF DeleteIfInactive, IsInactive
    <3>3. /\ SlotOf(t) \in Nat /\ SlotOf(now) \in Nat
          /\ counters[k].Slot <= SlotOf(t) /\ SlotOf(t) <= SlotOf(now)
      BY <3>1, <3>2, SlotNat, SlotMono
    <3> QED
      BY <3>1, <3>2, <3>3
  <2>3. ASSUME NEW j \in Keys, NEW x \in Slots
        PROVE  granted'[j][x] <= SlotLimit * Debt(j)' + Allowance(j, x)'
    <3>1. Debt(j)' = Debt(j)
      BY <2>0 DEF Debt
    <3>2. x \in Nat /\ SlotLimit \in Nat /\ Allowance(j, x) \in Nat
          /\ Allowance(j, x) <= SlotLimit /\ SlotOf(now) \in Nat
      BY <1>0, BudgetTypes
    <3>3. CASE j = k
      <4>1. Allowance(k, x)' = IF x < SlotOf(now) THEN SlotLimit ELSE 0
        BY <1>5, <2>0 DEF DeleteIfInactive, Allowance, Without
      <4>2. x >= SlotOf(now) => Allowance(k, x) = 0
        BY <1>5, <2>2, <3>2 DEF DeleteIfInactive, Allowance
      <4>3. Allowance(k, x)' >= Allowance(k, x)
        BY <3>2, <3>3, <4>1, <4>2
      <4> QED
        BY <1>0, <2>0, <3>1, <3>3, <4>3, AllowanceGrows
    <3>4. CASE j # k
      <4>1. Allowance(j, x)' = Allowance(j, x)
        BY <1>5, <2>0, <3>4 DEF DeleteIfInactive, Allowance, Without
      <4> QED
        BY <2>0, <3>1, <4>1 DEF BudgetInv, WithinAllowance
    <3> QED
      BY <3>3, <3>4
  <2> QED
    BY <1>0, <2>1, <2>3 DEF BudgetInv, WithinAllowance
<1>6. CASE UNCHANGED vars
  <2>1. now' = now /\ counters' = counters /\ granted' = granted
        /\ late' = late /\ dropped' = dropped
    BY <1>6 DEF vars
  <2> QED
    BY <1>0, <2>1 DEF BudgetInv, SlotMatchesClock, WithinAllowance, Allowance, Debt
<1> QED
  BY <1>1, <1>2, <1>3, <1>4, <1>5, <1>6 DEF Next

\* In every behaviour of the map, a slot of a key is granted at most
\* limit + burst requests, once more for each late request and each
\* unconditional Delete; removing inactive counters is free.
THEOREM SlotBudgetHolds == Spec => []SlotBudget
  BY BudgetInit, BudgetNext, BudgetInvImplies, PTL DEF Spec

-----------------------------------------------------------------------------
(* No early 403.                                                            *)

\* limit + burst fits an int64 for every limit in use.
NoOverflow == MaxLimit + Burst <= MaxInt

\* A counter never counts more than the requests its slot has seen.
CountIsSeen ==
  \A k \in DOMAIN counters : /\ counters[k].Slot \in Slots
                             /\ counters[k].WindowCount <= seen(k, counters[k].Slot)

EarlyInv == TypeOK /\ CountIsSeen /\ NoEarlyBlock

\* The locked section of RecordRequest refuses only what exceeds the budget.
LEMMA EarlyRecord ==
  ASSUME NoOverflow, EarlyInv, TypeOK', NEW p \in Procs, RecordRequest(p)
  PROVE  CountIsSeen' /\ NoEarlyBlock'
<1>0. TypeOK
  BY DEF EarlyInv
<1>a. PICK k \in Keys, s \in Slots : k = calls[p].key /\ s = SlotOf(calls[p].time)
  BY <1>0, RecordStep
<1> DEFINE r == calls[p]
           old == IF k \in DOMAIN counters THEN counters[k] ELSE NewCounter(r.time)
           c == counters'[k]
<1>1. /\ r.limit \in Limits /\ s \in Nat /\ old \in Counters
      /\ k \notin DOMAIN counters => old.Slot = s /\ old.WindowCount = 0
  BY <1>0, <1>a, RecordStep
<1>2. /\ DOMAIN counters' = DOMAIN counters \cup {k}
      /\ \A j \in DOMAIN counters : j # k => counters'[j] = counters[j]
      /\ c.Slot = s
      /\ c.WindowCount = IF s = old.Slot THEN old.WindowCount + 1 ELSE 1
  BY <1>0, <1>a, RecordEffect
<1>3. IF Allowed(c.WindowCount, r.limit)
        THEN granted' = [granted EXCEPT ![k][s] = @ + 1] /\ refused' = refused
        ELSE refused' = [refused EXCEPT ![k][s] = @ + 1] /\ granted' = granted
  BY <1>0, <1>a, RecordEffect
<1>4. k \in DOMAIN counters => old = counters[k]
  OBVIOUS
<1> HIDE DEF r, old
<1>5. \A j \in Keys, x \in Slots :
        /\ granted[j][x] \in Nat /\ refused[j][x] \in Nat
        /\ granted'[j][x] = IF Allowed(c.WindowCount, r.limit) /\ j = k /\ x = s
                              THEN granted[j][x] + 1 ELSE granted[j][x]
        /\ refused'[j][x] = IF ~Allowed(c.WindowCount, r.limit) /\ j = k /\ x = s
                              THEN refused[j][x] + 1 ELSE refused[j][x]
  <2>1. granted \in [Keys -> [Slots -> Nat]] /\ refused \in [Keys -> [Slots -> Nat]]
    BY <1>0 DEF TypeOK
  <2>2. \A j \in Keys, x \in Slots :
          [granted EXCEPT ![k][s] = @ + 1][j][x]
            = IF j = k /\ x = s THEN granted[j][x] + 1 ELSE granted[j][x]
    BY <2>1, BumpFacts
  <2>3. \A j \in Keys, x \in Slots :
          [refused EXCEPT ![k][s] = @ + 1][j][x]
            = IF j = k /\ x = s THEN refused[j][x] + 1 ELSE refused[j][x]
    BY <2>1, BumpFacts
  <2> QED
    BY <1>3, <2>1, <2>2, <2>3
<1>6. \A j \in Keys, x \in Slots :
        seen(j, x)' = IF j = k /\ x = s THEN seen(j, x) + 1 ELSE seen(j, x)
  BY <1>5 DEF seen
<1>7. \A j \in Keys, x \in Slots : seen(j, x) \in Nat
  BY <1>5 DEF seen
<1>8. c.WindowCount \in Nat /\ c.WindowCount <= seen(k, s)'
  <2>1. old.WindowCount \in Nat /\ old.Slot \in Nat
    BY <1>1 DEF Counters
  <2>2. s = old.Slot => old.WindowCount <= seen(k, s)
    BY <1>1, <1>4, <1>7 DEF EarlyInv, CountIsSeen
  <2> QED
    BY <1>2, <1>6, <1>7, <2>1, <2>2
<1>9. CountIsSeen'
  <2> SUFFICES ASSUME NEW j \in DOMAIN counters'
               PROVE  /\ counters'[j].Slot \in Slots
                      /\ counters'[j].WindowCount <= seen(j, counters[j].Slot)'
    BY DEF CountIsSeen
  <2>1. CASE j = k
    BY <1>2, <1>8, <2>1 DEF seen
  <2>2. CASE j # k
    <3>1. j \in DOMAIN counters /\ counters'[j] = counters[j] /\ j \in Keys
      BY <1>0, <1>2, <2>2 DEF TypeOK
    <3>2. counters[j].Slot \in Slots /\ counters[j].WindowCount <= seen(j, counters[j].Slot)
      BY <3>1 DEF EarlyInv, CountIsSeen
    <3>3. seen(j, counters[j].Slot)' = seen(j, counters[j].Slot)
      BY <1>5, <2>2, <3>1, <3>2 DEF seen
    <3> QED
      BY <3>1, <3>2, <3>3
  <2> QED
    BY <2>1, <2>2
<1>10. ~Allowed(c.WindowCount, r.limit) => seen(k, s)' > MinLimit + Burst
  <2>1. /\ r.limit \in Int /\ MinLimit <= r.limit /\ r.limit <= MaxLimit
        /\ r.limit + Burst <= MaxInt => Add64(r.limit, Burst) = r.limit + Burst
    BY <1>1, AddLimit
  <2>2. Burst \in Int /\ MaxLimit \in Int /\ MinLimit \in Int /\ MaxInt \in Int
    BY ConfigAssumption, LimitsAssumption DEF Int64
  <2>3. Add64(r.limit, Burst) = r.limit + Burst
    BY <2>1, <2>2 DEF NoOverflow
  <2>4. seen(k, s)' \in Int
    BY <1>6, <1>7
  <2> QED
    BY <1>8, <2>1, <2>2, <2>3, <2>4 DEF Allowed
<1>11. ASSUME NEW j \in Keys, NEW x \in Slots, refused'[j][x] > 0
       PROVE  seen(j, x)' > MinLimit + Burst
  <2>1. MinLimit + Burst \in Int
    BY ConfigAssumption, LimitsAssumption DEF Int64
  <2>2. CASE ~Allowed(c.WindowCount, r.limit) /\ j = k /\ x = s
    BY <1>10, <2>2
  <2>3. CASE ~(~Allowed(c.WindowCount, r.limit) /\ j = k /\ x = s)
    <3>1. refused[j][x] > 0
      BY <1>5, <1>11, <2>3
    <3>2. seen(j, x) > MinLimit + Burst
      BY <3>1 DEF EarlyInv, NoEarlyBlock
    <3> QED
      BY <1>6, <1>7, <2>1, <3>2
  <2> QED
    BY <2>2, <2>3
<1> QED
  BY <1>9, <1>11 DEF NoEarlyBlock

\* Initially and in every step.
LEMMA EarlyInductive ==
  ASSUME NoOverflow
  PROVE  /\ Init => EarlyInv
         /\ EarlyInv /\ [Next]_vars => EarlyInv'
<1>1. ASSUME Init PROVE EarlyInv
  <2>1. TypeOK
    BY <1>1, InitType
  <2> QED
    BY <1>1, <2>1 DEF Init, EarlyInv, CountIsSeen, NoEarlyBlock
<1>2. ASSUME EarlyInv, [Next]_vars PROVE EarlyInv'
  <2>0. TypeOK'
    BY <1>2, NextType DEF EarlyInv
  <2>1. ASSUME NEW p \in Procs, RecordRequest(p) PROVE EarlyInv'
    BY <1>2, <2>0, <2>1, EarlyRecord DEF EarlyInv
  <2>2. ASSUME granted' = granted, refused' = refused,
               DOMAIN counters' \subseteq DOMAIN counters,
               \A k \in DOMAIN counters' : counters'[k] = counters[k]
        PROVE  EarlyInv'
    BY <1>2, <2>0, <2>2 DEF EarlyInv, CountIsSeen, NoEarlyBlock, seen
  <2>3. CASE Tick \/ UNCHANGED vars
    BY <2>2, <2>3 DEF Tick, vars
  <2>4. ASSUME NEW p \in Procs, NEW k \in Keys, NEW limit \in Limits, Call(p, k, limit)
        PROVE  EarlyInv'
    BY <2>2, <2>4 DEF Call
  <2>5. ASSUME NEW k \in Keys, Delete(k) PROVE EarlyInv'
    BY <2>2, <2>5 DEF Delete, Without
  <2>6. ASSUME NEW k \in Keys, NEW t \in 0..now, DeleteIfInactive(k, t) PROVE EarlyInv'
    BY <2>2, <2>6 DEF DeleteIfInactive, Without
  <2> QED
    BY <1>2, <2>1, <2>3, <2>4, <2>5, <2>6 DEF Next
<1> QED
  BY <1>1, <1>2

\* Unless limit + burst overflows, no interleaving makes RecordRequest answer
\* 403 in a slot before the client has used up limit + burst in that slot.
THEOREM NoEarlyBlockHolds == ASSUME NoOverflow PROVE Spec => []NoEarlyBlock
<1>1. EarlyInv => NoEarlyBlock
  BY DEF EarlyInv
<1> QED
  BY <1>1, EarlyInductive, PTL DEF Spec

-----------------------------------------------------------------------------
(* Allowed traffic earns no abuse hit.                                      *)

\* What the configuration must satisfy for it; Validate asks for less
\* (Burst < AbuseThreshold).
BurstBelowAbuse == Kind = "unknown" /\ GlobalLimit + Burst <= AbuseThreshold

NeverRefused(k) == \A x \in Slots : refused[k][x] = 0

\* A client that was never refused stays within limit + burst in every slot.
CleanCounters ==
  \A k \in DOMAIN counters :
    NeverRefused(k) => /\ counters[k].Hits = 0
                       /\ counters[k].WindowCount <= GlobalLimit + Burst

CleanInv == TypeOK /\ CleanCounters

\* The locked section of RecordRequest keeps clean counters clean.
LEMMA CleanRecord ==
  ASSUME BurstBelowAbuse, CleanInv, TypeOK', NEW p \in Procs, RecordRequest(p)
  PROVE  CleanCounters'
<1>0. TypeOK
  BY DEF CleanInv
<1>a. PICK k \in Keys, s \in Slots : k = calls[p].key /\ s = SlotOf(calls[p].time)
  BY <1>0, RecordStep
<1> DEFINE r == calls[p]
           old == IF k \in DOMAIN counters THEN counters[k] ELSE NewCounter(r.time)
           c == counters'[k]
<1>1. /\ r.limit \in Limits /\ old \in Counters
      /\ k \notin DOMAIN counters => old.WindowCount = 0 /\ old.Hits = 0
  BY <1>0, <1>a, RecordStep
<1>2. /\ DOMAIN counters' = DOMAIN counters \cup {k}
      /\ \A j \in DOMAIN counters : j # k => counters'[j] = counters[j]
      /\ c.WindowCount = IF s = old.Slot THEN old.WindowCount + 1 ELSE 1
      /\ c.Hits = IF s # old.Slot /\ old.WindowCount > Threshold(r.limit)
                    THEN old.Hits + 1 ELSE old.Hits
  BY <1>0, <1>a, RecordEffect
<1>3. IF Allowed(c.WindowCount, r.limit)
        THEN refused' = refused
        ELSE refused' = [refused EXCEPT ![k][s] = @ + 1]
  BY <1>0, <1>a, RecordEffect
<1>4. k \in DOMAIN counters => old = counters[k]
  OBVIOUS
<1> HIDE DEF r, old
<1>5. \A j \in Keys : NeverRefused(j)' => NeverRefused(j)
  <2>1. refused \in [Keys -> [Slots -> Nat]]
    BY <1>0 DEF TypeOK
  <2>2. \A j \in Keys, x \in Slots :
          [refused EXCEPT ![k][s] = @ + 1][j][x] = 0 => refused[j][x] = 0
    BY <2>1, BumpFacts
  <2> QED
    BY <1>3, <2>2 DEF NeverRefused
<1>6. NeverRefused(k)' => Allowed(c.WindowCount, r.limit)
  <2>1. refused \in [Keys -> [Slots -> Nat]]
    BY <1>0 DEF TypeOK
  <2>2. [refused EXCEPT ![k][s] = @ + 1][k][s] # 0
    BY <2>1, BumpFacts
  <2> QED
    BY <1>3, <2>2 DEF NeverRefused
<1>7. /\ r.limit = GlobalLimit /\ Threshold(r.limit) = AbuseThreshold
      /\ GlobalLimit + Burst \in Nat /\ AbuseThreshold \in Int
      /\ Add64(r.limit, Burst) \in Int /\ Add64(r.limit, Burst) <= GlobalLimit + Burst
  <2>1. Limits = {GlobalLimit} /\ Threshold(r.limit) = AbuseThreshold
    BY LimitsAssumption DEF BurstBelowAbuse, Threshold
  <2>2. Threshold(r.limit) \in Int /\ Add64(r.limit, Burst) \in Int
        /\ Add64(r.limit, Burst) <= r.limit + Burst
    BY <1>1, AddLimit, ThresholdInt
  <2>3. GlobalLimit + Burst \in Nat
    BY ConfigAssumption
  <2> QED
    BY <1>1, <2>1, <2>2, <2>3
<1>8. NeverRefused(k)' => c.Hits = 0 /\ c.WindowCount <= GlobalLimit + Burst
  <2> SUFFICES ASSUME NeverRefused(k)'
               PROVE  c.Hits = 0 /\ c.WindowCount <= GlobalLimit + Burst
    OBVIOUS
  <2>1. old.Hits = 0 /\ old.WindowCount <= GlobalLimit + Burst
    BY <1>1, <1>4, <1>5, <1>7 DEF CleanInv, CleanCounters
  <2>2. old.WindowCount \in Nat
    BY <1>1 DEF Counters
  <2>3. ~(old.WindowCount > Threshold(r.limit))
    BY <1>7, <2>1, <2>2 DEF BurstBelowAbuse
  <2>4. c.WindowCount \in Nat
    BY <1>2, <2>2
  <2>5. c.WindowCount <= GlobalLimit + Burst
    BY <1>6, <1>7, <2>4 DEF Allowed
  <2> QED
    BY <1>2, <2>1, <2>3, <2>5
<1>9. ASSUME NEW j \in DOMAIN counters', NeverRefused(j)', j # k
      PROVE  counters'[j].Hits = 0 /\ counters'[j].WindowCount <= GlobalLimit + Burst
  <2>1. j \in DOMAIN counters /\ j \in Keys /\ counters'[j] = counters[j]
    BY <1>0, <1>2, <1>9 DEF TypeOK
  <2>2. NeverRefused(j)
    BY <1>5, <1>9, <2>1
  <2> QED
    BY <2>1, <2>2 DEF CleanInv, CleanCounters
<1> QED
  BY <1>8, <1>9 DEF CleanCounters

\* Initially and in every step.
LEMMA CleanInductive ==
  ASSUME BurstBelowAbuse
  PROVE  /\ Init => CleanInv
         /\ CleanInv /\ [Next]_vars => CleanInv'
<1>1. ASSUME Init PROVE CleanInv
  <2>1. TypeOK
    BY <1>1, InitType
  <2> QED
    BY <1>1, <2>1 DEF Init, CleanInv, CleanCounters
<1>2. ASSUME CleanInv, [Next]_vars PROVE CleanInv'
  <2>0. TypeOK'
    BY <1>2, NextType DEF CleanInv
  <2>1. ASSUME NEW p \in Procs, RecordRequest(p) PROVE CleanInv'
    BY <1>2, <2>0, <2>1, CleanRecord DEF CleanInv
  <2>2. ASSUME refused' = refused,
               DOMAIN counters' \subseteq DOMAIN counters,
               \A k \in DOMAIN counters' : counters'[k] = counters[k]
        PROVE  CleanInv'
    BY <1>2, <2>0, <2>2 DEF CleanInv, CleanCounters, NeverRefused
  <2>3. CASE Tick \/ UNCHANGED vars
    BY <2>2, <2>3 DEF Tick, vars
  <2>4. ASSUME NEW p \in Procs, NEW k \in Keys, NEW limit \in Limits, Call(p, k, limit)
        PROVE  CleanInv'
    BY <2>2, <2>4 DEF Call
  <2>5. ASSUME NEW k \in Keys, Delete(k) PROVE CleanInv'
    BY <2>2, <2>5 DEF Delete, Without
  <2>6. ASSUME NEW k \in Keys, NEW t \in 0..now, DeleteIfInactive(k, t) PROVE CleanInv'
    BY <2>2, <2>6 DEF DeleteIfInactive, Without
  <2> QED
    BY <1>2, <2>1, <2>3, <2>4, <2>5, <2>6 DEF Next
<1> QED
  BY <1>1, <1>2

\* When global_limit + burst does not exceed the abuse threshold, a client
\* none of whose requests was refused has no abuse hit, late requests and
\* deletions included.
THEOREM AllowedTrafficHolds ==
  ASSUME BurstBelowAbuse PROVE Spec => []AllowedTrafficNotAbusive
<1>1. CleanInv => AllowedTrafficNotAbusive
  BY DEF CleanInv, CleanCounters, NeverRefused, AllowedTrafficNotAbusive
<1> QED
  BY <1>1, CleanInductive, PTL DEF Spec

-----------------------------------------------------------------------------
(* The count of an undisturbed key.                                         *)

\* The counter of a key without late requests and deletions counts exactly the
\* requests of its slot, and no later slot has seen a request; without a
\* counter, none from now's slot on has.
CountExactOf(k) ==
  Debt(k) = 0 =>
    IF k \in DOMAIN counters
      THEN /\ counters[k].WindowCount = seen(k, counters[k].Slot)
           /\ \A x \in Slots : x > counters[k].Slot => seen(k, x) = 0
      ELSE \A x \in Slots : x >= SlotOf(now) => seen(k, x) = 0
CountExact == \A k \in Keys : CountExactOf(k)

ExactInv == BudgetInv /\ CountIsSeen /\ CountExact

\* Debts are natural numbers, and so is what a slot has seen.
LEMMA SeenTypes ==
  ASSUME TypeOK
  PROVE  \A k \in Keys : Debt(k) \in Nat /\ \A x \in Slots : seen(k, x) \in Nat /\ x \in Nat
<1>1. now \in Nat /\ MaxNow \in Nat
  BY BoundsAssumption DEF TypeOK
<1>2. SlotOf(MaxNow) \in Nat
  BY <1>1, SlotNat
<1> QED
  BY <1>2 DEF TypeOK, Debt, seen, Slots

\* RecordRequest is seen in one slot of one key, whatever its answer.
LEMMA SeenStep ==
  ASSUME TypeOK, NEW p \in Procs, RecordRequest(p)
  PROVE  \A j \in Keys, x \in Slots :
           seen(j, x)' = IF j = calls[p].key /\ x = SlotOf(calls[p].time)
                           THEN seen(j, x) + 1 ELSE seen(j, x)
<1>a. PICK k \in Keys, s \in Slots : k = calls[p].key /\ s = SlotOf(calls[p].time)
  BY RecordStep
<1>1. \/ granted' = [granted EXCEPT ![k][s] = @ + 1] /\ refused' = refused
      \/ refused' = [refused EXCEPT ![k][s] = @ + 1] /\ granted' = granted
  BY <1>a, RecordEffect
<1>2. granted \in [Keys -> [Slots -> Nat]] /\ refused \in [Keys -> [Slots -> Nat]]
  BY DEF TypeOK
<1>3. \A j \in Keys, x \in Slots :
        [granted EXCEPT ![k][s] = @ + 1][j][x]
          = IF j = k /\ x = s THEN granted[j][x] + 1 ELSE granted[j][x]
  BY <1>2, BumpFacts
<1>4. \A j \in Keys, x \in Slots :
        [refused EXCEPT ![k][s] = @ + 1][j][x]
          = IF j = k /\ x = s THEN refused[j][x] + 1 ELSE refused[j][x]
  BY <1>2, BumpFacts
<1>5. \A j \in Keys, x \in Slots : granted[j][x] \in Nat /\ refused[j][x] \in Nat
  BY <1>2
<1>6. ASSUME NEW j \in Keys, NEW x \in Slots
      PROVE  seen(j, x)' = IF j = k /\ x = s THEN seen(j, x) + 1 ELSE seen(j, x)
  <2>1. granted'[j][x] + refused'[j][x] =
          IF j = k /\ x = s THEN granted[j][x] + refused[j][x] + 1 ELSE granted[j][x] + refused[j][x]
    <3>1. granted[j][x] \in Nat /\ refused[j][x] \in Nat
      BY <1>5
    <3>2. CASE granted' = [granted EXCEPT ![k][s] = @ + 1] /\ refused' = refused
      <4>1. granted'[j][x] = IF j = k /\ x = s THEN granted[j][x] + 1 ELSE granted[j][x]
        BY <1>3, <3>2, Zenon
      <4> QED
        BY <3>1, <3>2, <4>1
    <3>3. CASE refused' = [refused EXCEPT ![k][s] = @ + 1] /\ granted' = granted
      <4>1. refused'[j][x] = IF j = k /\ x = s THEN refused[j][x] + 1 ELSE refused[j][x]
        BY <1>4, <3>3, Zenon
      <4> QED
        BY <3>1, <3>3, <4>1
    <3> QED
      BY <1>1, <3>2, <3>3
  <2> QED
    BY <2>1 DEF seen
<1> QED
  BY <1>6, <1>a

\* RecordRequest for a key that is undisturbed also afterwards: the request is
\* of now's slot, and the new count is the number of requests the slot has seen.
LEMMA UndisturbedRecord ==
  ASSUME ExactInv, NEW p \in Procs, RecordRequest(p),
         NEW k \in Keys, k = calls[p].key, Debt(k)' = 0
  PROVE  LET s == SlotOf(calls[p].time)
         IN  /\ Debt(k) = 0
             /\ s = SlotOf(now)
             /\ counters'[k].WindowCount = seen(k, s) + 1
             /\ k \in DOMAIN counters => counters[k].Slot <= s
             /\ \A x \in Slots : x > s => seen(k, x) = 0
<1>0. TypeOK
  BY DEF ExactInv, BudgetInv
<1>a. PICK s \in Slots : s = SlotOf(calls[p].time)
  BY <1>0, RecordStep
<1> DEFINE old == IF k \in DOMAIN counters THEN counters[k] ELSE NewCounter(calls[p].time)
<1>1. /\ s <= SlotOf(now) /\ s \in Nat /\ SlotOf(now) \in Nat /\ old \in Counters
      /\ k \notin DOMAIN counters => old.Slot = s /\ old.WindowCount = 0
  BY <1>0, <1>a, RecordStep
<1>2. /\ counters'[k].WindowCount = IF s = old.Slot THEN old.WindowCount + 1 ELSE 1
      /\ late'[k] = IF s < SlotOf(now) THEN late[k] + 1 ELSE late[k]
      /\ dropped' = dropped
  BY <1>0, <1>a, RecordEffect
<1>3. late[k] \in Nat /\ dropped[k] \in Nat
  BY <1>0 DEF TypeOK
<1>4. Debt(k) = 0 /\ s = SlotOf(now)
  BY <1>1, <1>2, <1>3, <1>a DEF Debt
<1>5. \A x \in Slots : x \in Nat /\ seen(k, x) \in Nat
  BY <1>0, SeenTypes
<1>6. CASE k \in DOMAIN counters
  <2>1. counters[k].Slot \in Nat /\ counters[k].Slot <= s
    <3>1. /\ counters[k].LastRequest \in Nat /\ now \in Nat
          /\ counters[k].LastRequest <= now
          /\ counters[k].Slot = SlotOf(counters[k].LastRequest)
      BY <1>0, <1>6, BoundsAssumption
         DEF TypeOK, Counters, ExactInv, BudgetInv, SlotMatchesClock
    <3> QED
      BY <1>4, <3>1, SlotMono, SlotNat
  <2>2. /\ counters[k].WindowCount = seen(k, counters[k].Slot)
        /\ \A x \in Slots : x > counters[k].Slot => seen(k, x) = 0
    BY <1>4, <1>6 DEF ExactInv, CountExact, CountExactOf
  <2>3. counters'[k].WindowCount = seen(k, s) + 1
    BY <1>1, <1>2, <1>6, <2>1, <2>2
  <2>4. \A x \in Slots : x > s => seen(k, x) = 0
    BY <1>1, <1>5, <2>1, <2>2
  <2> QED
    BY <1>4, <1>a, <2>1, <2>3, <2>4
<1>7. CASE k \notin DOMAIN counters
  <2>1. \A x \in Slots : x >= s => seen(k, x) = 0
    BY <1>4, <1>7 DEF ExactInv, CountExact, CountExactOf
  <2>2. seen(k, s) = 0 /\ counters'[k].WindowCount = 1
    BY <1>1, <1>2, <1>7, <2>1
  <2>3. ASSUME NEW x \in Slots, x > s PROVE seen(k, x) = 0
    BY <1>1, <1>5, <2>1, <2>3
  <2> QED
    BY <1>4, <1>7, <1>a, <2>2, <2>3
<1> QED
  BY <1>6, <1>7

\* Where a counter that DeleteIfInactive removes stood.
LEMMA InactiveIsPast ==
  ASSUME BudgetInv, NEW k \in Keys, NEW t \in 0..now, DeleteIfInactive(k, t)
  PROVE  counters[k].Slot \in Nat /\ counters[k].Slot < SlotOf(now) /\ SlotOf(now) \in Nat
<1>1. /\ counters[k].LastRequest \in Nat /\ counters[k].Slot \in Nat
      /\ counters[k].Slot = SlotOf(counters[k].LastRequest)
      /\ now \in Nat /\ t \in Nat /\ t <= now
  BY BoundsAssumption DEF DeleteIfInactive, BudgetInv, SlotMatchesClock, TypeOK, Counters
<1>2. SlotOf(t) # counters[k].Slot /\ counters[k].LastRequest <= t
  <2>1. 2 * WindowS * Second \in Nat
    BY ClockAssumption
  <2> QED
    BY <1>1, <2>1 DEF DeleteIfInactive, IsInactive
<1> QED
  BY <1>1, <1>2, SlotNat, SlotMono

\* Every step keeps the counts of undisturbed keys exact.
LEMMA ExactNext ==
  ASSUME ExactInv, BudgetInv', [Next]_vars
  PROVE  CountIsSeen' /\ CountExact'
<1>0. TypeOK /\ TypeOK' /\ BudgetInv
  BY DEF ExactInv, BudgetInv
<1>1. ASSUME granted' = granted, refused' = refused,
             DOMAIN counters' \subseteq DOMAIN counters,
             \A k \in DOMAIN counters' : counters'[k] = counters[k]
      PROVE  CountIsSeen'
  BY <1>1 DEF ExactInv, CountIsSeen, seen
<1>2. CASE Tick
  <2>1. CountIsSeen'
    BY <1>1, <1>2 DEF Tick
  <2>2. SlotOf(now)' = SlotOf(now') /\ SlotOf(now) <= SlotOf(now') /\ SlotOf(now') \in Nat
        /\ SlotOf(now) \in Nat
    <3>1. now \in Nat /\ now' \in Nat /\ now <= now'
      BY <1>0, <1>2, BoundsAssumption DEF Tick, TypeOK
    <3> QED
      BY <3>1, SlotMono, SlotNat
  <2>3. ASSUME NEW k \in Keys PROVE CountExactOf(k)'
    <3>1. Debt(k)' = Debt(k) /\ counters' = counters
      BY <1>2 DEF Tick, Debt
    <3>2. \A x \in Slots : seen(k, x)' = seen(k, x) /\ x \in Nat
      BY <1>0, <1>2, SeenTypes DEF Tick, seen
    <3>3. k \in DOMAIN counters => seen(k, counters[k].Slot)' = seen(k, counters[k].Slot)
      BY <1>2 DEF Tick, seen
    <3>4. ASSUME NEW x \in Slots, Debt(k) = 0, k \notin DOMAIN counters, x >= SlotOf(now')
          PROVE  seen(k, x)' = 0
      <4>1. x >= SlotOf(now)
        BY <2>2, <3>2, <3>4
      <4> QED
        BY <3>2, <3>4, <4>1 DEF ExactInv, CountExact, CountExactOf
    <3> QED
      BY <2>2, <3>1, <3>2, <3>3, <3>4 DEF ExactInv, CountExact, CountExactOf
  <2> QED
    BY <2>1, <2>3 DEF CountExact
<1>3. ASSUME NEW p \in Procs, NEW k \in Keys, NEW limit \in Limits, Call(p, k, limit)
      PROVE  CountIsSeen' /\ CountExact'
  BY <1>3 DEF Call, ExactInv, CountIsSeen, CountExact, CountExactOf, Debt, seen
<1>4. ASSUME NEW p \in Procs, RecordRequest(p) PROVE CountIsSeen' /\ CountExact'
  <2>a. PICK k \in Keys, s \in Slots : k = calls[p].key /\ s = SlotOf(calls[p].time)
    BY <1>0, <1>4, RecordStep
  <2> DEFINE old == IF k \in DOMAIN counters THEN counters[k] ELSE NewCounter(calls[p].time)
  <2>1. /\ DOMAIN counters' = DOMAIN counters \cup {k}
        /\ \A j \in DOMAIN counters : j # k => counters'[j] = counters[j]
        /\ counters'[k].Slot = s
        /\ counters'[k].WindowCount = IF s = old.Slot THEN old.WindowCount + 1 ELSE 1
        /\ now' = now /\ dropped' = dropped
        /\ \A j \in Keys : j # k => late'[j] = late[j]
    BY <1>0, <1>4, <2>a, RecordEffect
  <2>2. \A j \in Keys, x \in Slots :
          seen(j, x)' = IF j = k /\ x = s THEN seen(j, x) + 1 ELSE seen(j, x)
    BY <1>0, <1>4, <2>a, SeenStep
  <2>3. \A j \in Keys, x \in Slots : seen(j, x) \in Nat /\ x \in Nat
    BY <1>0, SeenTypes
  <2>4. /\ old \in Counters
        /\ k \notin DOMAIN counters => old.WindowCount = 0
        /\ k \in DOMAIN counters => old = counters[k]
    BY <1>0, <1>4, <2>a, RecordStep
  <2> HIDE DEF old
  <2>5. counters'[k].WindowCount <= seen(k, s)'
    <3>1. old.WindowCount \in Nat
      BY <2>4 DEF Counters
    <3>2. s = old.Slot => old.WindowCount <= seen(k, s)
      BY <2>3, <2>4 DEF ExactInv, CountIsSeen
    <3> QED
      BY <2>1, <2>2, <2>3, <3>1, <3>2
  <2>6. ASSUME NEW j \in DOMAIN counters'
        PROVE  counters'[j].Slot \in Slots /\ counters'[j].WindowCount <= seen(j, counters[j].Slot)'
    <3>1. CASE j = k
      BY <2>1, <2>5, <3>1 DEF seen
    <3>2. CASE j # k
      <4>1. j \in DOMAIN counters /\ counters'[j] = counters[j] /\ j \in Keys
        BY <1>0, <2>1, <3>2 DEF TypeOK
      <4>2. counters[j].Slot \in Slots /\ counters[j].WindowCount <= seen(j, counters[j].Slot)
        BY <4>1 DEF ExactInv, CountIsSeen
      <4>3. granted'[j][counters[j].Slot] + refused'[j][counters[j].Slot] = seen(j, counters[j].Slot)
        BY <2>2, <3>2, <4>1, <4>2 DEF seen
      <4>4. seen(j, counters[j].Slot)' = seen(j, counters[j].Slot)
        BY <4>1, <4>3 DEF seen
      <4> QED
        BY <4>1, <4>2, <4>4
    <3> QED
      BY <3>1, <3>2
  <2>7. CountExactOf(k)'
    <3> SUFFICES ASSUME Debt(k)' = 0 PROVE CountExactOf(k)'
      BY DEF CountExactOf
    <3>1. /\ counters'[k].WindowCount = seen(k, s) + 1
          /\ \A x \in Slots : x > s => seen(k, x) = 0
      BY <1>4, <2>a, UndisturbedRecord
    <3>2. counters'[k].WindowCount = granted'[k][s] + refused'[k][s]
      BY <2>2, <3>1 DEF seen
    <3>3. counters'[k].WindowCount = seen(k, counters[k].Slot)'
      BY <2>1, <3>2 DEF seen
    <3>4. \A x \in Slots : x > s => seen(k, x)' = 0
      BY <2>2, <2>3, <3>1
    <3> QED
      BY <2>1, <3>3, <3>4 DEF CountExactOf
  <2>8. ASSUME NEW j \in Keys, j # k PROVE CountExactOf(j)'
    <3>1. Debt(j)' = Debt(j) /\ (j \in DOMAIN counters' <=> j \in DOMAIN counters)
          /\ (j \in DOMAIN counters => counters'[j] = counters[j])
      BY <2>1, <2>8 DEF Debt
    <3>2. \A x \in Slots : seen(j, x)' = seen(j, x)
      BY <2>2, <2>8
    <3>3. j \in DOMAIN counters => seen(j, counters[j].Slot)' = seen(j, counters[j].Slot)
      <4> SUFFICES ASSUME j \in DOMAIN counters
                   PROVE  seen(j, counters[j].Slot)' = seen(j, counters[j].Slot)
        OBVIOUS
      <4>1. counters[j].Slot \in Slots /\ counters'[j] = counters[j]
        BY <3>1 DEF ExactInv, CountIsSeen
      <4>2. granted'[j][counters[j].Slot] + refused'[j][counters[j].Slot]
              = seen(j, counters[j].Slot)
        BY <3>2, <4>1 DEF seen
      <4> QED
        BY <4>1, <4>2 DEF seen
    <3> QED
      BY <2>1, <3>1, <3>2, <3>3 DEF ExactInv, CountExact, CountExactOf
  <2> QED
    BY <2>6, <2>7, <2>8 DEF CountIsSeen, CountExact
<1>5. ASSUME NEW k \in Keys, Delete(k) PROVE CountIsSeen' /\ CountExact'
  <2>1. CountIsSeen'
    BY <1>1, <1>5 DEF Delete, Without
  <2>2. Debt(k)' # 0
    BY <1>0, <1>5 DEF Delete, Debt, TypeOK
  <2>3. ASSUME NEW j \in Keys, j # k PROVE CountExactOf(j)'
    <3>1. /\ Debt(j)' = Debt(j) /\ now' = now /\ granted' = granted /\ refused' = refused
          /\ j \in DOMAIN counters' <=> j \in DOMAIN counters
          /\ j \in DOMAIN counters => counters'[j] = counters[j]
      BY <1>0, <1>5, <2>3 DEF Delete, Debt, TypeOK, Without
    <3> QED
      BY <3>1 DEF ExactInv, CountExact, CountExactOf, seen
  <2> QED
    BY <2>1, <2>2, <2>3 DEF CountExact, CountExactOf
<1>6. ASSUME NEW k \in Keys, NEW t \in 0..now, DeleteIfInactive(k, t)
      PROVE  CountIsSeen' /\ CountExact'
  <2>1. CountIsSeen'
    BY <1>1, <1>6 DEF DeleteIfInactive, Without
  <2>2. /\ now' = now /\ granted' = granted /\ refused' = refused
        /\ \A j \in Keys : Debt(j)' = Debt(j)
        /\ k \in DOMAIN counters /\ k \notin DOMAIN counters'
    BY <1>6 DEF DeleteIfInactive, Debt, Without
  <2>3. CountExactOf(k)'
    <3>1. counters[k].Slot \in Nat /\ counters[k].Slot < SlotOf(now) /\ SlotOf(now) \in Nat
      BY <1>0, <1>6, InactiveIsPast
    <3>2. \A x \in Slots : x \in Nat
      BY <1>0, SeenTypes DEF Slots
    <3>3. Debt(k) = 0 => \A x \in Slots : x >= SlotOf(now) => seen(k, x) = 0
      BY <2>2, <3>1, <3>2 DEF ExactInv, CountExact, CountExactOf
    <3> QED
      BY <2>2, <3>3 DEF CountExactOf, seen
  <2>4. ASSUME NEW j \in Keys, j # k PROVE CountExactOf(j)'
    <3>1. /\ j \in DOMAIN counters' <=> j \in DOMAIN counters
          /\ j \in DOMAIN counters => counters'[j] = counters[j]
      BY <1>6, <2>4 DEF DeleteIfInactive, Without
    <3> QED
      BY <2>2, <3>1 DEF ExactInv, CountExact, CountExactOf, seen
  <2> QED
    BY <2>1, <2>3, <2>4 DEF CountExact
<1>7. CASE UNCHANGED vars
  BY <1>7 DEF vars, ExactInv, CountIsSeen, CountExact, CountExactOf, Debt, seen
<1> QED
  BY <1>2, <1>3, <1>4, <1>5, <1>6, <1>7 DEF Next

\* Initially nothing has been seen.
LEMMA ExactInit == Init => ExactInv
<1> SUFFICES ASSUME Init PROVE ExactInv
  OBVIOUS
<1>1. BudgetInv
  BY BudgetInit
<1>2. DOMAIN counters = {} /\ \A k \in Keys, x \in Slots : seen(k, x) = 0
  BY DEF Init, seen
<1> QED
  BY <1>1, <1>2 DEF ExactInv, CountIsSeen, CountExact, CountExactOf

\* The counts are exact in every reachable state.
LEMMA ExactHolds == Spec => []ExactInv
<1>1. ExactInv /\ [Next]_vars => ExactInv'
  <2> SUFFICES ASSUME ExactInv, [Next]_vars PROVE ExactInv'
    OBVIOUS
  <2>1. BudgetInv'
    BY BudgetNext DEF ExactInv
  <2> QED
    BY <2>1, ExactNext DEF ExactInv
<1> QED
  BY <1>1, ExactInit, PTL DEF Spec

-----------------------------------------------------------------------------
(* Refinement.                                                              *)

\* The refinement mapping of disturbed.
disturbedBar == [k \in Keys |-> late[k] + dropped[k] > 0]

\* A key is disturbed once it has a debt.
LEMMA DisturbedBar ==
  ASSUME TypeOK
  PROVE  \A k \in Keys : disturbedBar[k] = (Debt(k) > 0) /\ disturbedBar[k] \in BOOLEAN
  BY DEF disturbedBar, Debt

\* Only k's debt may change: disturbed changes for k at most, and to TRUE.
LEMMA DisturbingStep ==
  ASSUME TypeOK, TypeOK', NEW k \in Keys,
         \A j \in Keys : j # k => Debt(j)' = Debt(j),
         Debt(k)' >= Debt(k)
  PROVE  Limiter!Disturbing(k) /\ (disturbedBar'[k] <=> Debt(k)' > 0)
<1>1. Debt(k) \in Nat /\ Debt(k)' \in Nat
  BY DEF TypeOK, Debt
<1>2. \A j \in Keys : disturbedBar'[j] = (Debt(j)' > 0)
  BY DEF disturbedBar, Debt
<1>3. \A j \in Keys : disturbedBar[j] = (Debt(j) > 0)
  BY DEF disturbedBar, Debt
<1>4. DOMAIN disturbedBar = Keys /\ DOMAIN disturbedBar' = Keys
  BY DEF disturbedBar
<1>5. CASE Debt(k)' > 0
  <2>1. disturbedBar' = [disturbedBar EXCEPT ![k] = TRUE]
    <3>1. disturbedBar' = [j \in Keys |-> Debt(j)' > 0]
      BY DEF disturbedBar, Debt
    <3>2. [disturbedBar EXCEPT ![k] = TRUE] = [j \in Keys |-> IF j = k THEN TRUE ELSE disturbedBar[j]]
      BY <1>4
    <3>3. ASSUME NEW j \in Keys
          PROVE  (Debt(j)' > 0) = (IF j = k THEN TRUE ELSE disturbedBar[j])
      <4>1. CASE j = k
        BY <1>5, <4>1
      <4>2. CASE j # k
        BY <1>3, <4>2
      <4> QED
        BY <4>1, <4>2
    <3> QED
      BY <3>1, <3>2, <3>3
  <2> QED
    BY <1>2, <1>5, <2>1 DEF Limiter!Disturbing, disturbedBar
<1>6. CASE ~(Debt(k)' > 0)
  <2>1. \A j \in Keys : Debt(j)' = Debt(j)
    BY <1>1, <1>6
  <2>2. disturbedBar' = disturbedBar
    BY <2>1 DEF disturbedBar, Debt
  <2> QED
    BY <1>2, <2>2 DEF Limiter!Disturbing, disturbedBar
<1> QED
  BY <1>5, <1>6

\* Every step of the map is a step of the fixed-window limiter or changes
\* nothing that it promises anything about.
LEMMA RefinesNext ==
  ASSUME NoOverflow, ExactInv, ExactInv', [Next]_vars
  PROVE  [Limiter!Next]_(Limiter!fwVars)
<1>0. TypeOK /\ TypeOK'
  BY DEF ExactInv, BudgetInv
<1>1. ASSUME UNCHANGED <<granted, refused, late, dropped>>
      PROVE  UNCHANGED Limiter!fwVars
  BY <1>1 DEF Limiter!fwVars
<1>2. CASE Tick \/ UNCHANGED vars
  BY <1>1, <1>2 DEF Tick, vars
<1>3. ASSUME NEW p \in Procs, NEW k \in Keys, NEW limit \in Limits, Call(p, k, limit)
      PROVE  UNCHANGED Limiter!fwVars
  BY <1>1, <1>3 DEF Call
<1>4. ASSUME NEW k \in Keys, NEW t \in 0..now, DeleteIfInactive(k, t)
      PROVE  UNCHANGED Limiter!fwVars
  BY <1>1, <1>4 DEF DeleteIfInactive
<1>5. ASSUME NEW k \in Keys, Delete(k) PROVE Limiter!Next
  <2>1. /\ \A j \in Keys : j # k => Debt(j)' = Debt(j)
        /\ Debt(k)' = Debt(k) + 1 /\ Debt(k) \in Nat
        /\ granted' = granted /\ refused' = refused
    <3>1. late' = late /\ dropped' = [dropped EXCEPT ![k] = @ + 1]
      BY <1>5 DEF Delete
    <3>2. late \in [Keys -> Nat] /\ dropped \in [Keys -> Nat]
      BY <1>0 DEF TypeOK
    <3>3. granted' = granted /\ refused' = refused
      BY <1>5 DEF Delete
    <3> QED
      BY <3>1, <3>2, <3>3 DEF Debt
  <2>2. Limiter!Disturbing(k) /\ disturbedBar'[k]
    BY <1>0, <2>1, DisturbingStep
  <2>3. disturbedBar' = [disturbedBar EXCEPT ![k] = TRUE]
    <3>1. disturbedBar' \in {disturbedBar, [disturbedBar EXCEPT ![k] = TRUE]}
      BY <2>2 DEF Limiter!Disturbing, disturbedBar
    <3>2. disturbedBar' = disturbedBar => disturbedBar = [disturbedBar EXCEPT ![k] = TRUE]
      BY <2>2, <1>0, DisturbedBar DEF disturbedBar
    <3> QED
      BY <3>1, <3>2
  <2>4. Limiter!Disturb(k)
    BY <2>1, <2>3 DEF Limiter!Disturb, disturbedBar
  <2> QED
    BY <2>4 DEF Limiter!Next
<1>6. ASSUME NEW p \in Procs, RecordRequest(p) PROVE Limiter!Next
  <2>a. PICK k \in Keys, s \in Slots : k = calls[p].key /\ s = SlotOf(calls[p].time)
    BY <1>0, <1>6, RecordStep
  <2>b. PICK limit \in Limits : limit = calls[p].limit
    BY <1>0, <1>6, RecordStep
  <2> DEFINE n == counters'[k].WindowCount
  <2>2. /\ limit \in Int /\ Burst \in Int
        /\ Add64(limit, Burst) = limit + Burst
    <3>1. limit <= MaxLimit /\ limit \in Int /\ Burst \in Int /\ MaxLimit \in Int /\ MaxInt \in Int
      <4>1. limit <= MaxLimit /\ limit \in Int
        BY AddLimit
      <4>2. Burst \in Int /\ MaxLimit \in Int /\ MaxInt \in Int
        BY ConfigAssumption, LimitsAssumption
      <4> QED
        BY <4>1, <4>2
    <3> QED
      BY <3>1, AddLimit DEF NoOverflow
  <2>3. Limiter!Disturbing(k) /\ (disturbedBar'[k] <=> Debt(k)' > 0)
    <3>1. /\ \A j \in Keys : j # k => late'[j] = late[j]
          /\ late'[k] = IF s < SlotOf(now) THEN late[k] + 1 ELSE late[k]
          /\ dropped' = dropped
      BY <1>0, <1>6, <2>a, RecordEffect
    <3>2. /\ \A j \in Keys : j # k => Debt(j)' = Debt(j)
          /\ Debt(k)' >= Debt(k)
      BY <1>0, <3>1 DEF Debt, TypeOK
    <3> QED
      BY <1>0, <3>2, DisturbingStep
  <2>4. /\ seen(k, s) \in Nat /\ seen(k, s)' = seen(k, s) + 1 /\ Debt(k)' \in Nat
    <3>1. seen(k, s) \in Nat /\ Debt(k)' \in Nat
      BY <1>0, SeenTypes DEF Debt, TypeOK
    <3> QED
      BY <1>0, <1>6, <2>a, <3>1, SeenStep
  <2>5. n \in Nat /\ n <= seen(k, s) + 1
    <3>1. k \in DOMAIN counters' /\ counters'[k].Slot = s
      BY <1>0, <1>6, <2>a, RecordEffect
    <3>2. counters'[k].WindowCount <= seen(k, counters[k].Slot)'
      BY <3>1 DEF ExactInv, CountIsSeen
    <3>3. seen(k, counters[k].Slot)' = seen(k, s)'
      BY <3>1 DEF seen
    <3> QED
      BY <1>0, <2>4, <3>1, <3>2, <3>3 DEF TypeOK, Counters
  <2>6. Debt(k)' = 0 => n = seen(k, s) + 1
    BY <1>6, <2>a, UndisturbedRecord
  <2>7. IF Allowed(n, limit)
          THEN granted' = [granted EXCEPT ![k][s] = @ + 1] /\ refused' = refused
          ELSE refused' = [refused EXCEPT ![k][s] = @ + 1] /\ granted' = granted
    BY <1>0, <1>6, <2>a, <2>b, RecordEffect
  <2>8. Limiter!Within(k, s, limit) <=> seen(k, s) + 1 <= limit + Burst
    BY DEF Limiter!Within, seen
  <2> HIDE DEF n
  <2>9. CASE Allowed(n, limit)
    <3>1. n <= limit + Burst
      BY <2>2, <2>9 DEF Allowed
    <3>2. Limiter!Within(k, s, limit) \/ disturbedBar'[k]
      BY <2>2, <2>3, <2>4, <2>6, <2>8, <3>1
    <3>3. Limiter!Grant(k, s, limit)
      BY <2>3, <2>7, <2>9, <3>2 DEF Limiter!Grant, disturbedBar
    <3> QED
      BY <3>3 DEF Limiter!Next
  <2>10. CASE ~Allowed(n, limit)
    <3>1. ~(n <= limit + Burst)
      BY <2>2, <2>10 DEF Allowed
    <3>2. ~Limiter!Within(k, s, limit)
      BY <2>2, <2>4, <2>5, <2>8, <3>1
    <3>3. Limiter!Refuse(k, s, limit)
      BY <2>3, <2>7, <2>10, <3>2 DEF Limiter!Refuse
    <3> QED
      BY <3>3 DEF Limiter!Next
  <2> QED
    BY <2>9, <2>10
<1> QED
  BY <1>2, <1>3, <1>4, <1>5, <1>6 DEF Next

\* The initial states of the map are initial states of the limiter.
LEMMA RefinesInit == Init => Limiter!Init
<1> SUFFICES ASSUME Init PROVE Limiter!Init
  OBVIOUS
<1>1. \A k \in Keys : (late[k] + dropped[k] > 0) = FALSE
  BY DEF Init
<1>2. [k \in Keys |-> late[k] + dropped[k] > 0] = [k \in Keys |-> FALSE]
  BY <1>1
<1> QED
  BY <1>2 DEF Init, Limiter!Init, Limiter!Zero

\* Unless limit + burst overflows, the counter map with its clock readings
\* taken before the lock, its resets on a slot change and its removal of
\* inactive counters is a fixed-window limiter.
THEOREM ImplementsFixedWindow == ASSUME NoOverflow PROVE Spec => FixedWindowSpec
<1>1. ExactInv /\ ExactInv' /\ [Next]_vars => [Limiter!Next]_(Limiter!fwVars)
  BY RefinesNext
<1> QED
  BY <1>1, RefinesInit, ExactHolds, PTL DEF Spec, FixedWindowSpec, Limiter!Spec

-----------------------------------------------------------------------------
(* Hits.                                                                    *)

\* The closed slots of k's counter that saw more than n requests.
Above(k, n) ==
  {x \in SlotOf(counters[k].FirstRequest)..(counters[k].Slot - 1) : seen(k, x) > n}

HitsOf(k) ==
  Debt(k) = 0 =>
    /\ SlotOf(counters[k].FirstRequest) <= counters[k].Slot
    /\ Cardinality(Above(k, Threshold(MaxLimit))) <= counters[k].Hits
    /\ counters[k].Hits <= Cardinality(Above(k, Threshold(MinLimit)))

HitsBracketed == \A k \in DOMAIN counters : HitsOf(k)

HitsInv == ExactInv /\ HitsBracketed

\* The limits in use lie between the thresholds of the bracket.
LEMMA ThresholdBounds ==
  ASSUME NEW limit \in Limits
  PROVE  /\ Threshold(MinLimit) \in Int /\ Threshold(limit) \in Int /\ Threshold(MaxLimit) \in Nat
         /\ Threshold(MinLimit) <= Threshold(limit) /\ Threshold(limit) <= Threshold(MaxLimit)
<1>1. /\ MinLimit \in Int /\ MaxLimit \in Nat /\ limit \in Int
      /\ MinLimit <= limit /\ limit <= MaxLimit
  BY AddLimit, LimitsAssumption, ConfigAssumption DEF Int64
<1>2. Kind = "unknown" => AbuseThreshold \in Int
  BY ThresholdInt DEF Threshold
<1>3. Kind = "unknown" => AbuseThreshold \in Nat
  BY <1>2, BurstAssumption, ConfigAssumption DEF ValidBurst
<1> QED
  BY <1>1, <1>3, KindAssumption DEF Threshold

\* A set of closed slots is finite.
LEMMA AboveFinite ==
  ASSUME TypeOK, NEW k \in DOMAIN counters, NEW n
  PROVE  IsFiniteSet(Above(k, n)) /\ Cardinality(Above(k, n)) \in Nat
<1> DEFINE closed == SlotOf(counters[k].FirstRequest)..(counters[k].Slot - 1)
<1>1. SlotOf(counters[k].FirstRequest) \in Nat /\ counters[k].Slot \in Nat
  BY SlotNat DEF TypeOK, Counters
<1>2. IsFiniteSet(closed)
  BY <1>1, FS_Interval
<1>3. Above(k, n) \in SUBSET closed
  BY DEF Above
<1> QED
  BY <1>2, <1>3, FS_Subset, FS_CardinalityType

\* A counter that a step does not touch keeps its bracket.
LEMMA HitsKept ==
  ASSUME NEW k \in DOMAIN counters, HitsOf(k), counters'[k] = counters[k],
         granted'[k] = granted[k], refused'[k] = refused[k], Debt(k)' = Debt(k)
  PROVE  HitsOf(k)'
<1>1. ASSUME NEW n PROVE Above(k, n)' = Above(k, n)
  BY DEF Above, seen
<1> QED
  BY <1>1 DEF HitsOf

\* RecordRequest earns a hit exactly for the slot that it closes.
LEMMA HitsRecord ==
  ASSUME HitsInv, TypeOK', NEW p \in Procs, RecordRequest(p),
         NEW k \in Keys, k = calls[p].key, Debt(k)' = 0
  PROVE  HitsOf(k)'
<1>0. TypeOK /\ ExactInv
  BY DEF HitsInv, ExactInv, BudgetInv
<1>a. PICK s \in Slots : s = SlotOf(calls[p].time)
  BY <1>0, RecordStep
<1> DEFINE limit == calls[p].limit
           old == IF k \in DOMAIN counters THEN counters[k] ELSE NewCounter(calls[p].time)
<1>1. /\ s \in Nat /\ old \in Counters /\ limit \in Limits /\ calls[p].time \in Nat
      /\ k \notin DOMAIN counters => old.Slot = s /\ old.Hits = 0
  BY <1>0, <1>a, RecordStep
<1>2. /\ k \in DOMAIN counters'
      /\ counters'[k].Slot = s
      /\ counters'[k].Hits = IF s # old.Slot /\ old.WindowCount > Threshold(limit)
                               THEN old.Hits + 1 ELSE old.Hits
  BY <1>0, <1>a, RecordEffect
<1>3. counters'[k].FirstRequest = old.FirstRequest
  BY DEF RecordRequest, Recorded, Put
<1>4. /\ Debt(k) = 0
      /\ k \in DOMAIN counters => counters[k].Slot <= s
  BY <1>0, <1>a, UndisturbedRecord
<1>5. \A x \in Slots : /\ x \in Nat /\ seen(k, x) \in Nat
                       /\ x # s => seen(k, x)' = seen(k, x)
  <2>1. \A x \in Slots : x \in Nat /\ seen(k, x) \in Nat
    BY <1>0, SeenTypes
  <2>2. \A x \in Slots : x # s => seen(k, x)' = seen(k, x)
    BY <1>0, <1>a, SeenStep
  <2> QED
    BY <2>1, <2>2
<1>6. /\ Threshold(MinLimit) \in Int /\ Threshold(limit) \in Int /\ Threshold(MaxLimit) \in Nat
      /\ Threshold(MinLimit) <= Threshold(limit) /\ Threshold(limit) <= Threshold(MaxLimit)
  BY <1>1, ThresholdBounds
<1>7. \A n : Above(k, n)' = {x \in SlotOf(old.FirstRequest)..(s - 1) : seen(k, x)' > n}
  BY <1>2, <1>3 DEF Above, seen
<1>8. SlotOf(old.FirstRequest) \in Nat /\ old.Slot \in Nat /\ old.Hits \in Nat
      /\ old.WindowCount \in Nat
  BY <1>1, SlotNat DEF Counters
<1>9. \A x \in SlotOf(old.FirstRequest)..(s - 1) : x \in Slots /\ x # s
  <2>1. SlotOf(MaxNow) \in Nat
    BY BoundsAssumption, SlotNat
  <2>2. s <= SlotOf(MaxNow)
    BY <2>1 DEF Slots
  <2> QED
    BY <1>1, <1>8, <2>1, <2>2 DEF Slots
<1>10. \A n : Above(k, n)' = {x \in SlotOf(old.FirstRequest)..(s - 1) : seen(k, x) > n}
  <2>1. \A x \in SlotOf(old.FirstRequest)..(s - 1) : seen(k, x)' = seen(k, x)
    BY <1>5, <1>9
  <2> QED
    BY <1>7, <2>1
<1>11. CASE k \notin DOMAIN counters
  <2>1. SlotOf(old.FirstRequest) = s /\ counters'[k].Hits = 0
    BY <1>1, <1>2, <1>a, <1>11 DEF NewCounter
  <2>2. \A n : Above(k, n)' = {}
    BY <1>1, <1>10, <2>1
  <2>3. \A n : Cardinality(Above(k, n)') = 0
    BY <2>2, FS_EmptySet
  <2>4. SlotOf(counters'[k].FirstRequest) <= counters'[k].Slot
    BY <1>1, <1>2, <1>3, <2>1
  <2> QED
    BY <2>1, <2>3, <2>4 DEF HitsOf
<1>12. CASE k \in DOMAIN counters
  <2>0. old = counters[k] /\ old.Slot <= s
    BY <1>4, <1>12
  <2>1. /\ SlotOf(old.FirstRequest) <= old.Slot
        /\ Cardinality(Above(k, Threshold(MaxLimit))) <= old.Hits
        /\ old.Hits <= Cardinality(Above(k, Threshold(MinLimit)))
    BY <1>4, <1>12 DEF HitsInv, HitsBracketed, HitsOf
  <2>2. \A n : Above(k, n) = {x \in SlotOf(old.FirstRequest)..(old.Slot - 1) : seen(k, x) > n}
    BY <2>0 DEF Above
  <2> HIDE DEF old, limit
  <2>3. SlotOf(counters'[k].FirstRequest) <= counters'[k].Slot
    BY <1>1, <1>2, <1>3, <1>8, <2>0, <2>1
  <2>4. \A n : IsFiniteSet(Above(k, n)) /\ Cardinality(Above(k, n)) \in Nat
    BY <1>0, <1>12, AboveFinite
  <2>5. \A n : IsFiniteSet(Above(k, n)') /\ Cardinality(Above(k, n)') \in Nat
    <3>1. IsFiniteSet(SlotOf(old.FirstRequest)..(s - 1))
      BY <1>1, <1>8, FS_Interval
    <3>2. \A n : Above(k, n)' \in SUBSET (SlotOf(old.FirstRequest)..(s - 1))
      BY <1>10
    <3> QED
      BY <3>1, <3>2, FS_Subset, FS_CardinalityType
  <2>6. CASE s = old.Slot
    <3>1. \A n : Above(k, n)' = Above(k, n)
      BY <1>10, <2>2, <2>6
    <3> QED
      BY <1>2, <2>1, <2>3, <2>6, <3>1 DEF HitsOf
  <2>7. CASE s # old.Slot
    <3>0. old.Slot < s
      BY <1>1, <1>8, <2>0, <2>7
    <3>1. seen(k, old.Slot) = old.WindowCount /\ \A x \in Slots : x > old.Slot => seen(k, x) = 0
      BY <1>0, <1>4, <1>12, <2>0 DEF ExactInv, CountExact, CountExactOf
    <3>2. ASSUME NEW n
          PROVE  /\ Above(k, n) \subseteq Above(k, n)'
                 /\ old.WindowCount > n => old.Slot \in Above(k, n)'
                 /\ old.Slot \notin Above(k, n)
      BY <1>1, <1>8, <1>10, <2>1, <2>2, <3>0, <3>1
    <3>3. ASSUME NEW n \in Nat
          PROVE  Above(k, n)' \subseteq
                   IF old.WindowCount > n THEN Above(k, n) \cup {old.Slot} ELSE Above(k, n)
      <4> SUFFICES ASSUME NEW x \in SlotOf(old.FirstRequest)..(s - 1), seen(k, x) > n
                   PROVE  x \in Above(k, n) \/ (x = old.Slot /\ old.WindowCount > n)
        BY <1>10
      <4>1. x \in Slots /\ x \in Nat
        BY <1>5, <1>9
      <4>2. CASE x > old.Slot
        BY <3>1, <4>1, <4>2
      <4>3. CASE x = old.Slot
        BY <3>1, <4>3
      <4>4. CASE x < old.Slot
        BY <1>8, <2>2, <4>1, <4>4
      <4> QED
        BY <1>8, <4>1, <4>2, <4>3, <4>4
    <3>4. \A n : old.WindowCount > n => Cardinality(Above(k, n)') >= Cardinality(Above(k, n)) + 1
      <4> SUFFICES ASSUME NEW n, old.WindowCount > n
                   PROVE  Cardinality(Above(k, n)') >= Cardinality(Above(k, n)) + 1
        OBVIOUS
      <4>1. Cardinality(Above(k, n) \cup {old.Slot}) = Cardinality(Above(k, n)) + 1
        BY <2>4, <3>2, FS_AddElement
      <4>2. Above(k, n) \cup {old.Slot} \in SUBSET (Above(k, n)')
        BY <3>2
      <4>3. Cardinality(Above(k, n) \cup {old.Slot}) <= Cardinality(Above(k, n)')
        BY <2>5, <4>2, FS_Subset
      <4> QED
        BY <2>4, <2>5, <4>1, <4>3
    <3>5. \A n : Cardinality(Above(k, n)') >= Cardinality(Above(k, n))
      <4> SUFFICES ASSUME NEW n
                   PROVE  Cardinality(Above(k, n)') >= Cardinality(Above(k, n))
        OBVIOUS
      <4>1. Cardinality(Above(k, n)) <= Cardinality(Above(k, n)')
        BY <2>5, <3>2, FS_Subset
      <4> QED
        BY <2>4, <2>5, <4>1
    <3>6. \A n \in Nat : Cardinality(Above(k, n)') <= Cardinality(Above(k, n)) + 1
      <4> SUFFICES ASSUME NEW n \in Nat
                   PROVE  Cardinality(Above(k, n)') <= Cardinality(Above(k, n)) + 1
        OBVIOUS
      <4>1. /\ IsFiniteSet(Above(k, n) \cup {old.Slot})
            /\ Cardinality(Above(k, n) \cup {old.Slot}) = Cardinality(Above(k, n)) + 1
        BY <2>4, <3>2, FS_AddElement
      <4>2. Above(k, n)' \in SUBSET (Above(k, n) \cup {old.Slot})
        BY <3>3
      <4> QED
        BY <4>1, <4>2, FS_Subset
    <3>7. \A n \in Nat : ~(old.WindowCount > n) =>
            Cardinality(Above(k, n)') <= Cardinality(Above(k, n))
      <4> SUFFICES ASSUME NEW n \in Nat, ~(old.WindowCount > n)
                   PROVE  Cardinality(Above(k, n)') <= Cardinality(Above(k, n))
        OBVIOUS
      <4>1. Above(k, n)' \in SUBSET Above(k, n)
        BY <3>3
      <4> QED
        BY <2>4, <4>1, FS_Subset
    <3> DEFINE lo == Threshold(MaxLimit)
               hi == Threshold(MinLimit)
    <3>8. /\ Cardinality(Above(k, lo)') \in Nat /\ Cardinality(Above(k, hi)') \in Nat
          /\ Cardinality(Above(k, lo)) \in Nat /\ Cardinality(Above(k, hi)) \in Nat
      BY <2>4, <2>5
    <3> HIDE DEF lo, hi
    <3>9. CASE old.WindowCount > Threshold(limit)
      <4>1. counters'[k].Hits = old.Hits + 1 /\ old.WindowCount > hi
        BY <1>2, <1>6, <1>8, <2>7, <3>9 DEF hi
      <4>2. Cardinality(Above(k, lo)') <= counters'[k].Hits
        BY <1>6, <1>8, <2>1, <3>6, <3>8, <4>1 DEF lo
      <4>3. counters'[k].Hits <= Cardinality(Above(k, hi)')
        BY <1>8, <2>1, <3>4, <3>8, <4>1 DEF hi
      <4> QED
        BY <2>3, <4>2, <4>3 DEF HitsOf, lo, hi
    <3>10. CASE ~(old.WindowCount > Threshold(limit))
      <4>1. counters'[k].Hits = old.Hits /\ ~(old.WindowCount > lo)
        BY <1>2, <1>6, <1>8, <3>10 DEF lo
      <4>2. Cardinality(Above(k, lo)') <= counters'[k].Hits
        BY <1>6, <1>8, <2>1, <3>7, <3>8, <4>1 DEF lo
      <4>3. counters'[k].Hits <= Cardinality(Above(k, hi)')
        BY <1>8, <2>1, <3>5, <3>8, <4>1 DEF hi
      <4> QED
        BY <2>3, <4>2, <4>3 DEF HitsOf, lo, hi
    <3> QED
      BY <3>9, <3>10
  <2> QED
    BY <2>6, <2>7
<1> QED
  BY <1>11, <1>12

\* Every step keeps the hits within their bracket.
LEMMA HitsNext ==
  ASSUME HitsInv, ExactInv', [Next]_vars
  PROVE  HitsBracketed'
<1>0. TypeOK /\ TypeOK' /\ ExactInv
  BY DEF HitsInv, ExactInv, BudgetInv
<1>1. ASSUME granted' = granted, refused' = refused, late' = late,
             DOMAIN counters' \subseteq DOMAIN counters,
             \A k \in DOMAIN counters' : counters'[k] = counters[k] /\ dropped'[k] = dropped[k]
      PROVE  HitsBracketed'
  <2> SUFFICES ASSUME NEW k \in DOMAIN counters' PROVE HitsOf(k)'
    BY DEF HitsBracketed
  <2>1. k \in DOMAIN counters /\ HitsOf(k) /\ Debt(k)' = Debt(k)
    BY <1>1 DEF HitsInv, HitsBracketed, Debt
  <2> QED
    BY <1>1, <2>1, HitsKept
<1>2. CASE Tick \/ UNCHANGED vars
  BY <1>1, <1>2 DEF Tick, vars
<1>3. ASSUME NEW p \in Procs, NEW k \in Keys, NEW limit \in Limits, Call(p, k, limit)
      PROVE  HitsBracketed'
  BY <1>1, <1>3 DEF Call
<1>4. ASSUME NEW k \in Keys, Delete(k) PROVE HitsBracketed'
  BY <1>0, <1>1, <1>4 DEF Delete, Without, TypeOK
<1>5. ASSUME NEW k \in Keys, NEW t \in 0..now, DeleteIfInactive(k, t) PROVE HitsBracketed'
  BY <1>1, <1>5 DEF DeleteIfInactive, Without
<1>6. ASSUME NEW p \in Procs, RecordRequest(p) PROVE HitsBracketed'
  <2>a. PICK k \in Keys, s \in Slots : k = calls[p].key /\ s = SlotOf(calls[p].time)
    BY <1>0, <1>6, RecordStep
  <2> SUFFICES ASSUME NEW j \in DOMAIN counters' PROVE HitsOf(j)'
    BY DEF HitsBracketed
  <2>1. CASE j = k
    <3>1. CASE Debt(k)' = 0
      BY <1>0, <1>6, <2>1, <2>a, <3>1, HitsRecord
    <3>2. CASE Debt(k)' # 0
      BY <2>1, <3>2 DEF HitsOf
    <3> QED
      BY <3>1, <3>2
  <2>2. CASE j # k
    <3>1. /\ DOMAIN counters' = DOMAIN counters \cup {k}
          /\ \A i \in DOMAIN counters : i # k => counters'[i] = counters[i]
          /\ \A i \in Keys : i # k => late'[i] = late[i]
          /\ dropped' = dropped
          /\ \/ granted' = [granted EXCEPT ![k][s] = @ + 1] /\ refused' = refused
             \/ refused' = [refused EXCEPT ![k][s] = @ + 1] /\ granted' = granted
      BY <1>0, <1>6, <2>a, RecordEffect
    <3>2. j \in DOMAIN counters /\ j \in Keys /\ HitsOf(j)
      BY <1>0, <2>2, <3>1 DEF TypeOK, HitsInv, HitsBracketed
    <3>3. granted'[j] = granted[j] /\ refused'[j] = refused[j]
      BY <1>0, <2>2, <3>1, <3>2 DEF TypeOK
    <3>4. counters'[j] = counters[j] /\ Debt(j)' = Debt(j)
      BY <2>2, <3>1, <3>2 DEF Debt
    <3> QED
      BY <3>2, <3>3, <3>4, HitsKept
  <2> QED
    BY <2>1, <2>2
<1> QED
  BY <1>2, <1>3, <1>4, <1>5, <1>6 DEF Next

\* The violation and abuse hits of an undisturbed counter are the closed slots,
\* since it exists, whose traffic exceeded the threshold: no reset, empty slot
\* or collection adds or loses one.
THEOREM HitsExactHolds == Spec => []HitsExact
<1>1. Init => HitsInv
  <2> SUFFICES ASSUME Init PROVE HitsInv
    OBVIOUS
  <2>1. ExactInv /\ DOMAIN counters = {}
    BY ExactInit DEF Init
  <2> QED
    BY <2>1 DEF HitsInv, HitsBracketed
<1>2. HitsInv /\ [Next]_vars => HitsInv'
  <2> SUFFICES ASSUME HitsInv, [Next]_vars PROVE HitsInv'
    OBVIOUS
  <2>1. ExactInv'
    <3>1. BudgetInv'
      BY BudgetNext DEF HitsInv, ExactInv
    <3> QED
      BY <3>1, ExactNext DEF HitsInv, ExactInv
  <2> QED
    BY <2>1, HitsNext DEF HitsInv
<1>3. HitsInv => HitsExact
  <2> SUFFICES ASSUME HitsInv, NEW k \in DOMAIN counters, late[k] = 0, dropped[k] = 0
               PROVE  counters[k].Hits \in Cardinality(Above(k, Threshold(MaxLimit)))
                                           ..Cardinality(Above(k, Threshold(MinLimit)))
    BY DEF HitsExact, Above
  <2>1. TypeOK /\ counters[k].Hits \in Nat
    BY DEF HitsInv, ExactInv, BudgetInv, TypeOK, Counters
  <2>2. /\ Cardinality(Above(k, Threshold(MaxLimit))) \in Nat
        /\ Cardinality(Above(k, Threshold(MinLimit))) \in Nat
    BY <2>1, AboveFinite
  <2>3. HitsOf(k) /\ Debt(k) = 0
    BY DEF HitsInv, HitsBracketed, Debt
  <2> QED
    BY <2>1, <2>2, <2>3 DEF HitsOf
<1> QED
  BY <1>1, <1>2, <1>3, PTL DEF Spec
=============================================================================
