------------------------ MODULE AbuseTransferProofs ------------------------
(***************************************************************************)
(* How late the abuse lists may be: type correctness of AbuseTransfer and  *)
(* the bound on the age of an abuser that Redis does not list, for every   *)
(* interval, TTL, cycle time and number of failures, removals and crashes. *)
(***************************************************************************)
EXTENDS AbuseTransfer, Integers, TLAPS

Steps == {"idle", "known", "unknown", "forget"}
Snaps == [id : Ids, abuser : BOOLEAN]
Todos == SUBSET Snaps
Curs  == Ids \cup {Nobody}
Cycles == [step : Steps, elapsed : 0..CycleTime, redisUp : BOOLEAN, todo : Todos, cur : Curs]

FlagsOK == /\ up \in BOOLEAN /\ pending \in BOOLEAN /\ healthy \in BOOLEAN
           /\ timer \in 1..Interval /\ failures \in Nat
MemOK == DOMAIN mem \subseteq Ids /\ \A id \in DOMAIN mem : mem[id] \in Counters
RecOK == DOMAIN rec \subseteq Ids /\ \A id \in DOMAIN rec : rec[id] \in 0..Ttl

TypeInv == FlagsOK /\ MemOK /\ RecOK /\ cycle \in Cycles
-----------------------------------------------------------------------------
\* Bounds are natural numbers.
LEMMA BoundsNat == MaxIdle \in Nat /\ MaxAge \in Nat /\ Interval \in Nat /\ Ttl \in Nat
  BY TransferAssumption DEF MaxIdle, MaxAge

\* A time unit makes a counter at most one older; one that is no abuser's
\* does not age.
LEMMA OlderFacts ==
  ASSUME NEW c \in Counters
  PROVE  /\ Older(c) \in Counters
         /\ Older(c).abuser = c.abuser
         /\ Older(c).since <= c.since + 1
         /\ ~c.abuser => Older(c).since = 0
<1>1. /\ c.idle \in 0..MaxIdle /\ c.since \in 0..MaxAge /\ c.abuser \in BOOLEAN
  BY DEF Counters
<1> DEFINE i == Capped(c.idle + 1, MaxIdle)
           s == IF c.abuser THEN Capped(c.since + 1, MaxAge) ELSE 0
<1>2. i \in 0..MaxIdle
  BY <1>1, BoundsNat DEF Capped
<1>3. s \in 0..MaxAge /\ s <= c.since + 1 /\ (~c.abuser => s = 0)
  BY <1>1, BoundsNat DEF Capped
<1>4. Older(c) = [c EXCEPT !.idle = i, !.since = s]
  BY DEF Older
<1> HIDE DEF i, s
<1> QED
  BY <1>2, <1>3, <1>4 DEF Counters

\* A failure or a removal starts the clock of every counter anew.
LEMMA DisturbedFacts ==
  ASSUME MemOK
  PROVE  /\ DOMAIN Disturbed = DOMAIN mem
         /\ \A id \in DOMAIN mem : /\ Disturbed[id] \in Counters
                                   /\ Disturbed[id].abuser = mem[id].abuser
                                   /\ Disturbed[id].since = 0
<1>1. ASSUME NEW c \in Counters
      PROVE  [c EXCEPT !.since = 0] \in Counters /\ [c EXCEPT !.since = 0].abuser = c.abuser
             /\ [c EXCEPT !.since = 0].since = 0
  BY BoundsNat DEF Counters
<1> QED
  BY <1>1 DEF Disturbed, MemOK

\* A record lives one time unit less, the last one ends it.
LEMMA ExpiredFacts ==
  ASSUME RecOK
  PROVE  /\ DOMAIN Expired = {id \in DOMAIN rec : rec[id] # 1}
         /\ \A id \in DOMAIN Expired : /\ Expired[id] \in 0..Ttl
                                       /\ Expired[id] = IF rec[id] = 0 THEN 0 ELSE rec[id] - 1
<1>1. DOMAIN Expired = {id \in DOMAIN rec : rec[id] # 1}
  BY DEF Expired, Without, Restrict
<1>2. ASSUME NEW id \in DOMAIN Expired
      PROVE  Expired[id] = IF rec[id] = 0 THEN 0 ELSE rec[id] - 1
  BY <1>1 DEF Expired, Without, Restrict, NoTtl
<1>3. ASSUME NEW id \in DOMAIN Expired PROVE Expired[id] \in 0..Ttl
  <2>1. rec[id] \in 0..Ttl
    BY <1>1 DEF RecOK
  <2> QED
    BY <1>2, <2>1, BoundsNat
<1> QED
  BY <1>1, <1>2, <1>3

\* Put and Without on a map.
LEMMA PutFacts ==
  ASSUME NEW f, NEW id, NEW v
  PROVE  /\ DOMAIN Put(f, id, v) = DOMAIN f \cup {id} /\ Put(f, id, v)[id] = v
         /\ \A j \in DOMAIN f : j # id => Put(f, id, v)[j] = f[j]
  BY DEF Put

\* What is left of a map without some of its keys.
LEMMA WithoutFacts ==
  ASSUME NEW f, NEW S
  PROVE  /\ DOMAIN Without(f, S) = DOMAIN f \ S
         /\ \A j \in DOMAIN f \ S : Without(f, S)[j] = f[j]
  BY DEF Without, Restrict

\* The cycle that is not running.
LEMMA IdleCycle ==
  /\ Idle \in Cycles /\ Idle.step = "idle" /\ Idle.elapsed = 0 /\ Idle.todo = {}
<1>1. "idle" \in Steps /\ 0 \in 0..CycleTime /\ {} \in Todos /\ Nobody \in Curs
  BY TransferAssumption DEF Steps, Todos, Curs
<1> QED
  BY <1>1 DEF Idle, Cycles

\* An operation of the store clears the flag only by a counted failure.
LEMMA OpFacts ==
  ASSUME failures \in Nat, Succeeds \/ Fails
  PROVE  /\ healthy' \in BOOLEAN /\ failures' \in Nat
         /\ failures' = 0 => failures = 0
         /\ Succeeds => healthy' = TRUE /\ failures' = failures
         /\ Fails => failures' # 0
<1>1. healthy' \in BOOLEAN
  BY Zenon DEF Succeeds, Fails
<1>2. CASE Succeeds
  <2>1. healthy' = TRUE /\ failures' = failures
    BY <1>2 DEF Succeeds
  <2>2. ~Fails
    BY <2>1, Zenon DEF Fails
  <2> QED
    BY <1>1, <2>1, <2>2
<1>3. CASE Fails
  <2>1. failures' = failures + 1
    BY <1>3 DEF Fails
  <2>2. ~Succeeds
    BY <1>3, Zenon DEF Fails, Succeeds
  <2> QED
    BY <1>1, <2>1, <2>2
<1> QED
  BY <1>2, <1>3
-----------------------------------------------------------------------------
(* What each step of a cycle does to its state.                             *)

\* A cycle starts with the tick that waited, at age 0.
LEMMA RunStartEffect ==
  ASSUME TypeInv, RunStart
  PROVE  /\ cycle' \in Cycles /\ cycle.step = "idle" /\ pending /\ up
         /\ cycle'.step = "known" /\ cycle'.elapsed = 0
<1>1. "known" \in Steps
  BY DEF Steps
<1> QED
  BY <1>1, IdleCycle DEF RunStart, Cycles

\* runUnknown reads the flag once, and its snapshot names every abuser.
LEMMA UnknownStartEffect ==
  ASSUME TypeInv, UnknownStart
  PROVE  /\ cycle' \in Cycles /\ cycle.step = "known"
         /\ cycle'.step = "unknown" /\ cycle'.elapsed = cycle.elapsed
         /\ cycle'.redisUp = healthy
         /\ \A id \in DOMAIN mem :
              mem[id].abuser => [id |-> id, abuser |-> TRUE] \in cycle'.todo
<1> DEFINE snap == {[id |-> id, abuser |-> mem[id].abuser] : id \in DOMAIN mem}
<1>1. snap \in Todos
  BY DEF TypeInv, MemOK, Counters, Todos, Snaps
<1>2. ASSUME NEW id \in DOMAIN mem, mem[id].abuser
      PROVE  [id |-> id, abuser |-> TRUE] \in snap
  <2>1. mem[id].abuser = TRUE
    BY <1>2, Zenon DEF TypeInv, MemOK, Counters
  <2> QED
    BY <2>1
<1>3. cycle' = [cycle EXCEPT !.step = "unknown", !.redisUp = healthy, !.todo = snap]
      /\ cycle.step = "known"
  BY DEF UnknownStart
<1>4. "unknown" \in Steps
  BY DEF Steps
<1> HIDE DEF snap
<1>5. cycle' \in Cycles
  BY <1>1, <1>3, <1>4 DEF Cycles, TypeInv, FlagsOK
<1>6. /\ cycle'.step = "unknown" /\ cycle'.elapsed = cycle.elapsed
      /\ cycle'.redisUp = healthy /\ cycle'.todo = snap
  BY <1>3 DEF Cycles, TypeInv
<1> QED
  BY <1>2, <1>3, <1>5, <1>6

\* A transfer writes the record with a full TTL, or fails and is counted.
LEMMA TransferEffect ==
  ASSUME TypeInv, Transfer
  PROVE  /\ cycle' \in Cycles /\ cycle.step = "unknown" /\ cycle.redisUp
         /\ cycle'.step = "forget" /\ cycle'.elapsed = cycle.elapsed
         /\ cycle'.redisUp = cycle.redisUp
         /\ \E id \in Ids :
              /\ cycle'.todo = cycle.todo \ {[id |-> id, abuser |-> TRUE]}
              /\ \/ Succeeds /\ rec' = Put(rec, id, Ttl) /\ mem' = mem
                 \/ Fails /\ rec' \in {rec, Put(rec, id, Ttl)} /\ mem' = Disturbed
<1>1. PICK s \in cycle.todo :
       /\ s.abuser
       /\ cycle' = [cycle EXCEPT !.todo = @ \ {s}, !.step = "forget", !.cur = s.id]
       /\ \/ Succeeds /\ rec' = Written(s.id) /\ UNCHANGED mem
          \/ Fails /\ rec' \in {rec, Written(s.id)} /\ mem' = Disturbed
  BY DEF Transfer
<1>2. s \in Snaps /\ cycle.todo \in Todos /\ cycle.step = "unknown" /\ cycle.redisUp
  BY <1>1 DEF Transfer, TypeInv, Cycles, Todos
<1>3. PICK id \in Ids : id = s.id
  BY <1>2 DEF Snaps
<1>4. s = [id |-> id, abuser |-> TRUE]
  <2>1. s.abuser = TRUE
    BY <1>1, <1>2, Zenon DEF Snaps
  <2> QED
    BY <1>2, <1>3, <2>1 DEF Snaps
<1>5. "forget" \in Steps /\ id \in Curs /\ cycle.todo \ {s} \in Todos
  BY <1>2 DEF Steps, Curs, Todos
<1>6. cycle' = [cycle EXCEPT !.todo = @ \ {s}, !.step = "forget", !.cur = id]
  BY <1>1, <1>3
<1>7. cycle' \in Cycles
  BY <1>5, <1>6 DEF TypeInv, Cycles
<1>8. /\ cycle'.step = "forget" /\ cycle'.elapsed = cycle.elapsed
      /\ cycle'.redisUp = cycle.redisUp /\ cycle'.todo = cycle.todo \ {s}
  BY <1>6 DEF TypeInv, Cycles
<1>9. \/ Succeeds /\ rec' = Put(rec, id, Ttl) /\ mem' = mem
      \/ Fails /\ rec' \in {rec, Put(rec, id, Ttl)} /\ mem' = Disturbed
  BY <1>1, <1>3 DEF Written
<1> QED
  BY <1>2, <1>4, <1>7, <1>8, <1>9

\* DeleteIfInactive removes at most one counter.
LEMMA CollectedFacts ==
  ASSUME NEW id, NEW m, m = Collected(id)
  PROVE  DOMAIN m \subseteq DOMAIN mem /\ \A j \in DOMAIN m : m[j] = mem[j]
  BY DEF Collected, Without, Restrict

\* After the transfer the counter may be collected; the rest stays.
LEMMA ForgetEffect ==
  ASSUME TypeInv, Forget
  PROVE  /\ cycle' \in Cycles /\ cycle.step = "forget"
         /\ cycle'.step = "unknown" /\ cycle'.elapsed = cycle.elapsed
         /\ cycle'.redisUp = cycle.redisUp /\ cycle'.todo = cycle.todo
         /\ DOMAIN mem' \subseteq DOMAIN mem /\ \A j \in DOMAIN mem' : mem'[j] = mem[j]
<1>1. "unknown" \in Steps /\ Nobody \in Curs
  BY DEF Steps, Curs
<1>2. cycle' = [cycle EXCEPT !.step = "unknown", !.cur = Nobody] /\ cycle.step = "forget"
  BY DEF Forget
<1>3. cycle' \in Cycles /\ cycle'.step = "unknown" /\ cycle'.elapsed = cycle.elapsed
      /\ cycle'.redisUp = cycle.redisUp /\ cycle'.todo = cycle.todo
  BY <1>1, <1>2 DEF Cycles, TypeInv
<1>4. mem' = Collected(cycle.cur)
  BY DEF Forget
<1> QED
  BY <1>2, <1>3, <1>4, CollectedFacts

\* A counter that is not transferred may be collected; the rest stays.
LEMMA SkipEffect ==
  ASSUME TypeInv, Skip
  PROVE  /\ cycle' \in Cycles /\ cycle.step = "unknown"
         /\ cycle'.step = "unknown" /\ cycle'.elapsed = cycle.elapsed
         /\ cycle'.redisUp = cycle.redisUp
         /\ DOMAIN mem' \subseteq DOMAIN mem /\ \A j \in DOMAIN mem' : mem'[j] = mem[j]
         /\ \E s \in cycle.todo : /\ ~(s.abuser /\ cycle.redisUp)
                                  /\ cycle'.todo = cycle.todo \ {s}
<1>1. PICK s \in cycle.todo : /\ ~(s.abuser /\ cycle.redisUp)
                              /\ mem' = Collected(s.id)
                              /\ cycle' = [cycle EXCEPT !.todo = @ \ {s}]
  BY DEF Skip
<1>2. cycle.step = "unknown" /\ cycle.todo \ {s} \in Todos
  BY DEF Skip, TypeInv, Cycles, Todos
<1>3. cycle' \in Cycles /\ cycle'.step = "unknown" /\ cycle'.elapsed = cycle.elapsed
      /\ cycle'.redisUp = cycle.redisUp /\ cycle'.todo = cycle.todo \ {s}
  BY <1>1, <1>2 DEF Cycles, TypeInv
<1>4. DOMAIN mem' \subseteq DOMAIN mem /\ \A j \in DOMAIN mem' : mem'[j] = mem[j]
  BY <1>1, CollectedFacts
<1> QED
  BY <1>1, <1>2, <1>3, <1>4

\* Time: the ticker fires when its countdown ends, and a cycle gets older.
LEMMA TickEffect ==
  ASSUME TypeInv, Tick
  PROVE  /\ cycle' \in Cycles /\ cycle'.step = cycle.step
         /\ cycle'.redisUp = cycle.redisUp /\ cycle'.todo = cycle.todo
         /\ cycle.elapsed < CycleTime
         /\ cycle.step = "idle" => cycle'.elapsed = cycle.elapsed
         /\ cycle.step # "idle" => cycle'.elapsed = cycle.elapsed + 1
         /\ timer' \in 1..Interval /\ pending' \in BOOLEAN
         /\ ~(up /\ pending /\ cycle.step = "idle")
         /\ up /\ timer = 1 => timer' = Interval /\ pending'
         /\ up /\ timer # 1 => timer' = timer - 1 /\ pending' = pending
         /\ ~up => timer' = timer /\ pending' = pending
<1>1. cycle.elapsed \in 0..CycleTime /\ cycle.elapsed < CycleTime
  BY DEF Tick, TypeInv, Cycles
<1>2. cycle.elapsed + 1 \in 0..CycleTime
  BY <1>1, TransferAssumption
<1>3. /\ cycle' \in Cycles /\ cycle'.step = cycle.step
      /\ cycle'.redisUp = cycle.redisUp /\ cycle'.todo = cycle.todo
      /\ cycle.step = "idle" => cycle'.elapsed = cycle.elapsed
      /\ cycle.step # "idle" => cycle'.elapsed = cycle.elapsed + 1
  <2>1. CASE cycle.step = "idle"
    <3>1. cycle' = cycle
      BY <2>1 DEF Tick
    <3> QED
      BY <2>1, <3>1 DEF TypeInv
  <2>2. CASE cycle.step # "idle"
    <3>1. cycle' = [cycle EXCEPT !.elapsed = cycle.elapsed + 1]
      BY <2>2 DEF Tick
    <3> QED
      BY <2>2, <3>1, <1>2 DEF TypeInv, Cycles
  <2> QED
    BY <2>1, <2>2
<1>4. timer \in 1..Interval /\ pending \in BOOLEAN
  BY DEF TypeInv, FlagsOK
<1>5. /\ up => timer' = (IF timer = 1 THEN Interval ELSE timer - 1)
      /\ up => pending' = (pending \/ timer = 1)
      /\ ~up => timer' = timer /\ pending' = pending
      /\ ~(up /\ pending /\ cycle.step = "idle")
  BY Zenon DEF Tick
<1>6. /\ up /\ timer = 1 => pending'
      /\ up /\ timer # 1 => pending' = pending
      /\ pending' \in BOOLEAN
  BY <1>4, <1>5, Zenon
<1>7. /\ up /\ timer = 1 => timer' = Interval
      /\ up /\ timer # 1 => timer' = timer - 1
      /\ ~up => timer' = timer
  BY <1>5
<1>8. timer' \in 1..Interval
  BY <1>4, <1>7, TransferAssumption
<1> QED
  BY <1>1, <1>3, <1>5, <1>6, <1>7, <1>8

\* Time, what is in memory and in Redis.
LEMMA TickAges ==
  ASSUME TypeInv, Tick
  PROVE  /\ MemOK' /\ RecOK' /\ DOMAIN mem' = DOMAIN mem
         /\ \A id \in DOMAIN mem : /\ mem'[id].abuser = mem[id].abuser
                                   /\ mem'[id].since <= mem[id].since + 1
                                   /\ ~mem[id].abuser => mem'[id].since = 0
         /\ \A id \in DOMAIN rec : rec[id] >= 2 => id \in DOMAIN rec' /\ rec'[id] = rec[id] - 1
<1>1. MemOK /\ RecOK
  BY DEF TypeInv
<1>2. mem' = [id \in DOMAIN mem |-> Older(mem[id])] /\ rec' = Expired
  BY DEF Tick
<1>3. DOMAIN mem' = DOMAIN mem /\ \A id \in DOMAIN mem : mem'[id] = Older(mem[id])
  BY <1>2
<1>4. \A id \in DOMAIN mem : mem[id] \in Counters
  BY <1>1 DEF MemOK
<1>5. MemOK'
  BY <1>1, <1>3, <1>4, OlderFacts DEF MemOK
<1>6. \A id \in DOMAIN mem : /\ mem'[id].abuser = mem[id].abuser
                             /\ mem'[id].since <= mem[id].since + 1
                             /\ ~mem[id].abuser => mem'[id].since = 0
  BY <1>3, <1>4, OlderFacts
<1>7. RecOK'
  BY <1>1, <1>2, ExpiredFacts DEF RecOK
<1>8. ASSUME NEW id \in DOMAIN rec, rec[id] >= 2
      PROVE  id \in DOMAIN rec' /\ rec'[id] = rec[id] - 1
  <2>1. rec[id] \in 0..Ttl
    BY <1>1 DEF RecOK
  <2>2. id \in DOMAIN Expired
    BY <1>1, <1>8, <2>1, ExpiredFacts
  <2> QED
    BY <1>1, <1>2, <1>8, <2>1, <2>2, ExpiredFacts
<1> QED
  BY <1>3, <1>5, <1>6, <1>7, <1>8

\* A request leaves the age of every counter as it is; a new one starts at 0.
LEMMA RequestEffect ==
  ASSUME TypeInv, NEW p \in Ids, RecordRequest(p)
  PROVE  /\ MemOK'
         /\ DOMAIN mem' = DOMAIN mem \cup {p}
         /\ \A id \in DOMAIN mem : /\ mem'[id].since = mem[id].since
                                   /\ mem[id].abuser => mem'[id].abuser
                                   /\ id # p => mem'[id] = mem[id]
         /\ p \notin DOMAIN mem => mem'[p].since = 0
<1>1. MemOK
  BY DEF TypeInv
<1> DEFINE old == IF p \in DOMAIN mem THEN mem[p]
                  ELSE [abuser |-> FALSE, idle |-> 0, since |-> 0]
<1>2. PICK hit \in BOOLEAN :
        mem' = Put(mem, p, [old EXCEPT !.abuser = @ \/ hit, !.idle = 0])
  BY Zenon DEF RecordRequest
<1>3. old \in Counters /\ (p \in DOMAIN mem => old = mem[p])
      /\ (p \notin DOMAIN mem => old.since = 0)
  <2>1. CASE p \in DOMAIN mem
    BY <1>1, <2>1 DEF MemOK
  <2>2. CASE p \notin DOMAIN mem
    BY <2>2, BoundsNat DEF Counters
  <2> QED
    BY <2>1, <2>2
<1>4. PICK a : a = (old.abuser \/ hit)
  OBVIOUS
<1>5. a \in BOOLEAN /\ (old.abuser => a)
  BY <1>3, <1>4, Zenon
<1>6. PICK v : v = [old EXCEPT !.abuser = a, !.idle = 0]
  OBVIOUS
<1>7. v = [old EXCEPT !.abuser = @ \/ hit, !.idle = 0]
  BY <1>4, <1>6
<1>8. mem' = Put(mem, p, v)
  BY <1>2, <1>7
<1> HIDE DEF old
<1>9. v \in Counters /\ v.since = old.since /\ v.abuser = a
  <2>1. 0 \in 0..MaxIdle /\ old \in Counters /\ a \in BOOLEAN
    BY <1>3, <1>5, BoundsNat
  <2>2. v \in Counters
    BY <1>6, <2>1 DEF Counters
  <2>3. v.since = old.since
    BY <1>6, <2>1 DEF Counters
  <2>4. v.abuser = a
    BY <1>6, <2>1 DEF Counters
  <2> QED
    BY <2>2, <2>3, <2>4
<1>10. DOMAIN mem' = DOMAIN mem \cup {p} /\ mem'[p] = v
       /\ \A j \in DOMAIN mem : j # p => mem'[j] = mem[j]
  BY <1>8 DEF Put
<1>11. MemOK'
  BY <1>1, <1>9, <1>10 DEF MemOK
<1>12. ASSUME NEW id \in DOMAIN mem
       PROVE  /\ mem'[id].since = mem[id].since
              /\ mem[id].abuser => mem'[id].abuser
              /\ id # p => mem'[id] = mem[id]
  <2>1. CASE id = p
    BY <2>1, <1>3, <1>5, <1>9, <1>10
  <2>2. CASE id # p
    BY <2>2, <1>10
  <2> QED
    BY <2>1, <2>2
<1> QED
  BY <1>3, <1>9, <1>10, <1>11, <1>12
-----------------------------------------------------------------------------
(* Type correctness.                                                        *)

\* The type invariant holds initially.
LEMMA TypeInit == Init => TypeInv
<1> SUFFICES ASSUME Init PROVE TypeInv
  OBVIOUS
<1>1. FlagsOK
  <2>1. up \in BOOLEAN /\ pending \in BOOLEAN /\ healthy \in BOOLEAN
    BY Zenon DEF Init
  <2>2. timer \in 1..Interval /\ failures \in Nat
    BY TransferAssumption DEF Init
  <2> QED
    BY <2>1, <2>2 DEF FlagsOK
<1>2. DOMAIN mem = {} /\ DOMAIN rec = {}
  BY DEF Init
<1> QED
  BY <1>1, <1>2, IdleCycle DEF Init, TypeInv, MemOK, RecOK

\* The map of records stays one when a record is written or some are removed.
LEMMA RecStays ==
  ASSUME RecOK, NEW id \in Ids, NEW S,
         rec' = rec \/ rec' = Put(rec, id, Ttl) \/ rec' = Without(rec, S)
  PROVE  RecOK'
<1>1. Ttl \in 0..Ttl
  BY BoundsNat
<1>2. CASE rec' = rec
  BY <1>2 DEF RecOK
<1>3. CASE rec' = Put(rec, id, Ttl)
  BY <1>1, <1>3 DEF RecOK, Put
<1>4. CASE rec' = Without(rec, S)
  BY <1>4 DEF RecOK, Without, Restrict
<1> QED
  BY <1>2, <1>3, <1>4

\* The map of counters stays one when all clocks are reset.
LEMMA MemStays ==
  ASSUME MemOK, mem' = mem \/ mem' = Disturbed
  PROVE  MemOK'
<1>1. CASE mem' = mem
  BY <1>1 DEF MemOK
<1>2. CASE mem' = Disturbed
  BY <1>2, DisturbedFacts DEF MemOK
<1> QED
  BY <1>1, <1>2

\* Every step preserves the type invariant.
LEMMA TypeStep == TypeInv /\ [Next]_vars => TypeInv'
<1> SUFFICES ASSUME TypeInv, [Next]_vars PROVE TypeInv'
  OBVIOUS
<1>0. FlagsOK /\ MemOK /\ RecOK /\ cycle \in Cycles
  BY DEF TypeInv
<1>1. CASE Tick
  <2>1. FlagsOK'
    <3>1. timer' \in 1..Interval /\ pending' \in BOOLEAN
      BY <1>1, TickEffect
    <3> QED
      BY <1>0, <1>1, <3>1 DEF Tick, FlagsOK
  <2> QED
    BY <1>1, <2>1, TickEffect, TickAges DEF TypeInv
<1>2. CASE Crash
  <2>1. FlagsOK'
    <3>1. up' \in BOOLEAN /\ pending' \in BOOLEAN /\ healthy' = healthy
      BY <1>2, Zenon DEF Crash, redisVars
    <3>2. timer' \in 1..Interval /\ failures' = failures
      BY <1>2, TransferAssumption DEF Crash, redisVars
    <3> QED
      BY <1>0, <3>1, <3>2 DEF FlagsOK
  <2>2. DOMAIN mem' = {} /\ rec' = rec /\ cycle' = Idle
    BY <1>2 DEF Crash, redisVars
  <2> QED
    BY <1>0, <2>1, <2>2, IdleCycle DEF TypeInv, MemOK, RecOK
<1>3. CASE Restart
  BY <1>0, <1>3 DEF Restart, TypeInv, FlagsOK, MemOK, RecOK
<1>4. CASE Observe
  <2>1. (Succeeds \/ Fails) /\ failures \in Nat
    BY <1>0, <1>4 DEF Observe, FlagsOK
  <2>2. FlagsOK'
    BY <1>0, <1>4, <2>1, OpFacts DEF Observe, FlagsOK
  <2>3. MemOK'
    BY <1>0, <1>4, MemStays DEF Observe
  <2> QED
    BY <1>0, <1>4, <2>2, <2>3 DEF Observe, TypeInv, RecOK
<1>5. CASE RunStart
  <2>1. FlagsOK'
    BY <1>0, <1>5 DEF RunStart, FlagsOK, redisVars
  <2> QED
    BY <1>0, <1>5, <2>1, RunStartEffect DEF RunStart, TypeInv, MemOK, RecOK, redisVars
<1>6. CASE UnknownStart
  <2>1. FlagsOK'
    BY <1>0, <1>6 DEF UnknownStart, FlagsOK, redisVars
  <2>2. cycle' \in Cycles
    BY <1>6, UnknownStartEffect
  <2> QED
    BY <1>0, <1>6, <2>1, <2>2 DEF UnknownStart, TypeInv, MemOK, RecOK, redisVars
<1>7. CASE Transfer
  <2>1. PICK id \in Ids : \/ Succeeds /\ rec' = Put(rec, id, Ttl) /\ mem' = mem
                          \/ Fails /\ rec' \in {rec, Put(rec, id, Ttl)} /\ mem' = Disturbed
    BY <1>7, TransferEffect
  <2>2. (Succeeds \/ Fails) /\ failures \in Nat
    BY <1>0, <2>1 DEF FlagsOK
  <2>3. FlagsOK'
    BY <1>0, <1>7, <2>2, OpFacts DEF Transfer, FlagsOK
  <2>4. MemOK'
    BY <1>0, <2>1, MemStays
  <2>5. RecOK'
    BY <1>0, <2>1, RecStays
  <2> QED
    BY <1>7, <2>3, <2>4, <2>5, TransferEffect DEF TypeInv
<1>8. CASE Forget
  <2>1. FlagsOK'
    BY <1>0, <1>8 DEF Forget, FlagsOK, redisVars
  <2>2. MemOK'
    BY <1>0, <1>8, ForgetEffect DEF MemOK
  <2> QED
    BY <1>0, <1>8, <2>1, <2>2, ForgetEffect DEF Forget, TypeInv, RecOK, redisVars
<1>9. CASE Skip
  <2>1. FlagsOK'
    BY <1>0, <1>9 DEF Skip, FlagsOK, redisVars
  <2>2. MemOK' /\ cycle' \in Cycles
    BY <1>0, <1>9, SkipEffect DEF MemOK
  <2> QED
    BY <1>0, <1>9, <2>1, <2>2 DEF Skip, TypeInv, RecOK, redisVars
<1>10. CASE Finish
  <2>1. (Succeeds \/ Fails) /\ failures \in Nat
    BY <1>0, <1>10 DEF Finish, FlagsOK
  <2>2. FlagsOK'
    BY <1>0, <1>10, <2>1, OpFacts DEF Finish, FlagsOK
  <2>3. MemOK'
    BY <1>0, <1>10, MemStays DEF Finish
  <2> QED
    BY <1>0, <1>10, <2>2, <2>3, IdleCycle DEF Finish, TypeInv, RecOK
<1>11. ASSUME NEW p \in Ids, RecordRequest(p) PROVE TypeInv'
  <2>1. FlagsOK'
    BY <1>0, <1>11 DEF RecordRequest, FlagsOK, redisVars
  <2>2. MemOK'
    BY <1>11, RequestEffect
  <2> QED
    BY <1>0, <1>11, <2>1, <2>2 DEF RecordRequest, TypeInv, RecOK, redisVars
<1>12. ASSUME NEW S \in SUBSET Ids \ {{}}, RemoveRecords(S) PROVE TypeInv'
  <2>1. (Succeeds \/ Fails) /\ failures \in Nat
    BY <1>0, <1>12 DEF RemoveRecords, FlagsOK
  <2>2. FlagsOK'
    BY <1>0, <1>12, <2>1, OpFacts DEF RemoveRecords, FlagsOK
  <2>3. MemOK'
    BY <1>0, <1>12, MemStays DEF RemoveRecords
  <2>4. RecOK'
    <3>1. rec' = rec \/ rec' = Without(rec, S)
      BY <1>12 DEF RemoveRecords
    <3> QED
      BY <1>0, <3>1 DEF RecOK, Without, Restrict
  <2> QED
    BY <1>0, <1>12, <2>2, <2>3, <2>4 DEF RemoveRecords, TypeInv
<1>13. CASE UNCHANGED vars
  BY <1>0, <1>13 DEF vars, redisVars, TypeInv, FlagsOK, MemOK, RecOK
<1> QED
  BY <1>1, <1>2, <1>3, <1>4, <1>5, <1>6, <1>7, <1>8, <1>9, <1>10, <1>11, <1>12, <1>13
     DEF Next, Loop

\* The fields of the model keep their types: a countdown between 1 and the
\* interval, a cycle that ends in time, records with a time to live of at most
\* the TTL (redis.go upsertAbuse).
THEOREM TypeCorrect == Spec => []TypeOK
<1>1. TypeInv => TypeOK
  BY DEF TypeInv, TypeOK, FlagsOK, MemOK, RecOK, Cycles, Steps, Curs
<1> QED
  BY <1>1, TypeInit, TypeStep, PTL DEF Spec
-----------------------------------------------------------------------------
(* The ticker and the cycle.                                                *)

\* How far the ticker is past its last tick.
Past == Interval - timer

\* A cycle begins with the tick that starts it and is as old as that tick; a
\* tick waits only while no cycle runs and is taken at once; a process that is
\* down has neither.
ClockInv ==
  /\ cycle.step # "idle" => up /\ ~pending /\ cycle.elapsed = Past
  /\ cycle.step = "idle" => cycle.elapsed = 0
  /\ pending => timer = Interval /\ cycle.step = "idle"
  /\ ~up => DOMAIN mem = {} /\ ~pending /\ cycle.step = "idle"

\* The flag is down only after a failure.
HealthInv == failures = 0 => healthy

\* Only an abuser's counter waits for a transfer.
WaitInv == \A id \in DOMAIN mem : ~mem[id].abuser => mem[id].since = 0

\* A cycle ends before the ticker fires again.
LEMMA TickInTime ==
  ASSUME TypeInv, ClockInv, Tick, up
  PROVE  /\ ~pending
         /\ timer = 1 => cycle.step = "idle"
         /\ cycle.step # "idle" => Past + 1 <= CycleTime
<1>1. ~pending
  BY TickEffect DEF ClockInv
<1>2. /\ cycle.elapsed < CycleTime /\ cycle.elapsed \in 0..CycleTime
      /\ timer \in 1..Interval
  BY TickEffect DEF TypeInv, Cycles, FlagsOK
<1>3. cycle.step # "idle" => cycle.elapsed = Past
  BY DEF ClockInv
<1> QED
  BY <1>1, <1>2, <1>3, TransferAssumption DEF Past

\* Every step keeps the ticker and the cycle together.
LEMMA ClockStep == TypeInv /\ ClockInv /\ [Next]_vars => ClockInv'
<1> SUFFICES ASSUME TypeInv, ClockInv, [Next]_vars PROVE ClockInv'
  OBVIOUS
<1>0. /\ timer \in 1..Interval /\ cycle \in Cycles /\ cycle.elapsed \in 0..CycleTime
  BY DEF TypeInv, FlagsOK, Cycles
<1>1. CASE Tick
  <2>1. up' = up /\ DOMAIN mem' = DOMAIN mem
    BY <1>1, TickAges DEF Tick
  <2>2. CASE ~up
    BY <1>1, <2>1, <2>2, TickEffect DEF ClockInv
  <2>3. CASE up /\ timer = 1
    BY <1>0, <1>1, <2>1, <2>3, TickEffect, TickInTime DEF ClockInv, Past
  <2>4. CASE up /\ timer # 1
    <3>1. timer' = timer - 1 /\ ~pending'
      BY <1>1, <2>4, TickEffect, TickInTime
    <3> QED
      BY <1>0, <1>1, <2>1, <2>4, <3>1, TransferAssumption, TickEffect DEF ClockInv, Past
  <2> QED
    BY <2>2, <2>3, <2>4
<1>2. CASE Crash
  <2>1. ~up' /\ ~pending' /\ cycle' = Idle /\ DOMAIN mem' = {}
    BY <1>2 DEF Crash
  <2> QED
    BY <2>1, IdleCycle DEF ClockInv
<1>3. CASE Restart
  BY <1>3 DEF Restart, ClockInv, Past
<1>4. CASE Observe
  BY <1>4 DEF Observe, ClockInv, Past
<1>5. CASE RunStart
  <2>1. /\ up /\ up' = up /\ timer' = timer /\ ~pending'
        /\ pending /\ cycle'.step = "known" /\ cycle'.elapsed = 0
    BY <1>5, RunStartEffect DEF RunStart
  <2> QED
    BY <1>0, <2>1, TransferAssumption DEF ClockInv, Past
<1>6. CASE UnknownStart
  <2>1. /\ up' = up /\ timer' = timer /\ pending' = pending /\ cycle.step = "known"
        /\ cycle'.step = "unknown" /\ cycle'.elapsed = cycle.elapsed
    BY <1>6, UnknownStartEffect DEF UnknownStart
  <2> QED
    BY <2>1 DEF ClockInv, Past
<1>7. CASE Transfer
  <2>1. /\ up' = up /\ timer' = timer /\ pending' = pending /\ cycle.step = "unknown"
        /\ cycle'.step = "forget" /\ cycle'.elapsed = cycle.elapsed
    BY <1>7, TransferEffect DEF Transfer
  <2> QED
    BY <2>1 DEF ClockInv, Past
<1>8. CASE Forget
  <2>1. /\ up' = up /\ timer' = timer /\ pending' = pending /\ cycle.step = "forget"
        /\ cycle'.step = "unknown" /\ cycle'.elapsed = cycle.elapsed
    BY <1>8, ForgetEffect DEF Forget
  <2> QED
    BY <2>1 DEF ClockInv, Past
<1>9. CASE Skip
  <2>1. /\ up' = up /\ timer' = timer /\ pending' = pending /\ cycle.step = "unknown"
        /\ cycle'.step = "unknown" /\ cycle'.elapsed = cycle.elapsed
    BY <1>9, SkipEffect DEF Skip
  <2> QED
    BY <2>1 DEF ClockInv, Past
<1>10. CASE Finish
  <2>1. /\ up' = up /\ pending' = pending /\ cycle.step = "unknown" /\ cycle' = Idle
    BY <1>10 DEF Finish
  <2> QED
    BY <2>1, IdleCycle DEF ClockInv
<1>11. ASSUME NEW p \in Ids, RecordRequest(p) PROVE ClockInv'
  BY <1>11 DEF RecordRequest, ClockInv, Past
<1>12. ASSUME NEW S \in SUBSET Ids \ {{}}, RemoveRecords(S) PROVE ClockInv'
  BY <1>12 DEF RemoveRecords, ClockInv, Past
<1>13. CASE UNCHANGED vars
  BY <1>13 DEF vars, ClockInv, Past
<1> QED
  BY <1>1, <1>2, <1>3, <1>4, <1>5, <1>6, <1>7, <1>8, <1>9, <1>10, <1>11, <1>12, <1>13
     DEF Next, Loop

\* Every step that is no failed operation leaves or raises the flag.
LEMMA HealthStep == TypeInv /\ HealthInv /\ [Next]_vars => HealthInv'
<1> SUFFICES ASSUME TypeInv, HealthInv, [Next]_vars PROVE HealthInv'
  OBVIOUS
<1>0. failures \in Nat
  BY DEF TypeInv, FlagsOK
<1>1. CASE UNCHANGED <<healthy, failures>>
  BY <1>1 DEF HealthInv
<1>2. CASE Succeeds \/ Fails
  BY <1>0, <1>2, OpFacts DEF HealthInv
<1>3. CASE Restart
  BY <1>3 DEF Restart, HealthInv
<1> QED
  BY <1>1, <1>2, <1>3 DEF Next, Loop, Tick, Crash, Observe, RunStart, UnknownStart,
     Transfer, Forget, Skip, Finish, RecordRequest, RemoveRecords, vars, redisVars

\* What a step does to the counters in memory: time makes them older, a failure
\* or a removal resets them, a request adds one, and nothing else.
LEMMA MemSteps ==
  ASSUME TypeInv, [Next]_vars, NEW id \in DOMAIN mem', ~Tick
  PROVE  \/ mem'[id].since = 0
         \/ /\ id \in DOMAIN mem /\ mem'[id].since = mem[id].since
            /\ mem[id].abuser => mem'[id].abuser
<1>0. MemOK
  BY DEF TypeInv
<1>1. CASE mem' = mem
  BY <1>1
<1>2. CASE mem' = Disturbed
  BY <1>0, <1>2, DisturbedFacts
<1>3. CASE Crash
  <2>1. DOMAIN mem' = {}
    BY <1>3 DEF Crash
  <2> QED
    BY <2>1
<1>4. CASE Forget
  BY <1>4, ForgetEffect
<1>5. CASE Skip
  BY <1>5, SkipEffect
<1>6. ASSUME NEW p \in Ids, RecordRequest(p)
      PROVE  \/ mem'[id].since = 0
             \/ /\ id \in DOMAIN mem /\ mem'[id].since = mem[id].since
                /\ mem[id].abuser => mem'[id].abuser
  BY <1>6, RequestEffect
<1> QED
  BY <1>1, <1>2, <1>3, <1>4, <1>5, <1>6 DEF Next, Loop, Restart, Observe, RunStart,
     UnknownStart, Transfer, Finish, RemoveRecords, vars

\* Every step keeps the clocks of harmless counters at 0.
LEMMA WaitStep == TypeInv /\ WaitInv /\ [Next]_vars => WaitInv'
<1> SUFFICES ASSUME TypeInv, WaitInv, [Next]_vars, NEW id \in DOMAIN mem', ~mem'[id].abuser
             PROVE  mem'[id].since = 0
  BY DEF WaitInv
<1>1. CASE Tick
  <2>1. id \in DOMAIN mem /\ ~mem[id].abuser
    BY <1>1, TickAges
  <2> QED
    BY <1>1, <2>1, TickAges
<1>2. CASE ~Tick
  BY <1>2, MemSteps DEF WaitInv
<1> QED
  BY <1>1, <1>2
-----------------------------------------------------------------------------
(* How long an abuser may wait.                                             *)

\* One more interval once an operation has failed.
Slack == IF failures = 0 THEN 0 ELSE Interval

\* The tick that is due, or the cycle that runs, will still transfer the
\* counter, if it is an abuser's.
Awaited(id) ==
  \/ pending \/ cycle.step = "known"
  \/ /\ cycle.step \in {"unknown", "forget"} /\ cycle.redisUp
     /\ [id |-> id, abuser |-> TRUE] \in cycle.todo

\* Redis lists the identity for at least n more time units.
Listed(id, n) == id \in DOMAIN rec /\ rec[id] >= n

\* Before its turn in a cycle an abuser was listed by the last cycle or waits
\* since then; after its turn it was listed by this one or waits since.
AgeOf(id) ==
  /\ Awaited(id) => \/ Listed(id, (Ttl + timer) - 2 * Interval)
                    \/ mem[id].since <= Interval + Slack + Past
  /\ ~Awaited(id) => \/ Listed(id, (Ttl + timer) - Interval)
                     \/ mem[id].since <= Slack + Past
AgeInv == Ttl > Interval + CycleTime => \A id \in DOMAIN mem : AgeOf(id)

\* While the flag is down, and no cycle has read it yet, the last failure is
\* younger than the last but one tick.
DownInv ==
  ~healthy /\ cycle.step \in {"idle", "known"} =>
    \A id \in DOMAIN mem :
      mem[id].since <= (IF pending \/ cycle.step = "known" THEN Interval ELSE 0) + Past

\* The ticker is never ahead of its next tick.
LEMMA PastNat ==
  ASSUME NEW t \in 1..Interval
  PROVE  Interval - t \in Nat
  BY TransferAssumption

\* Every step keeps the age of the counters below the age of the failure.
LEMMA DownStep == TypeInv /\ TypeInv' /\ ClockInv /\ DownInv /\ [Next]_vars => DownInv'
<1> SUFFICES ASSUME TypeInv, TypeInv', ClockInv, DownInv, [Next]_vars,
                    ~healthy', cycle'.step \in {"idle", "known"}, NEW id \in DOMAIN mem'
             PROVE  mem'[id].since <=
                      (IF pending' \/ cycle'.step = "known" THEN Interval ELSE 0) + (Interval - timer')
  BY DEF DownInv, Past
<1>0. /\ timer \in 1..Interval /\ timer' \in 1..Interval /\ Interval \in Nat
  BY TransferAssumption DEF TypeInv, FlagsOK
<1>1. CASE mem'[id].since = 0
  <2>1. PICK n : n = Interval - timer'
    OBVIOUS
  <2>2. n \in Nat
    BY <1>0, <2>1, PastNat
  <2>3. 0 <= Interval + n /\ 0 <= 0 + n
    BY <1>0, <2>2
  <2> QED
    BY <1>1, <2>1, <2>3
<1>2. ASSUME Tick PROVE mem'[id].since <=
                      (IF pending' \/ cycle'.step = "known" THEN Interval ELSE 0) + (Interval - timer')
  <2>1. /\ id \in DOMAIN mem /\ healthy' = healthy /\ cycle'.step = cycle.step
        /\ mem'[id].since <= mem[id].since + 1
    BY <1>2, TickEffect, TickAges DEF Tick
  <2>2. up
    BY <2>1 DEF ClockInv
  <2>3. mem[id].since \in Nat /\ mem'[id].since \in Nat
    BY <2>1, BoundsNat DEF TypeInv, MemOK, Counters
  <2>4. mem[id].since <= (IF pending \/ cycle.step = "known" THEN Interval ELSE 0) + (Interval - timer)
    BY <2>1 DEF DownInv, Past
  <2>5. ~pending /\ (timer = 1 => cycle.step = "idle")
    BY <1>2, <2>2, TickInTime
  <2>6. CASE timer = 1
    <3>1. timer' = Interval /\ pending'
      BY <1>2, <2>2, <2>6, TickEffect
    <3>2. mem[id].since <= Interval - timer
      BY <2>4, <2>5, <2>6, <1>0
    <3> QED
      BY <1>0, <2>1, <2>3, <2>6, <3>1, <3>2
  <2>7. CASE timer # 1
    <3>1. timer' = timer - 1 /\ ~pending'
      BY <1>2, <2>2, <2>5, <2>7, TickEffect
    <3> QED
      BY <1>0, <2>1, <2>3, <2>4, <2>5, <3>1
  <2> QED
    BY <2>6, <2>7
<1>3. CASE /\ id \in DOMAIN mem /\ mem'[id].since = mem[id].since
           /\ ~healthy /\ timer' = timer
           /\ \/ cycle'.step = cycle.step /\ pending' = pending
              \/ RunStart
  <2>1. cycle.step \in {"idle", "known"}
    BY <1>3, RunStartEffect
  <2>2. mem[id].since <= (IF pending \/ cycle.step = "known" THEN Interval ELSE 0) + (Interval - timer)
    BY <1>3, <2>1 DEF DownInv, Past
  <2>3. (pending' \/ cycle'.step = "known") = (pending \/ cycle.step = "known")
    BY <1>3, RunStartEffect
  <2> QED
    BY <1>0, <1>3, <2>2, <2>3
<1>4. CASE ~Tick /\ mem'[id].since # 0
  <2>1. /\ id \in DOMAIN mem /\ mem'[id].since = mem[id].since
    BY <1>4, MemSteps
  <2>2. failures \in Nat /\ MemOK
    BY DEF TypeInv, FlagsOK
  <2>3. mem' # Disturbed
    BY <1>4, <2>1, <2>2, DisturbedFacts
  <2>4. ~Succeeds
    BY <2>2, OpFacts, Zenon
  <2>5. ~UnknownStart /\ ~Transfer /\ ~Forget /\ ~Skip
    BY UnknownStartEffect, TransferEffect, ForgetEffect, SkipEffect
  <2>6. ~Restart /\ ~Crash
    <3>1. ~Restart
      BY Zenon DEF Restart
    <3>2. ~Crash
      <4> SUFFICES ASSUME Crash PROVE FALSE
        OBVIOUS
      <4>1. DOMAIN mem' = {}
        BY DEF Crash
      <4> QED
        BY <4>1
    <3> QED
      BY <3>1, <3>2
  <2>7. CASE RunStart
    BY <1>3, <2>1, <2>7 DEF RunStart, redisVars
  <2>8. ASSUME NEW p \in Ids, RecordRequest(p)
        PROVE  ~healthy /\ timer' = timer /\ cycle' = cycle /\ pending' = pending
    BY <2>8 DEF RecordRequest, redisVars
  <2>9. CASE UNCHANGED vars
    BY <1>3, <2>1, <2>9 DEF vars, redisVars
  <2> QED
    BY <1>3, <1>4, <2>1, <2>3, <2>4, <2>5, <2>6, <2>7, <2>8, <2>9
       DEF Next, Loop, Observe, Finish, RemoveRecords
<1> QED
  BY <1>1, <1>2, <1>4

\* A counter whose clock has just been reset is in time.
LEMMA AgeFresh ==
  ASSUME NEW id, TypeInv', mem'[id].since = 0
  PROVE  AgeOf(id)'
<1>1. timer' \in 1..Interval /\ failures' \in Nat
  BY DEF TypeInv, FlagsOK
<1>2. PICK n : n = Interval - timer'
  OBVIOUS
<1>3. n \in Nat /\ Interval \in Nat
  BY <1>1, <1>2, PastNat, BoundsNat
<1>4. PICK k : k = Slack'
  OBVIOUS
<1>5. k \in Nat
  BY <1>3, <1>4 DEF Slack
<1>6. 0 <= Interval + k + n /\ 0 <= k + n
  BY <1>3, <1>5
<1>7. Past' = n
  BY <1>2 DEF Past
<1> QED
  BY <1>4, <1>6, <1>7 DEF AgeOf

\* A step that leaves the clocks and the counter's turn alone, and the record at
\* least as it is, keeps it in time.
LEMMA AgeKept ==
  ASSUME NEW id, AgeOf(id), mem'[id].since = mem[id].since, timer' = timer,
         failures' = failures, Awaited(id)' <=> Awaited(id),
         \A n : Listed(id, n) => Listed(id, n)'
  PROVE  AgeOf(id)'
<1>1. Slack' = Slack /\ Past' = Past
  BY DEF Slack, Past
<1>2. PICK a : a = (Ttl + timer) - 2 * Interval
  OBVIOUS
<1>3. PICK b : b = (Ttl + timer) - Interval
  OBVIOUS
<1>4. /\ Awaited(id) => Listed(id, a) \/ mem[id].since <= Interval + Slack + Past
      /\ ~Awaited(id) => Listed(id, b) \/ mem[id].since <= Slack + Past
  BY <1>2, <1>3 DEF AgeOf
<1>5. a = (Ttl + timer') - 2 * Interval /\ b = (Ttl + timer') - Interval
  BY <1>2, <1>3
<1>6. /\ Awaited(id)' => Listed(id, a)' \/ mem'[id].since <= Interval + Slack' + Past'
      /\ ~Awaited(id)' => Listed(id, b)' \/ mem'[id].since <= Slack' + Past'
  BY <1>1, <1>4
<1> QED
  BY <1>5, <1>6 DEF AgeOf

\* The same, when the record is left alone too.
LEMMA AgeFrame ==
  ASSUME NEW id, AgeOf(id), mem'[id].since = mem[id].since, timer' = timer,
         failures' = failures, rec' = rec, Awaited(id)' <=> Awaited(id)
  PROVE  AgeOf(id)'
<1>1. ASSUME NEW n PROVE Listed(id, n) => Listed(id, n)'
  BY DEF Listed
<1> QED
  BY <1>1, AgeKept

\* A record that has just been written is listed for long enough.
LEMMA AgeListed ==
  ASSUME NEW id, TypeInv', id \in DOMAIN rec', rec'[id] = Ttl
  PROVE  AgeOf(id)'
<1>1. timer' \in 1..Interval /\ Interval \in Nat /\ Ttl \in Nat
  BY BoundsNat DEF TypeInv, FlagsOK
<1>2. PICK t \in 1..Interval : t = timer'
  BY <1>1
<1>3. Ttl >= (Ttl + t) - 2 * Interval /\ Ttl >= (Ttl + t) - Interval
  <2>1. t \in Nat /\ t <= Interval /\ Interval \in Nat /\ Ttl \in Nat
    BY BoundsNat
  <2> QED
    BY <2>1
<1>4. Listed(id, (Ttl + timer) - 2 * Interval)' /\ Listed(id, (Ttl + timer) - Interval)'
  BY <1>2, <1>3 DEF Listed
<1> QED
  BY <1>4 DEF AgeOf

\* Time: what was listed at the last cycle stays so until the end of this one.
LEMMA AgeTick ==
  ASSUME TypeInv, TypeInv', ClockInv, Ttl > Interval + CycleTime, Tick,
         NEW id \in DOMAIN mem, AgeOf(id)
  PROVE  AgeOf(id)'
<1>1. up
  BY DEF ClockInv
<1>2. ~pending /\ (timer = 1 => cycle.step = "idle")
      /\ (cycle.step # "idle" => Interval - timer + 1 <= CycleTime)
  BY <1>1, TickInTime DEF Past
<1>3. PICK t \in 1..Interval : t = timer
  BY DEF TypeInv, FlagsOK
<1>4. PICK s \in Nat : s = mem[id].since
  BY BoundsNat DEF TypeInv, MemOK, Counters
<1>5. PICK s1 \in Nat : s1 = mem'[id].since
  BY TickAges, BoundsNat DEF TypeInv, MemOK, Counters
<1>6. s1 <= s + 1
  BY <1>4, <1>5, TickAges
<1>7. PICK k \in Nat : k = Slack
  BY BoundsNat DEF Slack
<1>8. Slack' = k
  BY <1>7 DEF Slack, Tick
<1>9. Interval \in Nat \ {0} /\ Ttl \in Nat /\ CycleTime \in Nat /\ CycleTime < Interval
  BY TransferAssumption
<1>10. ASSUME NEW n \in Int, Listed(id, n), n >= 2
       PROVE  id \in DOMAIN rec' /\ rec'[id] >= n - 1
  <2>1. id \in DOMAIN rec /\ rec[id] >= n /\ rec[id] \in Nat
    BY <1>9, <1>10 DEF Listed, TypeInv, RecOK
  <2>2. rec[id] >= 2
    BY <1>10, <2>1
  <2>3. id \in DOMAIN rec' /\ rec'[id] = rec[id] - 1
    BY <2>1, <2>2, TickAges
  <2> QED
    BY <1>10, <2>1, <2>3
<1>11. CASE timer = 1
  <2>1. timer' = Interval /\ Awaited(id)' /\ ~Awaited(id)
    BY <1>1, <1>2, <1>11, TickEffect DEF Awaited
  <2>2. Listed(id, (Ttl + 1) - Interval) \/ s <= k + (Interval - 1)
    BY <1>4, <1>7, <1>11, <2>1 DEF AgeOf, Past
  <2>3. CASE s <= k + (Interval - 1)
    <3>1. s1 <= Interval + k + (Interval - Interval)
      BY <1>6, <1>9, <2>3
    <3> QED
      BY <1>5, <1>8, <2>1, <3>1 DEF AgeOf, Past
  <2>4. CASE Listed(id, (Ttl + 1) - Interval)
    <3>1. PICK n \in Int : n = (Ttl + 1) - Interval
      BY <1>9
    <3>2. n >= 2 /\ n - 1 = (Ttl + Interval) - 2 * Interval
      BY <1>9, <3>1
    <3>3. id \in DOMAIN rec' /\ rec'[id] >= (Ttl + Interval) - 2 * Interval
      BY <1>10, <2>4, <3>1, <3>2
    <3>4. Listed(id, (Ttl + timer) - 2 * Interval)'
      BY <2>1, <3>3 DEF Listed
    <3> QED
      BY <2>1, <3>4 DEF AgeOf
  <2> QED
    BY <2>2, <2>3, <2>4
<1>12. CASE timer # 1
  <2>1. timer' = t - 1 /\ pending' = pending /\ cycle'.step = cycle.step
        /\ cycle'.redisUp = cycle.redisUp /\ cycle'.todo = cycle.todo
    BY <1>1, <1>3, <1>12, TickEffect
  <2>2. Awaited(id)' <=> Awaited(id)
    BY <2>1 DEF Awaited
  <2>3. CASE Awaited(id)
    <3>1. cycle.step # "idle"
      BY <1>2, <2>3 DEF Awaited
    <3>2. Interval - t + 1 <= CycleTime
      BY <1>2, <1>3, <3>1
    <3>3. Listed(id, (Ttl + t) - 2 * Interval) \/ s <= Interval + k + (Interval - t)
      BY <1>3, <1>4, <1>7, <2>3 DEF AgeOf, Past
    <3>4. CASE s <= Interval + k + (Interval - t)
      <4>1. s1 <= Interval + k + (Interval - (t - 1))
        BY <1>6, <1>9, <3>4
      <4> QED
        BY <1>5, <1>8, <2>1, <2>2, <2>3, <4>1 DEF AgeOf, Past
    <3>5. CASE Listed(id, (Ttl + t) - 2 * Interval)
      <4>1. PICK n \in Int : n = (Ttl + t) - 2 * Interval
        BY <1>9
      <4>2. n >= 2 /\ n - 1 = (Ttl + (t - 1)) - 2 * Interval
        BY <1>9, <3>2, <4>1
      <4>3. id \in DOMAIN rec' /\ rec'[id] >= (Ttl + (t - 1)) - 2 * Interval
        BY <1>10, <3>5, <4>1, <4>2
      <4>4. Listed(id, (Ttl + timer) - 2 * Interval)'
        BY <2>1, <4>3 DEF Listed
      <4> QED
        BY <2>2, <2>3, <4>4 DEF AgeOf
    <3> QED
      BY <3>3, <3>4, <3>5
  <2>4. CASE ~Awaited(id)
    <3>1. Listed(id, (Ttl + t) - Interval) \/ s <= k + (Interval - t)
      BY <1>3, <1>4, <1>7, <2>4 DEF AgeOf, Past
    <3>2. CASE s <= k + (Interval - t)
      <4>1. s1 <= k + (Interval - (t - 1))
        BY <1>6, <1>9, <3>2
      <4> QED
        BY <1>5, <1>8, <2>1, <2>2, <2>4, <4>1 DEF AgeOf, Past
    <3>3. CASE Listed(id, (Ttl + t) - Interval)
      <4>1. PICK n \in Int : n = (Ttl + t) - Interval
        BY <1>9
      <4>2. n >= 2 /\ n - 1 = (Ttl + (t - 1)) - Interval
        BY <1>3, <1>9, <4>1
      <4>3. id \in DOMAIN rec' /\ rec'[id] >= (Ttl + (t - 1)) - Interval
        BY <1>10, <3>3, <4>1, <4>2
      <4>4. Listed(id, (Ttl + timer) - Interval)'
        BY <2>1, <4>3 DEF Listed
      <4> QED
        BY <2>2, <2>4, <4>4 DEF AgeOf
    <3> QED
      BY <3>1, <3>2, <3>3
  <2> QED
    BY <2>3, <2>4
<1> QED
  BY <1>11, <1>12

\* Every step keeps every counter in time.
LEMMA AgeStep ==
  TypeInv /\ TypeInv' /\ ClockInv /\ HealthInv /\ WaitInv /\ DownInv /\ AgeInv /\ [Next]_vars
  => AgeInv'
<1> SUFFICES ASSUME TypeInv, TypeInv', ClockInv, HealthInv, WaitInv, DownInv, AgeInv,
                    [Next]_vars, Ttl > Interval + CycleTime, NEW id \in DOMAIN mem'
             PROVE  AgeOf(id)'
  BY DEF AgeInv
<1>0. cycle \in Cycles /\ MemOK /\ failures \in Nat
  BY DEF TypeInv, FlagsOK
<1>1. CASE mem'[id].since = 0
  BY <1>1, AgeFresh
<1>2. CASE Tick
  <2>1. id \in DOMAIN mem
    BY <1>2, TickAges
  <2> QED
    BY <1>2, <2>1, AgeTick DEF AgeInv
<1>3. CASE mem'[id].since # 0 /\ ~Tick
  <2>1. id \in DOMAIN mem /\ mem'[id].since = mem[id].since
        /\ (mem[id].abuser => mem'[id].abuser)
    BY <1>3, MemSteps
  <2>2. AgeOf(id) /\ mem[id].abuser
    BY <1>3, <2>1 DEF AgeInv, WaitInv
  <2>3. mem' # Disturbed
    BY <1>0, <1>3, <2>1, DisturbedFacts
  <2>4. ~Crash
    <3> SUFFICES ASSUME Crash PROVE FALSE
      OBVIOUS
    <3>1. DOMAIN mem' = {}
      BY DEF Crash
    <3> QED
      BY <3>1
  <2>5. CASE /\ timer' = timer /\ failures' = failures /\ rec' = rec
             /\ pending' = pending /\ cycle' = cycle
    <3>1. Awaited(id)' <=> Awaited(id)
      BY <2>5 DEF Awaited
    <3> QED
      BY <2>1, <2>2, <2>5, <3>1, AgeFrame
  <2>6. CASE RunStart
    <3>1. Awaited(id)' /\ Awaited(id)
      BY <2>6, RunStartEffect DEF Awaited
    <3>2. timer' = timer /\ failures' = failures /\ rec' = rec
      BY <2>6 DEF RunStart, redisVars
    <3> QED
      BY <2>1, <2>2, <3>1, <3>2, AgeFrame
  <2>7. CASE UnknownStart
    <3>1. timer' = timer /\ failures' = failures /\ rec' = rec
      BY <2>7 DEF UnknownStart, redisVars
    <3>2. Awaited(id) /\ cycle.step = "known" /\ cycle'.step = "unknown"
          /\ cycle'.redisUp = healthy
          /\ [id |-> id, abuser |-> TRUE] \in cycle'.todo
      BY <2>1, <2>2, <2>7, UnknownStartEffect DEF Awaited
    <3>3. CASE healthy
      <4>1. Awaited(id)'
        BY <3>2, <3>3 DEF Awaited
      <4> QED
        BY <2>1, <2>2, <3>1, <3>2, <4>1, AgeFrame
    <3>4. CASE ~healthy
      <4>1. ~Awaited(id)'
        <5>1. ~pending'
          BY <2>7, <3>2 DEF UnknownStart, ClockInv
        <5> QED
          BY <3>2, <3>4, <5>1 DEF Awaited
      <4>2. mem[id].since <= Interval + Past
        BY <2>1, <3>2, <3>4 DEF DownInv
      <4>3. Slack' = Interval /\ Past' = Past
        BY <3>1, <3>4 DEF HealthInv, Slack, Past
      <4> QED
        BY <2>1, <4>1, <4>2, <4>3 DEF AgeOf
    <3> QED
      BY <3>3, <3>4
  <2>8. CASE Transfer
    <3>1. PICK p \in Ids :
            /\ cycle'.todo = cycle.todo \ {[id |-> p, abuser |-> TRUE]}
            /\ \/ Succeeds /\ rec' = Put(rec, p, Ttl) /\ mem' = mem
               \/ Fails /\ rec' \in {rec, Put(rec, p, Ttl)} /\ mem' = Disturbed
      BY <2>8, TransferEffect
    <3>2. Succeeds /\ rec' = Put(rec, p, Ttl)
      BY <2>3, <3>1
    <3>3. CASE id = p
      <4>1. id \in DOMAIN rec' /\ rec'[id] = Ttl
        BY <3>2, <3>3 DEF Put
      <4> QED
        BY <4>1, AgeListed
    <3>4. CASE id # p
      <4>1. /\ cycle.step = "unknown" /\ cycle'.step = "forget"
            /\ cycle'.redisUp = cycle.redisUp /\ pending' = pending
            /\ timer' = timer /\ failures' = failures
        BY <2>8, <3>2, TransferEffect DEF Transfer, Succeeds
      <4>2. [id |-> id, abuser |-> TRUE] # [id |-> p, abuser |-> TRUE]
        BY <3>4
      <4>3. Awaited(id)' <=> Awaited(id)
        BY <3>1, <4>1, <4>2 DEF Awaited
      <4>4. ASSUME NEW n PROVE Listed(id, n) => Listed(id, n)'
        BY <3>2, <3>4 DEF Listed, Put
      <4> QED
        BY <2>1, <2>2, <4>1, <4>3, <4>4, AgeKept
    <3> QED
      BY <3>3, <3>4
  <2>9. CASE Forget
    <3>1. timer' = timer /\ failures' = failures /\ rec' = rec /\ pending' = pending
      BY <2>9 DEF Forget, redisVars
    <3>2. Awaited(id)' <=> Awaited(id)
      BY <2>9, <3>1, ForgetEffect DEF Awaited
    <3> QED
      BY <2>1, <2>2, <3>1, <3>2, AgeFrame
  <2>10. CASE Skip
    <3>1. timer' = timer /\ failures' = failures /\ rec' = rec /\ pending' = pending
      BY <2>10 DEF Skip, redisVars
    <3>2. PICK s \in cycle.todo : /\ ~(s.abuser /\ cycle.redisUp)
                                  /\ cycle'.todo = cycle.todo \ {s}
      BY <2>10, SkipEffect
    <3>3. cycle.redisUp => s # [id |-> id, abuser |-> TRUE]
      BY <3>2
    <3>4. Awaited(id)' <=> Awaited(id)
      BY <2>10, <3>1, <3>2, <3>3, SkipEffect DEF Awaited
    <3> QED
      BY <2>1, <2>2, <3>1, <3>4, AgeFrame
  <2>11. CASE Finish
    <3>1. Succeeds
      BY <2>3, <2>11 DEF Finish
    <3>2. timer' = timer /\ failures' = failures /\ rec' = rec /\ pending' = pending
          /\ cycle.step = "unknown" /\ cycle.todo = {} /\ cycle' = Idle
      BY <2>11, <3>1 DEF Finish, Succeeds
    <3>3. ~Awaited(id)' /\ ~Awaited(id)
      BY <3>2, IdleCycle DEF Awaited, ClockInv
    <3> QED
      BY <2>1, <2>2, <3>2, <3>3, AgeFrame
  <2>12. CASE Restart
    BY <2>5, <2>12 DEF Restart
  <2>13. CASE Observe
    BY <2>3, <2>5, <2>13 DEF Observe, Succeeds
  <2>14. ASSUME NEW p \in Ids, RecordRequest(p) PROVE AgeOf(id)'
    BY <2>5, <2>14 DEF RecordRequest, redisVars
  <2>15. CASE UNCHANGED vars
    BY <2>5, <2>15 DEF vars, redisVars
  <2> QED
    BY <1>3, <2>3, <2>4, <2>6, <2>7, <2>8, <2>9, <2>10, <2>11, <2>12, <2>13, <2>14, <2>15
       DEF Next, Loop, RemoveRecords
<1> QED
  BY <1>1, <1>2, <1>3

\* An abuser in memory is listed in Redis at the latest one interval and one
\* cycle after it earned it, one interval later once an operation has failed,
\* and stays listed while it is in memory, if the TTL is longer than an
\* interval and a cycle (cleanup.go:80-124, redis.go upsertAbuse): for any
\* number of identities, failures, removals and crashes.
THEOREM RecordedInTimeHolds == Spec => []RecordedInTime
<1> DEFINE Inv == TypeInv /\ ClockInv /\ HealthInv /\ WaitInv /\ DownInv /\ AgeInv
<1>1. Init => Inv
  <2> SUFFICES ASSUME Init PROVE Inv
    OBVIOUS
  <2>1. DOMAIN mem = {}
    BY DEF Init
  <2>2. ClockInv /\ HealthInv
    BY IdleCycle DEF Init, ClockInv, HealthInv
  <2> QED
    BY <2>1, <2>2, TypeInit DEF WaitInv, DownInv, AgeInv
<1>2. Inv /\ [Next]_vars => Inv'
  BY TypeStep, ClockStep, HealthStep, WaitStep, DownStep, AgeStep
<1>3. Inv => RecordedInTime
  <2> SUFFICES ASSUME Inv, Ttl > Interval + CycleTime,
                      NEW id \in DOMAIN mem, mem[id].since > Due
               PROVE  id \in DOMAIN rec
    BY DEF RecordedInTime
  <2>1. PICK t \in 1..Interval : t = timer
    BY DEF TypeInv, FlagsOK
  <2>2. PICK s \in Nat : s = mem[id].since
    BY BoundsNat DEF TypeInv, MemOK, Counters
  <2>3. PICK k \in {0, Interval} : k = Slack
    BY DEF Slack
  <2>4. Due = k + Interval + CycleTime
    BY <2>3, TransferAssumption DEF Due, Slack
  <2>5. Interval \in Nat /\ CycleTime \in Nat /\ t \in Nat /\ t >= 1 /\ t <= Interval /\ k \in Nat
    BY <2>3, TransferAssumption
  <2>6. s > k + Interval + CycleTime
    BY <2>2, <2>4
  <2>7. CASE Awaited(id)
    <3>1. Interval - t <= CycleTime
      <4>1. CASE pending
        BY <2>1, <2>5, <4>1 DEF ClockInv
      <4>2. CASE cycle.step # "idle"
        BY <2>1, <4>2 DEF ClockInv, Past, TypeInv, Cycles
      <4> QED
        BY <2>7, <4>1, <4>2 DEF Awaited
    <3>2. ~(s <= Interval + k + (Interval - t))
      BY <2>5, <2>6, <3>1
    <3> QED
      BY <2>1, <2>2, <2>3, <2>7, <3>2 DEF AgeInv, AgeOf, Listed, Past
  <2>8. CASE ~Awaited(id)
    <3>1. ~(s <= k + (Interval - t))
      BY <2>5, <2>6
    <3> QED
      BY <2>1, <2>2, <2>3, <2>8, <3>1 DEF AgeInv, AgeOf, Listed, Past
  <2> QED
    BY <2>7, <2>8
<1> QED
  BY <1>1, <1>2, <1>3, PTL DEF Spec
=============================================================================
