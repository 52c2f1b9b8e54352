------------------------- MODULE RateLimiterProofs -------------------------
(***************************************************************************)
(* Safety of the composed service: what the cleanup cycle, run by its loop *)
(* and once more at shutdown, keeps of the abusers while requests go on.   *)
(***************************************************************************)
EXTENDS RateLimiter, CounterProofs

Steps == {"idle", "known", "keep", "drop", "unknown", "upsert", "forget", "done"}
KnownSteps   == {"known", "keep", "drop"}
UnknownSteps == {"unknown", "upsert", "forget"}
Snaps == [id : Ids, abuser : BOOLEAN]

Todos  == SUBSET (ApiKeys \cup Snaps)
Curs   == Ids \cup {NoId}
Copies == AbuseRecords \cup {<< >>}
Marks  == SUBSET (ApiKeys \cup Ids)
RunRecs == [step : Steps, start : Nat, redisUp : BOOLEAN, todo : Todos, cur : Curs,
            copy : Copies, failed : Marks]

Requests == [id : Ids, step : {"lookup", "clock", "record"}, known : BOOLEAN,
             limit : Int, time : Nat]

\* The state of a cycle: what todo, cur and copy hold depends on the step.
RunShape(r) ==
  /\ run[r].step \in KnownSteps => run[r].todo \subseteq ApiKeys
  /\ run[r].step \in {"keep", "drop"} => \E a \in ApiKeys : run[r].cur = KeyId(a)
  /\ run[r].step \in UnknownSteps => run[r].todo \subseteq Snaps
  /\ run[r].step \in {"upsert", "forget"} => run[r].cur \in Ids
  /\ run[r].step = "upsert" => run[r].copy \in AbuseRecords

RunsOK == run \in [Runs -> RunRecs] /\ \A r \in Runs : RunShape(r)

\* Counters of both maps.
MapsOK == /\ DOMAIN known \subseteq ApiKeys /\ \A a \in DOMAIN known : known[a] \in Counters
          /\ DOMAIN unknown \subseteq Ids /\ \A id \in DOMAIN unknown : unknown[id] \in Counters

\* Only a request with a key is looked up, and only such a one is known.
ReqsOK == /\ DOMAIN req \subseteq Procs
          /\ \A p \in DOMAIN req :
               /\ req[p] \in Requests
               /\ req[p].step = "lookup" \/ req[p].known => req[p].id[1] = "key"

RedisOK ==
  /\ DOMAIN db1 \subseteq ApiKeys /\ \A a \in DOMAIN db1 : db1[a] \in Limits \cup {Unparseable}
  /\ DOMAIN abuse \subseteq Ids /\ \A id \in DOMAIN abuse : abuse[id] \in AbuseRecords

\* No clock reading is in the future.
TimesOK == /\ \A p \in DOMAIN req : req[p].time <= now
           /\ \A r \in Runs : run[r].start <= now

Phases == {"running", "draining", "final", "cancelled", "stopped"}
ScalarsOK == /\ now \in Nat /\ now <= MaxNow
             /\ healthy \in BOOLEAN /\ timedOut \in BOOLEAN /\ phase \in Phases
             /\ issued \in Nat /\ issued <= MaxRequests
             /\ failures \in Nat /\ failures <= MaxFailures
             /\ edits \in Nat /\ edits <= MaxEdits
             /\ earned \subseteq Ids

TypeInv == ScalarsOK /\ MapsOK /\ RedisOK /\ ReqsOK /\ RunsOK /\ TimesOK
-----------------------------------------------------------------------------
\* The identity of a key is told apart from that of an address by its prefix.
LEMMA KeyIds ==
  ASSUME NEW id \in Ids, id[1] = "key"
  PROVE  id[2] \in ApiKeys /\ id = KeyId(id[2])
  BY DEF Ids, KeyId, IpId

\* What transfer writes for a counter is an abuse record with its hits.
LEMMA AbuseRecordType ==
  ASSUME NEW c \in Counters
  PROVE  AbuseRecord(c) \in AbuseRecords /\ AbuseRecord(c).AbuseHits = c.Hits
<1>1. Unix(c.FirstRequest) \in Nat /\ Unix(c.LastRequest) \in Nat
  BY ClockAssumption, DivNat DEF Unix, Counters
<1> QED
  BY <1>1 DEF AbuseRecord, AbuseRecords, Counters

\* DeleteIfInactive removes at most the entry of its identity, and only if it
\* is inactive.
LEMMA DeleteFacts ==
  ASSUME NEW m, NEW id, NEW t, NEW d, d = DeleteIfInactive(m, id, t)
  PROVE  /\ DOMAIN d \subseteq DOMAIN m
         /\ \A j \in DOMAIN d : d[j] = m[j]
         /\ \A j \in DOMAIN m : j # id => j \in DOMAIN d
         /\ id \in DOMAIN d => ~IsInactive(m[id], t)
         /\ id \in DOMAIN m /\ id \notin DOMAIN d => IsInactive(m[id], t)
<1>1. CASE id \in DOMAIN m /\ IsInactive(m[id], t)
  BY <1>1, WithoutFacts DEF DeleteIfInactive
<1>2. CASE ~(id \in DOMAIN m /\ IsInactive(m[id], t))
  BY <1>2 DEF DeleteIfInactive
<1> QED
  BY <1>1, <1>2
-----------------------------------------------------------------------------
(* What each step of a cycle does to its own state.                         *)

Others(r) == \A q \in Runs : q # r => run'[q] = run[q]

\* The fields of a cycle, and what may be stored in them.
LEMMA RunMembers ==
  ASSUME RunsOK, NEW r \in Runs
  PROVE  /\ run[r] \in RunRecs /\ run[r].failed \in Marks
         /\ \A x \in ApiKeys \cup Ids : run[r].failed \cup {x} \in Marks
         /\ Ids \subseteq Curs /\ NoId \in Curs
         /\ AbuseRecords \subseteq Copies /\ << >> \in Copies
         /\ {} \in Todos /\ run[r].todo \in Todos
         /\ \A x : run[r].todo \ {x} \in Todos
<1>1. run[r] \in RunRecs
  BY DEF RunsOK
<1>2. run[r].todo \in Todos /\ run[r].failed \in Marks
  BY <1>1 DEF RunRecs
<1> QED
  BY <1>1, <1>2 DEF Curs, Copies, Todos, Marks

\* The names of the steps of a cycle.
LEMMA StepNames ==
  /\ "idle" \in Steps /\ "known" \in Steps /\ "keep" \in Steps /\ "drop" \in Steps
  /\ "unknown" \in Steps /\ "upsert" \in Steps /\ "forget" \in Steps /\ "done" \in Steps
  BY DEF Steps

\* A cycle that has not begun.
LEMMA NoRunFields ==
  /\ NoRun \in RunRecs
  /\ NoRun.step = "idle" /\ NoRun.start = 0 /\ NoRun.todo = {} /\ NoRun.failed = {}
<1>1. {} \in Todos /\ NoId \in Curs /\ << >> \in Copies /\ "idle" \in Steps /\ {} \in Marks
  BY DEF Curs, Copies, Todos, Steps, Marks
<1> QED
  BY <1>1 DEF NoRun, RunRecs

\* Run: the clock reading and the snapshot of the known map.
LEMMA RunStartEffect ==
  ASSUME RunsOK, MapsOK, now \in Nat, NEW r \in Runs, RunStart(r)
  PROVE  /\ RunsOK' /\ Others(r) /\ UNCHANGED <<known, unknown, abuse, healthy, failures>>
         /\ run[r].step = "idle" /\ (r = "final" => phase = "final")
         /\ run'[r].step = "known" /\ run'[r].start = now
         /\ run'[r].todo = DOMAIN known /\ run'[r].failed = {}
<1>1. run' = [run EXCEPT ![r] = [NoRun EXCEPT !.step = "known", !.start = now,
                                              !.todo = KnownSnapshot]]
  BY DEF RunStart
<1>2. KnownSnapshot \in Todos /\ KnownSnapshot \subseteq ApiKeys /\ "known" \in Steps
  BY DEF KnownSnapshot, MapsOK, Todos, Steps
<1>3. run' \in [Runs -> RunRecs]
  BY <1>1, <1>2, NoRunFields DEF RunsOK, RunRecs
<1>4. /\ run'[r].step = "known" /\ run'[r].start = now
      /\ run'[r].todo = KnownSnapshot /\ run'[r].failed = {} /\ Others(r)
  BY <1>1, NoRunFields DEF RunsOK, Others, RunRecs
<1>5. RunShape(r)'
  BY <1>2, <1>4 DEF RunShape, KnownSteps, UnknownSteps
<1>6. ASSUME NEW q \in Runs PROVE RunShape(q)'
  BY <1>4, <1>5 DEF RunsOK, RunShape, Others
<1>7. RunsOK'
  BY <1>3, <1>6 DEF RunsOK
<1>8. UNCHANGED <<known, unknown, abuse, healthy, failures>>
  BY DEF RunStart, counterVars, redisVars
<1> QED
  BY <1>4, <1>7, <1>8 DEF RunStart, At, KnownSnapshot

\* runKnown: one LimitExists; an error skips the key.
LEMMA KnownExistsEffect ==
  ASSUME RunsOK, NEW r \in Runs, KnownExists(r)
  PROVE  /\ RunsOK' /\ Others(r) /\ UNCHANGED <<known, unknown, abuse>>
         /\ run[r].step = "known" /\ run'[r].start = run[r].start
         /\ \E a \in run[r].todo :
              /\ run'[r].todo = run[r].todo \ {a}
              /\ \/ /\ run'[r].step \in {"keep", "drop"} /\ run'[r].cur = KeyId(a)
                    /\ run'[r].failed = run[r].failed
                    /\ Succeeds(r)
                 \/ /\ run'[r].step = "known" /\ run'[r].failed = run[r].failed \cup {a}
                    /\ Fails(r)
<1>0. UNCHANGED <<known, unknown, abuse>>
  BY DEF KnownExists, counterVars, redisVars
<1>1. PICK a \in run[r].todo :
       \/ /\ Succeeds(r)
          /\ run' = [run EXCEPT ![r].todo = @ \ {a}, ![r].cur = KeyId(a),
                                ![r].step = IF LimitExists(a) THEN "keep" ELSE "drop"]
       \/ /\ Fails(r)
          /\ run' = [run EXCEPT ![r].todo = @ \ {a}, ![r].failed = @ \cup {a}]
  BY DEF KnownExists
<1>2. run[r].step = "known" /\ a \in ApiKeys /\ run[r].todo \subseteq ApiKeys
  BY <1>1 DEF KnownExists, At, RunsOK, RunShape, KnownSteps
<1>3. KeyId(a) \in Ids
  BY <1>2 DEF Ids
<1>4. CASE /\ Succeeds(r)
           /\ run' = [run EXCEPT ![r].todo = @ \ {a}, ![r].cur = KeyId(a),
                                ![r].step = IF LimitExists(a) THEN "keep" ELSE "drop"]
  <2> DEFINE st == IF LimitExists(a) THEN "keep" ELSE "drop"
  <2>0. st \in Steps /\ KeyId(a) \in Curs
    BY <1>3, StepNames, RunMembers
  <2>5. run' = [run EXCEPT ![r].todo = @ \ {a}, ![r].cur = KeyId(a), ![r].step = st]
    BY <1>4
  <2> HIDE DEF st
  <2>1. run' \in [Runs -> RunRecs]
    BY <2>0, <2>5, RunMembers DEF RunsOK, RunRecs
  <2>2. /\ run'[r].step \in {"keep", "drop"} /\ run'[r].cur = KeyId(a)
        /\ run'[r].todo = run[r].todo \ {a} /\ run'[r].failed = run[r].failed
        /\ run'[r].start = run[r].start /\ Others(r)
    BY <1>4 DEF RunsOK, RunRecs, Others
  <2>3. RunShape(r)'
    BY <1>2, <2>2 DEF RunShape, KnownSteps, UnknownSteps
  <2>4. ASSUME NEW q \in Runs PROVE RunShape(q)'
    BY <2>2, <2>3 DEF RunsOK, RunShape, Others
  <2> QED
    BY <1>0, <1>2, <1>4, <2>1, <2>2, <2>4 DEF RunsOK
<1>5. CASE /\ Fails(r)
           /\ run' = [run EXCEPT ![r].todo = @ \ {a}, ![r].failed = @ \cup {a}]
  <2>0. run[r].failed \cup {a} \in Marks
    BY <1>2, RunMembers
  <2>1. run' \in [Runs -> RunRecs]
    BY <1>5, <2>0, RunMembers, StepNames DEF RunsOK, RunRecs
  <2>2. /\ run'[r].step = "known"
        /\ run'[r].todo = run[r].todo \ {a} /\ run'[r].failed = run[r].failed \cup {a}
        /\ run'[r].start = run[r].start /\ Others(r)
    BY <1>2, <1>5 DEF RunsOK, RunRecs, Others
  <2>3. RunShape(r)'
    BY <1>2, <2>2 DEF RunShape, KnownSteps, UnknownSteps
  <2>4. ASSUME NEW q \in Runs PROVE RunShape(q)'
    BY <2>2, <2>3 DEF RunsOK, RunShape, Others
  <2> QED
    BY <1>0, <1>2, <1>5, <2>1, <2>2, <2>4 DEF RunsOK
<1> QED
  BY <1>1, <1>4, <1>5

\* runKnown: Delete of a key without a limit, DeleteIfInactive of another.
LEMMA KnownDeleteEffect ==
  ASSUME RunsOK, NEW r \in Runs, KnownDelete(r)
  PROVE  /\ RunsOK' /\ Others(r) /\ UNCHANGED <<unknown, abuse, healthy, failures>>
         /\ run[r].step \in {"keep", "drop"}
         /\ run'[r].step = "known" /\ run'[r].start = run[r].start
         /\ run'[r].todo = run[r].todo /\ run'[r].failed = run[r].failed
<1>1. run' = [run EXCEPT ![r].step = "known", ![r].cur = NoId]
  BY DEF KnownDelete
<1>2. run[r].step \in {"keep", "drop"} /\ run[r].todo \subseteq ApiKeys
  BY DEF KnownDelete, At, RunsOK, RunShape, KnownSteps
<1>3. run' \in [Runs -> RunRecs]
  BY <1>1, RunMembers, StepNames DEF RunsOK, RunRecs
<1>4. /\ run'[r].step = "known" /\ run'[r].start = run[r].start
      /\ run'[r].todo = run[r].todo /\ run'[r].failed = run[r].failed /\ Others(r)
  BY <1>1 DEF RunsOK, RunRecs, Others
<1>5. RunShape(r)'
  BY <1>2, <1>4 DEF RunShape, KnownSteps, UnknownSteps
<1>6. ASSUME NEW q \in Runs PROVE RunShape(q)'
  BY <1>4, <1>5 DEF RunsOK, RunShape, Others
<1>8. UNCHANGED <<unknown, abuse, healthy, failures>>
  BY DEF KnownDelete, redisVars
<1> QED
  BY <1>2, <1>3, <1>4, <1>6, <1>8 DEF RunsOK

\* runUnknown: the flag and the snapshot of the unknown map.
LEMMA UnknownStartEffect ==
  ASSUME RunsOK, MapsOK, healthy \in BOOLEAN, NEW r \in Runs, UnknownStart(r)
  PROVE  /\ RunsOK' /\ Others(r) /\ UNCHANGED <<known, unknown, abuse, healthy, failures>>
         /\ run[r].step = "known" /\ run[r].todo = {}
         /\ run'[r].step = "unknown" /\ run'[r].start = run[r].start
         /\ run'[r].todo = UnknownSnapshot /\ run'[r].failed = run[r].failed
         /\ run'[r].redisUp = healthy
<1>1. run' = [run EXCEPT ![r].step = "unknown", ![r].redisUp = healthy,
                         ![r].todo = UnknownSnapshot]
  BY DEF UnknownStart
<1>2. UnknownSnapshot \subseteq Snaps /\ UnknownSnapshot \in Todos
  <2>1. ASSUME NEW id \in DOMAIN unknown
        PROVE  IsAbuser(unknown[id]) \in BOOLEAN
    BY DEF IsAbuser
  <2> QED
    BY <2>1 DEF UnknownSnapshot, Snaps, MapsOK, Todos
<1>3. run' \in [Runs -> RunRecs]
  BY <1>1, <1>2, RunMembers, StepNames DEF RunsOK, RunRecs
<1>4. /\ run'[r].step = "unknown" /\ run'[r].start = run[r].start
      /\ run'[r].todo = UnknownSnapshot /\ run'[r].failed = run[r].failed /\ Others(r)
      /\ run'[r].redisUp = healthy
  BY <1>1 DEF RunsOK, RunRecs, Others
<1>5. RunShape(r)'
  BY <1>2, <1>4 DEF RunShape, KnownSteps, UnknownSteps
<1>6. ASSUME NEW q \in Runs PROVE RunShape(q)'
  BY <1>4, <1>5 DEF RunsOK, RunShape, Others
<1>8. UNCHANGED <<known, unknown, abuse, healthy, failures>>
  BY DEF UnknownStart, counterVars, redisVars
<1> QED
  BY <1>3, <1>4, <1>6, <1>8 DEF RunsOK, UnknownStart, At

\* runUnknown: the copy of an abuser, or nothing if it is gone.
LEMMA UnknownGetEffect ==
  ASSUME RunsOK, MapsOK, NEW r \in Runs, UnknownGet(r)
  PROVE  /\ RunsOK' /\ Others(r) /\ UNCHANGED <<known, unknown, abuse, healthy, failures>>
         /\ run[r].step = "unknown"
         /\ run'[r].start = run[r].start /\ run'[r].failed = run[r].failed
         /\ run'[r].redisUp = run[r].redisUp
         /\ \E s \in run[r].todo :
              /\ s.abuser /\ run[r].redisUp
              /\ run'[r].todo = run[r].todo \ {s}
              /\ \/ /\ s.id \in DOMAIN unknown /\ run'[r].step = "upsert"
                    /\ run'[r].cur = s.id /\ run'[r].copy = AbuseRecord(unknown[s.id])
                 \/ s.id \notin DOMAIN unknown /\ run'[r].step = "unknown"
<1>0. UNCHANGED <<known, unknown, abuse, healthy, failures>>
  BY DEF UnknownGet, counterVars, redisVars
<1>1. PICK s \in run[r].todo :
       /\ s.abuser /\ run[r].redisUp
       /\ run' = IF s.id \in DOMAIN unknown
                   THEN [run EXCEPT ![r].todo = @ \ {s}, ![r].cur = s.id,
                                    ![r].copy = AbuseRecord(unknown[s.id]),
                                    ![r].step = "upsert"]
                   ELSE [run EXCEPT ![r].todo = @ \ {s}]
  BY DEF UnknownGet
<1>2. run[r].step = "unknown" /\ run[r].todo \subseteq Snaps /\ s.id \in Ids
  BY <1>1 DEF UnknownGet, At, RunsOK, RunShape, UnknownSteps, Snaps
<1>3. CASE s.id \in DOMAIN unknown
  <2>0. run' = [run EXCEPT ![r].todo = @ \ {s}, ![r].cur = s.id,
                           ![r].copy = AbuseRecord(unknown[s.id]), ![r].step = "upsert"]
    BY <1>1, <1>3
  <2> DEFINE copy == AbuseRecord(unknown[s.id])
  <2>1. copy \in AbuseRecords
    BY <1>3, AbuseRecordType DEF MapsOK
  <2> HIDE DEF copy
  <2>2. run' = [run EXCEPT ![r].todo = @ \ {s}, ![r].cur = s.id,
                           ![r].copy = copy, ![r].step = "upsert"]
    BY <2>0 DEF copy
  <2>3. run' \in [Runs -> RunRecs]
    BY <1>2, <2>1, <2>2, RunMembers, StepNames DEF RunsOK, RunRecs
  <2>4. /\ run'[r].step = "upsert" /\ run'[r].cur = s.id /\ run'[r].copy = copy
        /\ run'[r].todo = run[r].todo \ {s} /\ run'[r].failed = run[r].failed
        /\ run'[r].start = run[r].start /\ run'[r].redisUp = run[r].redisUp /\ Others(r)
    BY <2>2 DEF RunsOK, RunRecs, Others
  <2>5. RunShape(r)'
    BY <1>2, <2>1, <2>4 DEF RunShape, KnownSteps, UnknownSteps
  <2>6. ASSUME NEW q \in Runs PROVE RunShape(q)'
    BY <2>4, <2>5 DEF RunsOK, RunShape, Others
  <2>7. RunsOK'
    BY <2>3, <2>6 DEF RunsOK
  <2> QED
    BY <1>0, <1>1, <1>2, <1>3, <2>4, <2>7 DEF copy
<1>4. CASE s.id \notin DOMAIN unknown
  <2>1. run' = [run EXCEPT ![r].todo = @ \ {s}]
    BY <1>1, <1>4
  <2>3. run' \in [Runs -> RunRecs]
    BY <2>1, RunMembers, StepNames DEF RunsOK, RunRecs
  <2>4. /\ run'[r].step = "unknown"
        /\ run'[r].todo = run[r].todo \ {s} /\ run'[r].failed = run[r].failed
        /\ run'[r].start = run[r].start /\ run'[r].redisUp = run[r].redisUp /\ Others(r)
    BY <1>2, <2>1 DEF RunsOK, RunRecs, Others
  <2>5. RunShape(r)'
    BY <1>2, <2>4 DEF RunShape, KnownSteps, UnknownSteps
  <2>6. ASSUME NEW q \in Runs PROVE RunShape(q)'
    BY <2>4, <2>5 DEF RunsOK, RunShape, Others
  <2>7. RunsOK'
    BY <2>3, <2>6 DEF RunsOK
  <2> QED
    BY <1>0, <1>1, <1>2, <1>4, <2>4, <2>7
<1> QED
  BY <1>3, <1>4

\* runUnknown: any other counter, collected if it is inactive.
LEMMA UnknownSkipEffect ==
  ASSUME RunsOK, NEW r \in Runs, UnknownSkip(r)
  PROVE  /\ RunsOK' /\ Others(r) /\ UNCHANGED <<known, abuse, healthy, failures>>
         /\ run[r].step = "unknown" /\ run'[r].step = "unknown"
         /\ run'[r].start = run[r].start /\ run'[r].failed = run[r].failed
         /\ run'[r].redisUp = run[r].redisUp
         /\ \E s \in run[r].todo :
              /\ ~(s.abuser /\ run[r].redisUp)
              /\ run'[r].todo = run[r].todo \ {s}
              /\ unknown' = DeleteIfInactive(unknown, s.id, run[r].start)
<1>1. PICK s \in run[r].todo :
       /\ ~(s.abuser /\ run[r].redisUp)
       /\ unknown' = DeleteIfInactive(unknown, s.id, run[r].start)
       /\ run' = [run EXCEPT ![r].todo = @ \ {s}]
  BY DEF UnknownSkip
<1>2. run[r].step = "unknown" /\ run[r].todo \subseteq Snaps
  BY <1>1 DEF UnknownSkip, At, RunsOK, RunShape, UnknownSteps
<1>3. run' \in [Runs -> RunRecs]
  BY <1>1, RunMembers, StepNames DEF RunsOK, RunRecs
<1>4. /\ run'[r].step = "unknown"
      /\ run'[r].todo = run[r].todo \ {s} /\ run'[r].failed = run[r].failed
      /\ run'[r].start = run[r].start /\ run'[r].redisUp = run[r].redisUp /\ Others(r)
  BY <1>2, <1>1 DEF RunsOK, RunRecs, Others
<1>5. RunShape(r)'
  BY <1>2, <1>4 DEF RunShape, KnownSteps, UnknownSteps
<1>6. ASSUME NEW q \in Runs PROVE RunShape(q)'
  BY <1>4, <1>5 DEF RunsOK, RunShape, Others
<1>7. RunsOK'
  BY <1>3, <1>6 DEF RunsOK
<1>8. UNCHANGED <<known, abuse, healthy, failures>>
  BY DEF UnknownSkip, redisVars
<1> QED
  BY <1>1, <1>2, <1>4, <1>7, <1>8

\* transfer: the copy is written, or the write fails.
LEMMA UpsertEffect ==
  ASSUME RunsOK, NEW r \in Runs, Upsert(r)
  PROVE  /\ RunsOK' /\ Others(r) /\ UNCHANGED <<known, unknown>>
         /\ run[r].step = "upsert" /\ run'[r].step = "forget"
         /\ run'[r].start = run[r].start /\ run'[r].redisUp = run[r].redisUp
         /\ run'[r].todo = run[r].todo /\ run'[r].cur = run[r].cur
         /\ run[r].failed \subseteq run'[r].failed
<1>2. run[r].step = "upsert" /\ run[r].todo \subseteq Snaps /\ run[r].cur \in Ids
  BY DEF Upsert, At, RunsOK, RunShape, UnknownSteps
<1>1. \/ run' = [run EXCEPT ![r].step = "forget"]
      \/ run' = [run EXCEPT ![r].step = "forget", ![r].failed = @ \cup {run[r].cur}]
  BY DEF Upsert
<1>0. run[r].failed \cup {run[r].cur} \in Marks
  BY <1>2, RunMembers
<1>3. run' \in [Runs -> RunRecs]
  BY <1>0, <1>1, RunMembers, StepNames DEF RunsOK, RunRecs
<1>4. /\ run'[r].step = "forget" /\ run'[r].cur = run[r].cur
      /\ run'[r].todo = run[r].todo /\ run[r].failed \subseteq run'[r].failed
      /\ run'[r].start = run[r].start /\ run'[r].redisUp = run[r].redisUp /\ Others(r)
  BY <1>1 DEF RunsOK, RunRecs, Others
<1>5. RunShape(r)'
  BY <1>2, <1>4 DEF RunShape, KnownSteps, UnknownSteps
<1>6. ASSUME NEW q \in Runs PROVE RunShape(q)'
  BY <1>4, <1>5 DEF RunsOK, RunShape, Others
<1>7. RunsOK'
  BY <1>3, <1>6 DEF RunsOK
<1>8. UNCHANGED <<known, unknown>>
  BY DEF Upsert, counterVars
<1> QED
  BY <1>2, <1>4, <1>7, <1>8

\* runUnknown after the transfer: DeleteIfInactive.
LEMMA ForgetEffect ==
  ASSUME RunsOK, NEW r \in Runs, Forget(r)
  PROVE  /\ RunsOK' /\ Others(r) /\ UNCHANGED <<known, abuse, healthy, failures>>
         /\ run[r].step = "forget" /\ run'[r].step = "unknown"
         /\ run'[r].start = run[r].start /\ run'[r].redisUp = run[r].redisUp
         /\ run'[r].todo = run[r].todo /\ run'[r].failed = run[r].failed
         /\ unknown' = DeleteIfInactive(unknown, run[r].cur, run[r].start)
<1>1. run' = [run EXCEPT ![r].step = "unknown", ![r].cur = NoId, ![r].copy = << >>]
  BY DEF Forget
<1>2. run[r].step = "forget" /\ run[r].todo \subseteq Snaps
  BY DEF Forget, At, RunsOK, RunShape, UnknownSteps
<1>3. run' \in [Runs -> RunRecs]
  BY <1>1, RunMembers, StepNames DEF RunsOK, RunRecs
<1>4. /\ run'[r].step = "unknown"
      /\ run'[r].todo = run[r].todo /\ run'[r].failed = run[r].failed
      /\ run'[r].start = run[r].start /\ run'[r].redisUp = run[r].redisUp /\ Others(r)
  BY <1>1 DEF RunsOK, RunRecs, Others
<1>5. RunShape(r)'
  BY <1>2, <1>4 DEF RunShape, KnownSteps, UnknownSteps
<1>6. ASSUME NEW q \in Runs PROVE RunShape(q)'
  BY <1>4, <1>5 DEF RunsOK, RunShape, Others
<1>7. RunsOK'
  BY <1>3, <1>6 DEF RunsOK
<1>8. UNCHANGED <<known, abuse, healthy, failures>>
  BY DEF Forget, redisVars
<1> QED
  BY <1>2, <1>4, <1>7, <1>8 DEF Forget

\* The end of Run: DBSize.
LEMMA FinishEffect ==
  ASSUME RunsOK, NEW r \in Runs, Finish(r)
  PROVE  /\ RunsOK' /\ Others(r) /\ UNCHANGED <<known, unknown, abuse>>
         /\ run[r].step = "unknown" /\ run[r].todo = {}
         /\ run'[r].step = IF r = "loop" THEN "idle" ELSE "done"
         /\ run'[r].start = 0
<1> DEFINE ended == [NoRun EXCEPT !.step = "done", !.failed = run[r].failed]
<1>1. run' = [run EXCEPT ![r] = IF r = "loop" THEN NoRun ELSE ended]
  BY DEF Finish
<1>2. ended \in RunRecs /\ ended.step = "done" /\ ended.start = 0
  BY RunMembers, StepNames, NoRunFields DEF RunRecs
<1> HIDE DEF ended
<1>3. run' \in [Runs -> RunRecs]
  BY <1>1, <1>2, NoRunFields DEF RunsOK
<1>4. /\ run'[r].step = IF r = "loop" THEN "idle" ELSE "done"
      /\ run'[r].start = 0 /\ Others(r)
  <2>1. CASE r = "loop"
    BY <2>1, <1>1, NoRunFields DEF RunsOK, Others
  <2>2. CASE r # "loop"
    BY <2>2, <1>1, <1>2 DEF RunsOK, Others
  <2> QED
    BY <2>1, <2>2
<1>5. RunShape(r)'
  BY <1>4 DEF RunShape, KnownSteps, UnknownSteps
<1>6. ASSUME NEW q \in Runs PROVE RunShape(q)'
  BY <1>4, <1>5 DEF RunsOK, RunShape, Others
<1>7. RunsOK'
  BY <1>3, <1>6 DEF RunsOK
<1>8. UNCHANGED <<known, unknown, abuse>>
  BY DEF Finish, counterVars, redisVars
<1> QED
  BY <1>4, <1>7, <1>8 DEF Finish, At
-----------------------------------------------------------------------------
(* Type correctness.                                                        *)

\* What an operation of the store does to the health flag: it is cleared only
\* by a counted failure or by the cancellation of the loop's context.
LEMMA OpFacts ==
  ASSUME ScalarsOK, NEW ctx, Succeeds(ctx) \/ Fails(ctx)
  PROVE  /\ healthy' \in BOOLEAN
         /\ failures' \in Nat /\ failures' <= MaxFailures
         /\ failures' = 0 => failures = 0
         /\ failures' = 0 /\ phase # "cancelled" => healthy' = TRUE
         /\ failures' = 0 /\ Fails(ctx) => ctx = "loop" /\ phase = "cancelled"
<1>1. healthy' \in BOOLEAN
  BY Zenon DEF Succeeds, Fails
<1>2. CASE Succeeds(ctx)
  <2>1. failures' = failures /\ healthy' = TRUE /\ ~Cancelled(ctx)
    BY <1>2 DEF Succeeds
  <2>2. Fails(ctx) => FALSE
    BY <2>1, Zenon DEF Fails
  <2> QED
    BY <1>1, <2>1, <2>2 DEF ScalarsOK
<1>3. CASE Fails(ctx)
  <2>1. CASE Cancelled(ctx)
    <3>1. failures' = failures /\ ctx = "loop" /\ phase = "cancelled"
      BY <1>3, <2>1 DEF Fails, Cancelled
    <3> QED
      BY <1>1, <3>1 DEF ScalarsOK
  <2>2. CASE ~Cancelled(ctx)
    <3>1. failures < MaxFailures /\ failures' = failures + 1
      BY <1>3, <2>2 DEF Fails
    <3>2. failures' \in Nat /\ failures' <= MaxFailures /\ failures' # 0
      BY <3>1, ServiceAssumption DEF ScalarsOK
    <3> QED
      BY <1>1, <3>2
  <2> QED
    BY <2>1, <2>2
<1> QED
  BY <1>2, <1>3

\* A limit of redisDB1 is an int64.
LEMMA LimitInt == ASSUME NEW v \in Limits \cup {Unparseable}, v # Unparseable PROVE v \in Int
  BY ServiceAssumption, ConfigAssumption DEF Int64

\* The type invariant holds initially.
LEMMA TypeInit == Init => TypeInv
<1> SUFFICES ASSUME Init PROVE TypeInv
  OBVIOUS
<1>1. ScalarsOK
  <2>1. healthy \in BOOLEAN /\ timedOut \in BOOLEAN
    BY Zenon DEF Init
  <2> QED
    BY <2>1, ServiceAssumption DEF Init, ScalarsOK, Phases
<1>2. MapsOK
  BY DEF Init, MapsOK
<1>3. RedisOK
  BY ServiceAssumption DEF Init, RedisOK
<1>4. ReqsOK
  BY DEF Init, ReqsOK
<1>5. RunsOK
  <2>1. run \in [Runs -> RunRecs] /\ \A r \in Runs : run[r].step = "idle"
    BY NoRunFields DEF Init
  <2> QED
    BY <2>1 DEF RunsOK, RunShape, KnownSteps, UnknownSteps
<1>6. TimesOK
  BY NoRunFields DEF Init, TimesOK
<1> QED
  BY <1>1, <1>2, <1>3, <1>4, <1>5, <1>6 DEF TypeInv

\* The request a step leaves behind.
LEMMA RequestType ==
  ASSUME NEW id \in Ids, NEW st \in {"lookup", "clock", "record"}, NEW k \in BOOLEAN,
         NEW l \in Int, NEW t \in Nat
  PROVE  /\ Request(id, st, k, l, t) \in Requests
         /\ Request(id, st, k, l, t).id = id /\ Request(id, st, k, l, t).step = st
         /\ Request(id, st, k, l, t).known = k /\ Request(id, st, k, l, t).time = t
  BY DEF Request, Requests

\* A request arrives: a key is looked up, an address is counted at once.
LEMMA ArriveEffect ==
  ASSUME TypeInv, NEW p \in Procs, NEW id \in Ids, Arrive(p, id)
  PROVE  /\ ReqsOK' /\ p \notin DOMAIN req /\ DOMAIN req' = DOMAIN req \cup {p}
         /\ \A q \in DOMAIN req : req'[q] = req[q]
         /\ req'[p].id = id /\ req'[p].time = 0
         /\ req'[p].step = (IF id[1] = "key" THEN "lookup" ELSE "clock")
         /\ req'[p].known = FALSE
<1> DEFINE st == IF id[1] = "key" THEN "lookup" ELSE "clock"
           new == Request(id, st, FALSE, GlobalLimit, 0)
<1>1. st \in {"lookup", "clock", "record"} /\ GlobalLimit \in Int
  BY ConfigAssumption
<1>3. st = "lookup" => id[1] = "key"
  OBVIOUS
<1> HIDE DEF st
<1>2. new \in Requests /\ new.id = id /\ new.step = st /\ new.known = FALSE /\ new.time = 0
  BY <1>1 DEF Request, Requests
<1>4. req' = Put(req, p, new) /\ p \notin DOMAIN req
  BY DEF Arrive, st
<1> HIDE DEF new
<1>5. DOMAIN req' = DOMAIN req \cup {p} /\ req'[p] = new
      /\ \A q \in DOMAIN req : req'[q] = req[q]
  BY <1>4 DEF Put
<1>6. ReqsOK'
  BY <1>2, <1>3, <1>5 DEF ReqsOK, TypeInv
<1> QED
  BY <1>2, <1>4, <1>5, <1>6 DEF st

\* LookupLimit: a hit is known, a miss or an error is not.
LEMMA LookupEffect ==
  ASSUME TypeInv, NEW p \in Procs, LookupLimit(p)
  PROVE  /\ ReqsOK' /\ p \in DOMAIN req /\ DOMAIN req' = DOMAIN req
         /\ \A q \in DOMAIN req : q # p => req'[q] = req[q]
         /\ req[p].step = "lookup" /\ req'[p].id = req[p].id
         /\ req'[p].step = "clock" /\ req'[p].time = 0
         /\ \/ Succeeds("request") /\ (req'[p].known <=> /\ req[p].id[2] \in DOMAIN db1
                                                       /\ db1[req[p].id[2]] # Unparseable)
            \/ Fails("request")
<1> DEFINE id == req[p].id
           found == id[2] \in DOMAIN db1 /\ db1[id[2]] # Unparseable
           limit == IF found THEN db1[id[2]] ELSE GlobalLimit
           hit == Request(id, "clock", found, limit, 0)
           miss == Request(id, "clock", FALSE, GlobalLimit, 0)
<1>1. p \in DOMAIN req /\ req[p].step = "lookup" /\ id \in Ids /\ id[1] = "key"
  BY DEF LookupLimit, TypeInv, ReqsOK, Requests
<1>2. found \in BOOLEAN /\ limit \in Int /\ GlobalLimit \in Int
  BY LimitInt, ConfigAssumption DEF TypeInv, RedisOK
<1>8. found <=> req[p].id[2] \in DOMAIN db1 /\ db1[req[p].id[2]] # Unparseable
  OBVIOUS
<1> HIDE DEF found, limit
<1>3. /\ hit \in Requests /\ hit.id = id /\ hit.step = "clock" /\ hit.known = found
      /\ hit.time = 0
  BY <1>1, <1>2, RequestType
<1>4. /\ miss \in Requests /\ miss.id = id /\ miss.step = "clock" /\ miss.known = FALSE
      /\ miss.time = 0
  BY <1>1, <1>2 DEF Request, Requests
<1>5. \/ Succeeds("request") /\ req' = [req EXCEPT ![p] = hit]
      \/ Fails("request") /\ req' = [req EXCEPT ![p] = miss]
  BY DEF LookupLimit, found, limit
<1> HIDE DEF hit, miss
<1>6. /\ DOMAIN req' = DOMAIN req /\ \A q \in DOMAIN req : q # p => req'[q] = req[q]
      /\ \/ Succeeds("request") /\ req'[p] = hit
         \/ Fails("request") /\ req'[p] = miss
  BY <1>1, <1>5
<1>7. ReqsOK'
  BY <1>1, <1>3, <1>4, <1>6 DEF ReqsOK, TypeInv
<1> QED
  BY <1>1, <1>3, <1>4, <1>6, <1>7, <1>8

\* RecordRequest reads the clock before it takes the mutex.
LEMMA ReadClockEffect ==
  ASSUME TypeInv, NEW p \in Procs, ReadClock(p)
  PROVE  /\ ReqsOK' /\ p \in DOMAIN req /\ DOMAIN req' = DOMAIN req
         /\ \A q \in DOMAIN req : q # p => req'[q] = req[q]
         /\ req[p].step = "clock" /\ req'[p].id = req[p].id
         /\ req'[p].step = "record" /\ req'[p].time = now /\ req'[p].known = req[p].known
<1> DEFINE new == [req[p] EXCEPT !.step = "record", !.time = now]
<1>1. p \in DOMAIN req /\ req[p].step = "clock" /\ req[p] \in Requests /\ now \in Nat
      /\ (req[p].known => req[p].id[1] = "key")
  BY DEF ReadClock, TypeInv, ReqsOK, ScalarsOK
<1>2. /\ new \in Requests /\ new.id = req[p].id /\ new.step = "record"
      /\ new.known = req[p].known /\ new.time = now
  BY <1>1 DEF Requests
<1>3. req' = [req EXCEPT ![p] = new]
  BY DEF ReadClock
<1> HIDE DEF new
<1>4. DOMAIN req' = DOMAIN req /\ req'[p] = new
      /\ \A q \in DOMAIN req : q # p => req'[q] = req[q]
  BY <1>1, <1>3
<1>5. ReqsOK'
  BY <1>1, <1>2, <1>4 DEF ReqsOK, TypeInv
<1> QED
  BY <1>1, <1>2, <1>4, <1>5

\* RecordRequest puts the request's counter into one of the two maps; it was
\* last used at the clock reading, and its hits have not become fewer.
LEMMA RecordEffect ==
  ASSUME TypeInv, NEW p \in Procs, RecordRequest(p)
  PROVE  /\ ReqsOK' /\ MapsOK' /\ earned' \subseteq Ids
         /\ p \in DOMAIN req /\ req[p].step = "record" /\ req[p].id \in Ids
         /\ DOMAIN req' = DOMAIN req \ {p} /\ \A q \in DOMAIN req' : req'[q] = req[q]
         /\ \/ /\ req[p].known
               /\ \E a \in ApiKeys :
                    /\ DOMAIN known' = DOMAIN known \cup {a}
                    /\ \A b \in DOMAIN known : b # a => known'[b] = known[b]
                    /\ known'[a].LastRequest = req[p].time
               /\ UNCHANGED <<unknown, earned>>
            \/ /\ ~req[p].known
               /\ DOMAIN unknown' = DOMAIN unknown \cup {req[p].id}
               /\ \A id \in DOMAIN unknown : id # req[p].id => unknown'[id] = unknown[id]
               /\ unknown'[req[p].id].LastRequest = req[p].time
               /\ req[p].id \in DOMAIN unknown =>
                    unknown'[req[p].id].Hits >= unknown[req[p].id].Hits
               /\ earned \subseteq earned' /\ earned' \subseteq earned \cup {req[p].id}
               /\ IsAbuser(unknown'[req[p].id]) => req[p].id \in earned'
               /\ req[p].id \in earned' \ earned => IsAbuser(unknown'[req[p].id])
               /\ UNCHANGED known
<1>1. PICK rq : rq = req[p]
  OBVIOUS
<1> DEFINE a == rq.id[2]
           k == Recorded(CounterOf(known, a, rq.time), rq.time, rq.limit, rq.limit)
           u == Recorded(CounterOf(unknown, rq.id, rq.time), rq.time, rq.limit, AbuseThreshold)
<1>2. /\ p \in DOMAIN req /\ rq.step = "record" /\ rq.id \in Ids /\ rq.time \in Nat
      /\ (rq.known => a \in ApiKeys)
  BY <1>1, KeyIds DEF RecordRequest, TypeInv, ReqsOK, Requests
<1>3. /\ CounterOf(known, a, rq.time) \in Counters
      /\ CounterOf(unknown, rq.id, rq.time) \in Counters
      /\ rq.id \in DOMAIN unknown => CounterOf(unknown, rq.id, rq.time) = unknown[rq.id]
  BY <1>2, NewCounterType DEF CounterOf, TypeInv, MapsOK
<1>4. k \in Counters /\ k.LastRequest = rq.time
  BY <1>2, <1>3, RecordedFacts
<1>5. /\ u \in Counters /\ u.LastRequest = rq.time
      /\ rq.id \in DOMAIN unknown => u.Hits >= unknown[rq.id].Hits
  BY <1>2, <1>3, RecordedFacts
<1>6. /\ req' = Without(req, p)
      /\ IF rq.known
           THEN known' = Put(known, a, k) /\ UNCHANGED <<unknown, earned>>
           ELSE /\ unknown' = Put(unknown, rq.id, u)
                /\ earned' = IF IsAbuser(u) THEN earned \cup {rq.id} ELSE earned
                /\ UNCHANGED known
  BY <1>1 DEF RecordRequest
<1>7. DOMAIN req' = DOMAIN req \ {p} /\ \A q \in DOMAIN req' : req'[q] = req[q]
  BY <1>6, WithoutFacts
<1>8. ReqsOK'
  BY <1>7 DEF ReqsOK, TypeInv
<1> HIDE DEF k, u, a
<1>9. CASE rq.known
  <2>1. /\ DOMAIN known' = DOMAIN known \cup {a} /\ known'[a] = k
        /\ \A b \in DOMAIN known : b # a => known'[b] = known[b]
    BY <1>6, <1>9 DEF Put
  <2>2. MapsOK'
    BY <1>2, <1>4, <1>6, <1>9, <2>1 DEF MapsOK, TypeInv
  <2> QED
    BY <1>1, <1>2, <1>4, <1>6, <1>7, <1>8, <1>9, <2>1, <2>2 DEF TypeInv, ScalarsOK
<1>10. CASE ~rq.known
  <2>1. /\ DOMAIN unknown' = DOMAIN unknown \cup {rq.id} /\ unknown'[rq.id] = u
        /\ \A id \in DOMAIN unknown : id # rq.id => unknown'[id] = unknown[id]
    BY <1>6, <1>10 DEF Put
  <2>2. MapsOK'
    BY <1>2, <1>5, <1>6, <1>10, <2>1 DEF MapsOK, TypeInv
  <2>3. /\ earned \subseteq earned' /\ earned' \subseteq earned \cup {rq.id}
        /\ IsAbuser(u) => rq.id \in earned'
        /\ rq.id \in earned' \ earned => IsAbuser(u)
    BY <1>6, <1>10
  <2> QED
    BY <1>1, <1>2, <1>5, <1>6, <1>7, <1>8, <1>10, <2>1, <2>2, <2>3 DEF TypeInv, ScalarsOK
<1> QED
  BY <1>9, <1>10

\* Steps that leave the cycles, the maps, the requests and the abuse records
\* alone: those that only see the health flag or change redisDB1.
LEMMA QuietType ==
  ASSUME TypeInv, ScalarsOK', RedisOK', UNCHANGED <<now, known, unknown, req, run>>
  PROVE  TypeInv'
  BY DEF TypeInv, MapsOK, ReqsOK, RunsOK, RunShape, TimesOK

\* The steps of a cycle preserve the type invariant.
LEMMA RunStepType ==
  ASSUME TypeInv, NEW r \in Runs, RunStart(r) \/ RunStep(r)
  PROVE  TypeInv'
<1>0. /\ ScalarsOK /\ MapsOK /\ RedisOK /\ ReqsOK /\ RunsOK /\ TimesOK
      /\ now \in Nat /\ healthy \in BOOLEAN
  BY DEF TypeInv, ScalarsOK
<1>1. CASE RunStart(r)
  <2>1. RunsOK' /\ Others(r) /\ run'[r].start = now
    BY <1>0, <1>1, RunStartEffect
  <2>2. ScalarsOK' /\ MapsOK' /\ RedisOK' /\ ReqsOK'
    BY <1>0, <1>1 DEF RunStart, ScalarsOK, MapsOK, RedisOK, ReqsOK, counterVars, redisVars
  <2>3. TimesOK'
    BY <1>0, <1>1, <2>1 DEF TimesOK, Others, RunStart
  <2> QED
    BY <2>1, <2>2, <2>3 DEF TypeInv
<1>2. CASE KnownExists(r)
  <2>1. RunsOK' /\ Others(r) /\ run'[r].start = run[r].start
    BY <1>0, <1>2, KnownExistsEffect
  <2>2. MapsOK' /\ RedisOK' /\ ReqsOK'
    BY <1>0, <1>2 DEF KnownExists, MapsOK, RedisOK, ReqsOK, counterVars, redisVars
  <2>3. ScalarsOK'
    <3>1. Succeeds(r) \/ Fails(r)
      BY <1>2 DEF KnownExists
    <3>2. UNCHANGED <<now, timedOut, phase, issued, edits, earned>>
      BY <1>2 DEF KnownExists
    <3> QED
      BY <1>0, <3>1, <3>2, OpFacts DEF ScalarsOK
  <2>4. TimesOK'
    BY <1>0, <1>2, <2>1 DEF TimesOK, Others, KnownExists
  <2> QED
    BY <2>1, <2>2, <2>3, <2>4 DEF TypeInv
<1>3. CASE KnownDelete(r)
  <2>1. RunsOK' /\ Others(r) /\ run'[r].start = run[r].start
    BY <1>0, <1>3, KnownDeleteEffect
  <2>2. ScalarsOK' /\ RedisOK' /\ ReqsOK' /\ unknown' = unknown
    BY <1>0, <1>3 DEF KnownDelete, ScalarsOK, RedisOK, ReqsOK, redisVars
  <2>3. MapsOK'
    <3>1. DOMAIN known' \subseteq DOMAIN known /\ \A a \in DOMAIN known' : known'[a] = known[a]
      BY <1>3 DEF KnownDelete, DeleteIfInactive, Without
    <3> QED
      BY <1>0, <2>2, <3>1 DEF MapsOK
  <2>4. TimesOK'
    BY <1>0, <1>3, <2>1 DEF TimesOK, Others, KnownDelete
  <2> QED
    BY <2>1, <2>2, <2>3, <2>4 DEF TypeInv
<1>4. CASE UnknownStart(r)
  <2>1. RunsOK' /\ Others(r) /\ run'[r].start = run[r].start
    BY <1>0, <1>4, UnknownStartEffect
  <2>2. ScalarsOK' /\ MapsOK' /\ RedisOK' /\ ReqsOK'
    BY <1>0, <1>4 DEF UnknownStart, ScalarsOK, MapsOK, RedisOK, ReqsOK, counterVars, redisVars
  <2>3. TimesOK'
    BY <1>0, <1>4, <2>1 DEF TimesOK, Others, UnknownStart
  <2> QED
    BY <2>1, <2>2, <2>3 DEF TypeInv
<1>5. CASE UnknownGet(r)
  <2>1. RunsOK' /\ Others(r) /\ run'[r].start = run[r].start
    BY <1>0, <1>5, UnknownGetEffect
  <2>2. ScalarsOK' /\ MapsOK' /\ RedisOK' /\ ReqsOK'
    BY <1>0, <1>5 DEF UnknownGet, ScalarsOK, MapsOK, RedisOK, ReqsOK, counterVars, redisVars
  <2>3. TimesOK'
    BY <1>0, <1>5, <2>1 DEF TimesOK, Others, UnknownGet
  <2> QED
    BY <2>1, <2>2, <2>3 DEF TypeInv
<1>6. CASE UnknownSkip(r)
  <2>1. RunsOK' /\ Others(r) /\ run'[r].start = run[r].start
    BY <1>0, <1>6, UnknownSkipEffect
  <2>2. ScalarsOK' /\ RedisOK' /\ ReqsOK' /\ known' = known
    BY <1>0, <1>6 DEF UnknownSkip, ScalarsOK, RedisOK, ReqsOK, redisVars
  <2>3. MapsOK'
    <3>1. PICK s : unknown' = DeleteIfInactive(unknown, s.id, run[r].start)
      BY <1>6 DEF UnknownSkip
    <3> QED
      BY <1>0, <2>2, <3>1, DeleteFacts DEF MapsOK
  <2>4. TimesOK'
    BY <1>0, <1>6, <2>1 DEF TimesOK, Others, UnknownSkip
  <2> QED
    BY <2>1, <2>2, <2>3, <2>4 DEF TypeInv
<1>7. CASE Upsert(r)
  <2>1. RunsOK' /\ Others(r) /\ run'[r].start = run[r].start
    BY <1>0, <1>7, UpsertEffect
  <2>2. MapsOK' /\ ReqsOK'
    BY <1>0, <1>7 DEF Upsert, MapsOK, ReqsOK, counterVars
  <2>3. ScalarsOK'
    <3>1. Succeeds(r) \/ Fails(r)
      BY <1>7 DEF Upsert
    <3>2. UNCHANGED <<now, timedOut, phase, issued, edits, earned>>
      BY <1>7 DEF Upsert
    <3> QED
      BY <1>0, <3>1, <3>2, OpFacts DEF ScalarsOK
  <2>4. RedisOK'
    <3>1. run[r].cur \in Ids /\ run[r].copy \in AbuseRecords
      BY <1>0, <1>7 DEF Upsert, At, RunsOK, RunShape
    <3>2. abuse' = abuse \/ abuse' = Put(abuse, run[r].cur, run[r].copy)
      BY <1>7 DEF Upsert
    <3> QED
      BY <1>0, <1>7, <3>1, <3>2 DEF RedisOK, Put, Upsert
  <2>5. TimesOK'
    BY <1>0, <1>7, <2>1 DEF TimesOK, Others, Upsert
  <2> QED
    BY <2>1, <2>2, <2>3, <2>4, <2>5 DEF TypeInv
<1>8. CASE Forget(r)
  <2>1. RunsOK' /\ Others(r) /\ run'[r].start = run[r].start
        /\ unknown' = DeleteIfInactive(unknown, run[r].cur, run[r].start)
    BY <1>0, <1>8, ForgetEffect
  <2>2. ScalarsOK' /\ RedisOK' /\ ReqsOK' /\ known' = known
    BY <1>0, <1>8 DEF Forget, ScalarsOK, RedisOK, ReqsOK, redisVars
  <2>3. MapsOK'
    BY <1>0, <2>1, <2>2, DeleteFacts DEF MapsOK
  <2>4. TimesOK'
    BY <1>0, <1>8, <2>1 DEF TimesOK, Others, Forget
  <2> QED
    BY <2>1, <2>2, <2>3, <2>4 DEF TypeInv
<1>9. CASE Finish(r)
  <2>1. RunsOK' /\ Others(r) /\ run'[r].start = 0
    BY <1>0, <1>9, FinishEffect
  <2>2. MapsOK' /\ RedisOK' /\ ReqsOK'
    BY <1>0, <1>9 DEF Finish, MapsOK, RedisOK, ReqsOK, counterVars, redisVars
  <2>3. ScalarsOK'
    <3>1. Succeeds(r) \/ Fails(r)
      BY <1>9 DEF Finish
    <3>2. UNCHANGED <<now, timedOut, phase, issued, edits, earned>>
      BY <1>9 DEF Finish
    <3> QED
      BY <1>0, <3>1, <3>2, OpFacts DEF ScalarsOK
  <2>4. TimesOK'
    BY <1>0, <1>9, <2>1 DEF TimesOK, Others, Finish
  <2> QED
    BY <2>1, <2>2, <2>3, <2>4 DEF TypeInv
<1> QED
  BY <1>1, <1>2, <1>3, <1>4, <1>5, <1>6, <1>7, <1>8, <1>9 DEF RunStep

\* The steps of a request preserve the type invariant.
LEMMA RequestStepType ==
  ASSUME TypeInv, NEW p \in Procs,
         (\E id \in Ids : Arrive(p, id)) \/ LookupLimit(p) \/ ReadClock(p) \/ RecordRequest(p)
  PROVE  TypeInv'
<1>0. /\ ScalarsOK /\ MapsOK /\ RedisOK /\ ReqsOK /\ RunsOK /\ TimesOK
      /\ now \in Nat
  BY DEF TypeInv, ScalarsOK
<1>1. ASSUME NEW id \in Ids, Arrive(p, id) PROVE TypeInv'
  <2>1. ReqsOK' /\ DOMAIN req' = DOMAIN req \cup {p} /\ req'[p].time = 0
        /\ \A q \in DOMAIN req : req'[q] = req[q]
    BY <1>1, ArriveEffect
  <2>2. MapsOK' /\ RedisOK' /\ RunsOK'
    BY <1>0, <1>1 DEF Arrive, MapsOK, RedisOK, RunsOK, RunShape, counterVars, redisVars
  <2>3. ScalarsOK'
    BY <1>0, <1>1, ServiceAssumption DEF Arrive, ScalarsOK
  <2>4. TimesOK'
    <3>1. UNCHANGED <<now, run>>
      BY <1>1 DEF Arrive
    <3>2. ASSUME NEW q \in DOMAIN req' PROVE req'[q].time <= now
      <4>1. CASE q = p
        BY <1>0, <2>1, <4>1
      <4>2. CASE q # p
        BY <1>0, <2>1, <4>2 DEF TimesOK
      <4> QED
        BY <4>1, <4>2
    <3> QED
      BY <1>0, <3>1, <3>2 DEF TimesOK
  <2> QED
    BY <2>1, <2>2, <2>3, <2>4 DEF TypeInv
<1>2. CASE LookupLimit(p)
  <2>1. ReqsOK' /\ DOMAIN req' = DOMAIN req /\ req'[p].time = 0
        /\ \A q \in DOMAIN req : q # p => req'[q] = req[q]
    BY <1>2, LookupEffect
  <2>2. MapsOK' /\ RedisOK' /\ RunsOK'
    BY <1>0, <1>2 DEF LookupLimit, MapsOK, RedisOK, RunsOK, RunShape, counterVars, redisVars
  <2>3. ScalarsOK'
    <3>1. Succeeds("request") \/ Fails("request")
      BY <1>2 DEF LookupLimit
    <3>2. UNCHANGED <<now, timedOut, phase, issued, edits, earned>>
      BY <1>2 DEF LookupLimit
    <3> QED
      BY <1>0, <3>1, <3>2, OpFacts DEF ScalarsOK
  <2>4. TimesOK'
    BY <1>0, <1>2, <2>1 DEF TimesOK, LookupLimit
  <2> QED
    BY <2>1, <2>2, <2>3, <2>4 DEF TypeInv
<1>3. CASE ReadClock(p)
  <2>1. ReqsOK' /\ DOMAIN req' = DOMAIN req /\ req'[p].time = now
        /\ \A q \in DOMAIN req : q # p => req'[q] = req[q]
    BY <1>3, ReadClockEffect
  <2>2. MapsOK' /\ RedisOK' /\ RunsOK' /\ ScalarsOK'
    BY <1>0, <1>3 DEF ReadClock, MapsOK, RedisOK, RunsOK, RunShape, ScalarsOK, counterVars,
                      redisVars
  <2>3. TimesOK'
    BY <1>0, <1>3, <2>1 DEF TimesOK, ReadClock
  <2> QED
    BY <2>1, <2>2, <2>3 DEF TypeInv
<1>4. CASE RecordRequest(p)
  <2>1. ReqsOK' /\ MapsOK' /\ earned' \subseteq Ids /\ DOMAIN req' = DOMAIN req \ {p}
        /\ \A q \in DOMAIN req' : req'[q] = req[q]
    BY <1>4, RecordEffect
  <2>2. RedisOK' /\ RunsOK'
    BY <1>0, <1>4 DEF RecordRequest, RedisOK, RunsOK, RunShape, redisVars
  <2>3. ScalarsOK'
    <3>1. UNCHANGED <<now, healthy, phase, issued, failures, edits, timedOut>>
      BY <1>4 DEF RecordRequest
    <3> QED
      BY <1>0, <2>1, <3>1 DEF ScalarsOK
  <2>4. TimesOK'
    BY <1>0, <1>4, <2>1 DEF TimesOK, RecordRequest
  <2> QED
    BY <2>1, <2>2, <2>3, <2>4 DEF TypeInv
<1> QED
  BY <1>1, <1>2, <1>3, <1>4

\* The steps of Redis' owner, the admin, the readiness probe and the gauges.
Outside ==
  \/ Readyz \/ UpdateRedisGauges \/ Scan
  \/ \E a \in ApiKeys, v \in Limits \cup {Unparseable} : SetLimit(a, v)
  \/ \E S \in SUBSET ApiKeys : DeleteLimits(S)
  \/ PurgeLimits

\* What they leave alone.
LEMMA OutsideEffect ==
  ASSUME ScalarsOK, RedisOK, Outside
  PROVE  /\ UNCHANGED <<now, known, unknown, abuse, req, run, phase, issued, earned, timedOut>>
         /\ ScalarsOK' /\ RedisOK'
         /\ edits' = 0 => edits = 0 /\ db1' = db1
         /\ failures' = 0 => failures = 0
         /\ failures' = 0 /\ phase # "cancelled" => healthy' = healthy \/ healthy' = TRUE
<1>1. ASSUME NEW ctx, Observe(ctx)
      PROVE  /\ UNCHANGED <<now, known, unknown, abuse, req, run, phase, issued, earned, timedOut>>
             /\ UNCHANGED <<db1, edits>>
             /\ Succeeds(ctx) \/ Fails(ctx)
  BY <1>1 DEF Observe, counterVars, redisVars
<1>2. ASSUME NEW S \in SUBSET ApiKeys, Remove(S)
      PROVE  /\ UNCHANGED <<now, known, unknown, abuse, req, run, phase, issued, earned, timedOut>>
             /\ edits < MaxEdits /\ edits' = edits + 1
             /\ DOMAIN db1' \subseteq DOMAIN db1 /\ \A a \in DOMAIN db1' : db1'[a] = db1[a]
             /\ Succeeds("request") \/ Fails("request")
  BY <1>2 DEF Remove, counterVars
<1>3. ASSUME NEW a \in ApiKeys, NEW v \in Limits \cup {Unparseable}, SetLimit(a, v)
      PROVE  /\ UNCHANGED <<now, known, unknown, abuse, req, run, phase, issued, earned, timedOut>>
             /\ UNCHANGED <<healthy, failures>>
             /\ edits < MaxEdits /\ edits' = edits + 1
             /\ DOMAIN db1' \subseteq ApiKeys
             /\ \A b \in DOMAIN db1' : db1'[b] \in Limits \cup {Unparseable}
  BY <1>3 DEF SetLimit, counterVars, Put, RedisOK
<1>4. CASE \E ctx \in {"request", "loop"} : Observe(ctx)
  <2>1. PICK ctx \in {"request", "loop"} : Observe(ctx)
    BY <1>4
  <2> QED
    BY <1>1, <2>1, OpFacts DEF ScalarsOK, RedisOK
<1>5. CASE \E S \in SUBSET ApiKeys : Remove(S)
  <2>1. PICK S \in SUBSET ApiKeys : Remove(S)
    BY <1>5
  <2>2. RedisOK'
    BY <1>2, <2>1 DEF RedisOK
  <2>3. edits' \in Nat /\ edits' <= MaxEdits /\ edits' # 0
    BY <1>2, <2>1, ServiceAssumption DEF ScalarsOK
  <2> QED
    BY <1>2, <2>1, <2>2, <2>3, OpFacts DEF ScalarsOK
<1>6. CASE \E a \in ApiKeys, v \in Limits \cup {Unparseable} : SetLimit(a, v)
  <2>1. PICK a \in ApiKeys, v \in Limits \cup {Unparseable} : SetLimit(a, v)
    BY <1>6
  <2>2. RedisOK'
    BY <1>3, <2>1 DEF RedisOK
  <2>3. edits' \in Nat /\ edits' <= MaxEdits /\ edits' # 0
    BY <1>3, <2>1, ServiceAssumption DEF ScalarsOK
  <2> QED
    BY <1>3, <2>1, <2>2, <2>3 DEF ScalarsOK
<1> QED
  BY <1>4, <1>5, <1>6 DEF Outside, Readyz, UpdateRedisGauges, Scan, DeleteLimits, PurgeLimits

\* The steps of the shutdown sequence.
Shutdown == Sigterm \/ Drained \/ DrainTimeout \/ Cancel \/ Exit

\* The steps of the shutdown touch only its own state.
LEMMA ShutdownEffect ==
  ASSUME Shutdown
  PROVE  /\ UNCHANGED <<now, known, unknown, db1, abuse, healthy, req, run, issued, failures,
                        edits, earned>>
         /\ \/ phase = "running" /\ phase' = "draining" /\ timedOut' = timedOut
            \/ /\ phase = "draining" /\ phase' = "final"
               /\ (DOMAIN req = {} /\ timedOut' = timedOut) \/ timedOut' = TRUE
            \/ /\ phase = "final" /\ phase' = "cancelled" /\ timedOut' = timedOut
               /\ run["final"].step = "done"
            \/ phase = "cancelled" /\ phase' = "stopped" /\ timedOut' = timedOut
  BY DEF Shutdown, Sigterm, Drained, DrainTimeout, Cancel, Exit, Goto, counterVars, redisVars

\* Every step preserves the type invariant.
LEMMA TypeStep == TypeInv /\ [Next]_vars => TypeInv'
<1> SUFFICES ASSUME TypeInv, [Next]_vars PROVE TypeInv'
  OBVIOUS
<1>0. ScalarsOK /\ RedisOK /\ TimesOK
  BY DEF TypeInv
<1>1. CASE Tick
  <2>1. /\ UNCHANGED <<known, unknown, db1, abuse, healthy, req, run, phase, issued, failures,
                       edits, earned, timedOut>>
        /\ now < MaxNow /\ now' = now + 1
    BY <1>1 DEF Tick, counterVars, redisVars
  <2>2. ScalarsOK'
    BY <1>0, <2>1, ServiceAssumption DEF ScalarsOK
  <2>3. MapsOK' /\ RedisOK' /\ ReqsOK' /\ RunsOK'
    BY <2>1 DEF TypeInv, MapsOK, RedisOK, ReqsOK, RunsOK, RunShape
  <2>4. TimesOK'
    <3>1. ASSUME NEW p \in DOMAIN req PROVE req[p].time <= now + 1
      BY <1>0 DEF TypeInv, ScalarsOK, TimesOK, ReqsOK, Requests
    <3>2. ASSUME NEW r \in Runs PROVE run[r].start <= now + 1
      BY <1>0 DEF TypeInv, ScalarsOK, TimesOK, RunsOK, RunRecs
    <3> QED
      BY <2>1, <3>1, <3>2 DEF TimesOK
  <2> QED
    BY <2>2, <2>3, <2>4 DEF TypeInv
<1>2. CASE Outside
  BY <1>0, <1>2, OutsideEffect, QuietType
<1>3. CASE \E p \in Procs : \/ \E id \in Ids : Arrive(p, id)
                            \/ LookupLimit(p) \/ ReadClock(p) \/ RecordRequest(p)
  BY <1>3, RequestStepType
<1>4. CASE \E r \in Runs : RunStart(r) \/ RunStep(r)
  BY <1>4, RunStepType
<1>5. CASE Shutdown
  <2>1. ScalarsOK'
    BY <1>0, <1>5, ShutdownEffect DEF ScalarsOK, Phases
  <2>2. RedisOK' /\ UNCHANGED <<now, known, unknown, req, run>>
    BY <1>0, <1>5, ShutdownEffect DEF RedisOK
  <2> QED
    BY <2>1, <2>2, QuietType
<1>6. CASE UNCHANGED vars
  <2>1. ScalarsOK' /\ RedisOK' /\ UNCHANGED <<now, known, unknown, req, run>>
    BY <1>0, <1>6 DEF vars, ScalarsOK, RedisOK
  <2> QED
    BY <2>1, QuietType
<1> QED
  BY <1>1, <1>2, <1>3, <1>4, <1>5, <1>6 DEF Next, Outside, Shutdown

\* Every variable of the composed service always has its type.
THEOREM TypeCorrect == Spec => []TypeOK
<1>1. TypeInv => TypeOK
  BY DEF TypeInv, TypeOK, ScalarsOK, MapsOK, RedisOK, ReqsOK, TimesOK, Requests, Phases
<1> QED
  BY <1>1, TypeInit, TypeStep, PTL DEF Spec
-----------------------------------------------------------------------------
(* Phases, the clock and the health flag.                                   *)

Serving == phase \in {"running", "draining"}
Open    == phase \in {"running", "draining", "final"}

\* The final cycle runs between draining and the cancellation; after a
\* complete drain no request is left.
PhaseInv == /\ Serving => run["final"].step = "idle"
            /\ ~Serving /\ ~timedOut => DOMAIN req = {}
            /\ ~Open => run["final"].step = "done"

\* A request at the map's lock read the clock at most MaxLag ago.
LagInv == \A p \in DOMAIN req : req[p].step = "record" => now <= req[p].time + MaxLag

\* Without a failure the health flag stays set until rootCtx is cancelled, and
\* so does the copy runUnknown took of it.
HealthInv == failures = 0 /\ Open =>
               /\ healthy = TRUE
               /\ \A r \in Runs : run[r].step \in UnknownSteps => run[r].redisUp = TRUE

\* What no step of a cycle changes.
LEMMA RunFrame ==
  ASSUME TypeInv, NEW r \in Runs, RunStart(r) \/ RunStep(r)
  PROVE  /\ UNCHANGED <<now, req, phase, timedOut, earned, edits, db1>>
         /\ phase # "stopped"
         /\ failures' = 0 => failures = 0
         /\ failures' = 0 /\ Open => healthy' = healthy \/ healthy' = TRUE
<1>1. UNCHANGED <<now, req, phase, timedOut, earned, edits, db1>> /\ phase # "stopped"
  BY DEF RunStep, RunStart, KnownExists, KnownDelete, UnknownStart, UnknownGet, UnknownSkip,
         Upsert, Forget, Finish, At, Alive, redisVars
<1>2. UNCHANGED <<healthy, failures>> \/ Succeeds(r) \/ Fails(r)
  BY DEF RunStep, RunStart, KnownExists, KnownDelete, UnknownStart, UnknownGet, UnknownSkip,
         Upsert, Forget, Finish
<1> QED
  BY <1>1, <1>2, OpFacts DEF TypeInv, Open

\* Steps that touch neither the counters nor the records nor a cycle.
IdleStep == /\ UNCHANGED <<known, unknown, abuse, run, earned>>
            /\ failures' = 0 => failures = 0
            /\ timedOut => timedOut'
            /\ Serving' => Serving
            /\ Open' => Open

\* A step counts a request, belongs to a cycle, or touches neither map.
LEMMA StepKinds ==
  ASSUME TypeInv, [Next]_vars
  PROVE  \/ IdleStep
         \/ \E p \in Procs : RecordRequest(p)
         \/ \E r \in Runs : RunStart(r) \/ RunStep(r)
<1>1. CASE Tick \/ UNCHANGED vars
  BY <1>1 DEF Tick, vars, counterVars, redisVars, IdleStep, Serving, Open
<1>2. CASE Outside
  BY <1>2, OutsideEffect DEF TypeInv, IdleStep, Serving, Open
<1>3. ASSUME NEW p \in Procs, NEW id \in Ids, Arrive(p, id) PROVE IdleStep
  BY <1>3 DEF Arrive, counterVars, redisVars, IdleStep, Serving, Open
<1>4. ASSUME NEW p \in Procs, LookupLimit(p) PROVE IdleStep
  <2>1. Succeeds("request") \/ Fails("request")
    BY <1>4 DEF LookupLimit
  <2>2. UNCHANGED <<known, unknown, abuse, run, earned, timedOut, phase>>
    BY <1>4 DEF LookupLimit, counterVars, redisVars
  <2> QED
    BY <2>1, <2>2, OpFacts DEF TypeInv, IdleStep, Serving, Open
<1>5. ASSUME NEW p \in Procs, ReadClock(p) PROVE IdleStep
  BY <1>5 DEF ReadClock, counterVars, redisVars, IdleStep, Serving, Open
<1>6. CASE Shutdown
  BY <1>6, ShutdownEffect DEF IdleStep, Serving, Open, TypeInv, ScalarsOK
<1> QED
  BY <1>1, <1>2, <1>3, <1>4, <1>5, <1>6 DEF Next, Outside, Shutdown

\* What counting a request does not change.
LEMMA RecordFrame ==
  ASSUME NEW p, RecordRequest(p)
  PROVE  UNCHANGED <<now, abuse, db1, healthy, run, phase, failures, edits, timedOut>>
  BY DEF RecordRequest, redisVars

\* Every step keeps the phases of the shutdown in order.
LEMMA PhaseStep == TypeInv /\ PhaseInv /\ [Next]_vars => PhaseInv'
<1> SUFFICES ASSUME TypeInv, PhaseInv, [Next]_vars PROVE PhaseInv'
  OBVIOUS
<1>1. CASE Tick \/ UNCHANGED vars
  BY <1>1 DEF Tick, vars, PhaseInv, Serving, Open
<1>2. CASE Outside
  BY <1>2, OutsideEffect DEF TypeInv, PhaseInv, Serving, Open
<1>3. ASSUME NEW p \in Procs, NEW id \in Ids, Arrive(p, id) PROVE PhaseInv'
  BY <1>3 DEF Arrive, PhaseInv, Serving, Open
<1>4. ASSUME NEW p \in Procs, LookupLimit(p) PROVE PhaseInv'
  <2>1. DOMAIN req' = DOMAIN req
    BY <1>4, LookupEffect
  <2> QED
    BY <1>4, <2>1 DEF LookupLimit, PhaseInv, Serving, Open
<1>5. ASSUME NEW p \in Procs, ReadClock(p) PROVE PhaseInv'
  <2>1. DOMAIN req' = DOMAIN req
    BY <1>5, ReadClockEffect
  <2> QED
    BY <1>5, <2>1 DEF ReadClock, PhaseInv, Serving, Open
<1>6. ASSUME NEW p \in Procs, RecordRequest(p) PROVE PhaseInv'
  <2>1. DOMAIN req' = DOMAIN req \ {p}
    BY <1>6, RecordEffect
  <2> QED
    BY <1>6, <2>1, RecordFrame DEF PhaseInv, Serving, Open
<1>7. ASSUME NEW r \in Runs, RunStart(r) \/ RunStep(r) PROVE PhaseInv'
  <2>1. UNCHANGED <<req, phase, timedOut>>
    BY <1>7, RunFrame
  <2>2. RunsOK /\ MapsOK /\ now \in Nat /\ healthy \in BOOLEAN
    BY DEF TypeInv, ScalarsOK
  <2>3. CASE r = "loop"
    <3>1. Others(r)
      BY <1>7, <2>2, RunStartEffect, KnownExistsEffect, KnownDeleteEffect, UnknownStartEffect,
         UnknownGetEffect, UnknownSkipEffect, UpsertEffect, ForgetEffect, FinishEffect
         DEF RunStep
    <3>2. run'["final"] = run["final"]
      BY <2>3, <3>1 DEF Others, Runs
    <3> QED
      BY <2>1, <3>2 DEF PhaseInv, Serving, Open
  <2>4. CASE r = "final"
    <3>1. Open /\ ~Serving
      <4>1. RunStart(r) => phase = "final"
        BY <2>4 DEF RunStart
      <4>2. RunStep(r) => run["final"].step \notin {"idle", "done"}
        BY <2>4 DEF RunStep, At, KnownExists, KnownDelete, UnknownStart, UnknownGet,
                    UnknownSkip, Upsert, Forget, Finish
      <4> QED
        BY <1>7, <4>1, <4>2 DEF PhaseInv, Serving, Open
    <3> QED
      BY <2>1, <3>1 DEF PhaseInv, Serving, Open
  <2> QED
    BY <2>3, <2>4 DEF Runs
<1>8. CASE Shutdown
  BY <1>8, ShutdownEffect DEF PhaseInv, Serving, Open
<1> QED
  BY <1>1, <1>2, <1>3, <1>4, <1>5, <1>6, <1>7, <1>8 DEF Next, Outside, Shutdown

\* Every step keeps clock readings at most MaxLag old.
LEMMA LagStep == TypeInv /\ LagInv /\ [Next]_vars => LagInv'
<1> SUFFICES ASSUME TypeInv, LagInv, [Next]_vars PROVE LagInv'
  OBVIOUS
<1>1. CASE Tick
  <2>1. req' = req /\ now' = now + 1
        /\ \A p \in DOMAIN req : req[p].step = "record" => now < req[p].time + MaxLag
    BY <1>1 DEF Tick
  <2>2. ASSUME NEW p \in DOMAIN req, req[p].step = "record"
        PROVE  now + 1 <= req[p].time + MaxLag
    BY <2>1, <2>2, ServiceAssumption DEF TypeInv, ReqsOK, Requests, ScalarsOK
  <2> QED
    BY <2>1, <2>2 DEF LagInv
<1>2. CASE Outside
  BY <1>2, OutsideEffect DEF TypeInv, LagInv
<1>3. ASSUME NEW p \in Procs, NEW id \in Ids, Arrive(p, id) PROVE LagInv'
  <2>1. /\ DOMAIN req' = DOMAIN req \cup {p} /\ req'[p].step # "record"
        /\ \A q \in DOMAIN req : req'[q] = req[q]
    BY <1>3, ArriveEffect
  <2> QED
    BY <1>3, <2>1 DEF Arrive, LagInv
<1>4. ASSUME NEW p \in Procs, LookupLimit(p) PROVE LagInv'
  <2>1. /\ DOMAIN req' = DOMAIN req /\ req'[p].step # "record"
        /\ \A q \in DOMAIN req : q # p => req'[q] = req[q]
    BY <1>4, LookupEffect
  <2> QED
    BY <1>4, <2>1 DEF LookupLimit, LagInv
<1>5. ASSUME NEW p \in Procs, ReadClock(p) PROVE LagInv'
  <2>1. /\ DOMAIN req' = DOMAIN req /\ req'[p].time = now
        /\ \A q \in DOMAIN req : q # p => req'[q] = req[q]
    BY <1>5, ReadClockEffect
  <2>2. now <= now + MaxLag
    BY ServiceAssumption DEF TypeInv, ScalarsOK
  <2> QED
    BY <1>5, <2>1, <2>2 DEF ReadClock, LagInv
<1>6. ASSUME NEW p \in Procs, RecordRequest(p) PROVE LagInv'
  <2>1. DOMAIN req' = DOMAIN req \ {p} /\ \A q \in DOMAIN req' : req'[q] = req[q]
    BY <1>6, RecordEffect
  <2> QED
    BY <1>6, <2>1, RecordFrame DEF LagInv
<1>7. ASSUME NEW r \in Runs, RunStart(r) \/ RunStep(r) PROVE LagInv'
  BY <1>7, RunFrame DEF LagInv
<1>8. CASE Shutdown \/ UNCHANGED vars
  BY <1>8, ShutdownEffect DEF LagInv, vars
<1> QED
  BY <1>1, <1>2, <1>3, <1>4, <1>5, <1>6, <1>7, <1>8 DEF Next, Outside, Shutdown

\* Every step keeps the flag up while no operation has failed.
LEMMA HealthStep == TypeInv /\ HealthInv /\ [Next]_vars => HealthInv'
<1> SUFFICES ASSUME TypeInv, HealthInv, [Next]_vars, failures' = 0, Open'
             PROVE  /\ healthy' = TRUE
                    /\ \A r \in Runs : run'[r].step \in UnknownSteps => run'[r].redisUp = TRUE
  BY DEF HealthInv
<1>0. RunsOK /\ MapsOK /\ ScalarsOK /\ now \in Nat /\ healthy \in BOOLEAN
  BY DEF TypeInv, ScalarsOK
<1>1. CASE Tick \/ UNCHANGED vars
  BY <1>1 DEF Tick, vars, HealthInv, Open
<1>2. CASE Outside
  BY <1>2, OutsideEffect DEF TypeInv, HealthInv, Open
<1>3. ASSUME NEW p \in Procs, (\E id \in Ids : Arrive(p, id)) \/ ReadClock(p) \/ RecordRequest(p)
      PROVE  HealthInv'
  <2>1. UNCHANGED <<healthy, failures, run, phase>>
    BY <1>3 DEF Arrive, ReadClock, RecordRequest
  <2> QED
    BY <2>1 DEF HealthInv, Open
<1>4. ASSUME NEW p \in Procs, LookupLimit(p) PROVE HealthInv'
  <2>1. Succeeds("request") \/ Fails("request")
    BY <1>4 DEF LookupLimit
  <2>2. UNCHANGED <<run, phase>>
    BY <1>4 DEF LookupLimit
  <2> QED
    BY <1>0, <2>1, <2>2, OpFacts DEF HealthInv, Open
<1>5. ASSUME NEW r \in Runs, RunStart(r) \/ RunStep(r) PROVE HealthInv'
  <2>1. Open /\ failures = 0 /\ healthy = TRUE /\ healthy' = TRUE
    BY <1>5, RunFrame DEF HealthInv, Open
  <2>2. Others(r) /\ (run'[r].step \in UnknownSteps => run'[r].redisUp = TRUE)
    <3>1. CASE RunStart(r)
      BY <1>0, <3>1, RunStartEffect DEF UnknownSteps
    <3>2. CASE KnownExists(r)
      BY <1>0, <3>2, KnownExistsEffect DEF UnknownSteps
    <3>3. CASE KnownDelete(r)
      BY <1>0, <3>3, KnownDeleteEffect DEF UnknownSteps
    <3>4. CASE UnknownStart(r)
      BY <1>0, <2>1, <3>4, UnknownStartEffect
    <3>5. CASE UnknownGet(r)
      BY <1>0, <2>1, <3>5, UnknownGetEffect DEF HealthInv, UnknownSteps
    <3>6. CASE UnknownSkip(r)
      BY <1>0, <2>1, <3>6, UnknownSkipEffect DEF HealthInv, UnknownSteps
    <3>7. CASE Upsert(r)
      BY <1>0, <2>1, <3>7, UpsertEffect DEF HealthInv, UnknownSteps
    <3>8. CASE Forget(r)
      BY <1>0, <2>1, <3>8, ForgetEffect DEF HealthInv, UnknownSteps
    <3>9. CASE Finish(r)
      BY <1>0, <3>9, FinishEffect DEF UnknownSteps
    <3> QED
      BY <1>5, <3>1, <3>2, <3>3, <3>4, <3>5, <3>6, <3>7, <3>8, <3>9 DEF RunStep
  <2> QED
    BY <2>1, <2>2 DEF HealthInv, Others
<1>6. CASE Shutdown
  BY <1>6, ShutdownEffect DEF HealthInv, Open
<1> QED
  BY <1>1, <1>2, <1>3, <1>4, <1>5, <1>6 DEF Next, Outside, Shutdown, HealthInv
-----------------------------------------------------------------------------
(* The snapshot of a cycle and what it says of the map later.               *)

\* A cycle visits an identity once.
SnapInv ==
  \A r \in Runs : run[r].step \in UnknownSteps =>
    /\ \A s \in run[r].todo, t \in run[r].todo : s.id = t.id => s = t
    /\ run[r].step # "unknown" => \A s \in run[r].todo : s.id # run[r].cur

\* The verdict of the snapshot still holds when the counter is read again: as
\* long as requests come in only the loop runs, and it removes no counter that
\* it has yet to visit.
VerdictInv ==
  ~timedOut =>
    \A r \in Runs :
      /\ run[r].step = "upsert" => run[r].copy.AbuseHits >= TransferThreshold
      /\ run[r].step \in UnknownSteps =>
           \A s \in run[r].todo : s.abuser =>
             /\ Serving => s.id \in DOMAIN unknown
             /\ s.id \in DOMAIN unknown => IsAbuser(unknown[s.id])

\* Whoever is an abuser in the map, on a cycle's list or about to be recorded
\* has reached the threshold, also when the counter has become another since.
EarnedInv ==
  /\ \A id \in DOMAIN unknown : IsAbuser(unknown[id]) => id \in earned
  /\ \A r \in Runs :
       /\ run[r].step \in UnknownSteps => \A s \in run[r].todo : s.abuser => s.id \in earned
       /\ run[r].step = "upsert" => run[r].cur \in earned

\* The snapshot tells an identity's verdict, and names it once.
LEMMA SnapshotFacts ==
  /\ \A s \in UnknownSnapshot : s.id \in DOMAIN unknown /\ (s.abuser <=> IsAbuser(unknown[s.id]))
  /\ \A s \in UnknownSnapshot, t \in UnknownSnapshot : s.id = t.id => s = t
  /\ \A id \in DOMAIN unknown : \E s \in UnknownSnapshot : s.id = id
<1>1. ASSUME NEW s \in UnknownSnapshot
      PROVE  /\ s.id \in DOMAIN unknown /\ (s.abuser <=> IsAbuser(unknown[s.id]))
             /\ s = [id |-> s.id, abuser |-> IsAbuser(unknown[s.id])]
  <2>1. PICK id \in DOMAIN unknown : s = [id |-> id, abuser |-> IsAbuser(unknown[id])]
    BY DEF UnknownSnapshot
  <2>2. s.id = id
    BY <2>1
  <2>3. s.abuser <=> IsAbuser(unknown[id])
    BY <2>1, Zenon
  <2> QED
    BY <2>1, <2>2, <2>3
<1>2. ASSUME NEW s \in UnknownSnapshot, NEW t \in UnknownSnapshot, s.id = t.id PROVE s = t
  BY <1>1, <1>2
<1>3. ASSUME NEW id \in DOMAIN unknown PROVE \E s \in UnknownSnapshot : s.id = id
  <2>1. [id |-> id, abuser |-> IsAbuser(unknown[id])] \in UnknownSnapshot
    BY DEF UnknownSnapshot
  <2> QED
    BY <2>1
<1> QED
  BY <1>1, <1>2, <1>3

\* A cycle only ever takes elements off its list, except at the snapshots.
LEMMA TodoFacts ==
  ASSUME TypeInv, NEW r \in Runs, RunStart(r) \/ RunStep(r), run'[r].step \in UnknownSteps
  PROVE  \/ /\ UnknownStart(r)
            /\ run'[r].step = "unknown" /\ run'[r].todo = UnknownSnapshot
         \/ /\ run[r].step \in UnknownSteps /\ run'[r].todo \subseteq run[r].todo
            /\ run'[r].start = run[r].start
<1>0. RunsOK /\ MapsOK /\ ScalarsOK /\ now \in Nat /\ healthy \in BOOLEAN
  BY DEF TypeInv, ScalarsOK
<1>1. CASE RunStart(r)
  BY <1>0, <1>1, RunStartEffect DEF UnknownSteps
<1>2. CASE KnownExists(r)
  BY <1>0, <1>2, KnownExistsEffect DEF UnknownSteps
<1>3. CASE KnownDelete(r)
  BY <1>0, <1>3, KnownDeleteEffect DEF UnknownSteps
<1>4. CASE UnknownStart(r)
  BY <1>0, <1>4, UnknownStartEffect
<1>5. CASE UnknownGet(r)
  BY <1>0, <1>5, UnknownGetEffect DEF UnknownSteps
<1>6. CASE UnknownSkip(r)
  BY <1>0, <1>6, UnknownSkipEffect DEF UnknownSteps
<1>7. CASE Upsert(r)
  BY <1>0, <1>7, UpsertEffect DEF UnknownSteps
<1>8. CASE Forget(r)
  BY <1>0, <1>8, ForgetEffect DEF UnknownSteps
<1>9. CASE Finish(r)
  BY <1>0, <1>9, FinishEffect DEF UnknownSteps
<1> QED
  BY <1>1, <1>2, <1>3, <1>4, <1>5, <1>6, <1>7, <1>8, <1>9 DEF RunStep

\* A step of a cycle leaves the other cycle alone.
LEMMA OthersKept ==
  ASSUME TypeInv, NEW r \in Runs, RunStart(r) \/ RunStep(r)
  PROVE  Others(r)
<1>0. RunsOK /\ MapsOK /\ now \in Nat /\ healthy \in BOOLEAN
  BY DEF TypeInv, ScalarsOK
<1> QED
  BY <1>0, RunStartEffect, KnownExistsEffect, KnownDeleteEffect, UnknownStartEffect,
     UnknownGetEffect, UnknownSkipEffect, UpsertEffect, ForgetEffect, FinishEffect DEF RunStep

\* Steps of a cycle that leave the unknown map alone, and the ones that
\* remove at most one inactive counter.
LEMMA UnknownShrinks ==
  ASSUME TypeInv, NEW r \in Runs, RunStart(r) \/ RunStep(r)
  PROVE  /\ DOMAIN unknown' \subseteq DOMAIN unknown
         /\ \A id \in DOMAIN unknown' : unknown'[id] = unknown[id]
         /\ \A id \in DOMAIN unknown \ DOMAIN unknown' :
              /\ IsInactive(unknown[id], run[r].start)
              /\ \/ /\ Forget(r) /\ run[r].step = "forget" /\ run[r].cur = id
                    /\ run'[r].step = "unknown" /\ run'[r].todo = run[r].todo
                 \/ /\ run[r].step = "unknown" /\ run'[r].step = "unknown"
                    /\ \E s \in run[r].todo : /\ s.id = id /\ ~(s.abuser /\ run[r].redisUp)
                                              /\ run'[r].todo = run[r].todo \ {s}
<1>0. RunsOK /\ MapsOK /\ now \in Nat /\ healthy \in BOOLEAN
  BY DEF TypeInv, ScalarsOK
<1>1. CASE UnknownSkip(r)
  <2>1. PICK s \in run[r].todo :
          /\ ~(s.abuser /\ run[r].redisUp)
          /\ run'[r].todo = run[r].todo \ {s}
          /\ unknown' = DeleteIfInactive(unknown, s.id, run[r].start)
    BY <1>0, <1>1, UnknownSkipEffect
  <2>2. run[r].step = "unknown" /\ run'[r].step = "unknown"
    BY <1>0, <1>1, UnknownSkipEffect
  <2>3. PICK sid : sid = s.id
    OBVIOUS
  <2>4. /\ DOMAIN unknown' \subseteq DOMAIN unknown
        /\ \A j \in DOMAIN unknown' : unknown'[j] = unknown[j]
        /\ \A j \in DOMAIN unknown : j # sid => j \in DOMAIN unknown'
        /\ sid \in DOMAIN unknown /\ sid \notin DOMAIN unknown'
             => IsInactive(unknown[sid], run[r].start)
    BY <2>1, <2>3, DeleteFacts
  <2> QED
    BY <2>1, <2>2, <2>3, <2>4
<1>2. CASE Forget(r)
  <2>1. /\ unknown' = DeleteIfInactive(unknown, run[r].cur, run[r].start)
        /\ run[r].step = "forget" /\ run'[r].step = "unknown" /\ run'[r].todo = run[r].todo
    BY <1>0, <1>2, ForgetEffect
  <2>2. PICK c : c = run[r].cur
    OBVIOUS
  <2>3. /\ DOMAIN unknown' \subseteq DOMAIN unknown
        /\ \A j \in DOMAIN unknown' : unknown'[j] = unknown[j]
        /\ \A j \in DOMAIN unknown : j # c => j \in DOMAIN unknown'
        /\ c \in DOMAIN unknown /\ c \notin DOMAIN unknown'
             => IsInactive(unknown[c], run[r].start)
    BY <2>1, <2>2, DeleteFacts
  <2> QED
    BY <1>2, <2>1, <2>2, <2>3
<1>3. CASE ~UnknownSkip(r) /\ ~Forget(r)
  <2>1. unknown' = unknown
    BY <1>0, <1>3, RunStartEffect, KnownExistsEffect, KnownDeleteEffect, UnknownStartEffect,
       UnknownGetEffect, UpsertEffect, FinishEffect DEF RunStep
  <2> QED
    BY <2>1
<1> QED
  BY <1>1, <1>2, <1>3

\* Every step keeps the visits of a cycle unique.
LEMMA SnapStep == TypeInv /\ SnapInv /\ [Next]_vars => SnapInv'
<1> SUFFICES ASSUME TypeInv, SnapInv, [Next]_vars PROVE SnapInv'
  OBVIOUS
<1>0. RunsOK /\ MapsOK
  BY DEF TypeInv
<1>1. CASE IdleStep \/ \E p \in Procs : RecordRequest(p)
  <2>1. run' = run
    BY <1>1, RecordFrame DEF IdleStep
  <2> QED
    BY <2>1 DEF SnapInv
<1>2. ASSUME NEW r \in Runs, RunStart(r) \/ RunStep(r) PROVE SnapInv'
  <2>1. ASSUME run'[r].step \in UnknownSteps
        PROVE  \A s \in run'[r].todo, t \in run'[r].todo : s.id = t.id => s = t
    BY <1>2, <2>1, TodoFacts, SnapshotFacts DEF SnapInv
  <2>2. ASSUME run'[r].step \in UnknownSteps, run'[r].step # "unknown"
        PROVE  \A s \in run'[r].todo : s.id # run'[r].cur
    <3>1. CASE UnknownGet(r)
      <4>1. PICK s \in run[r].todo :
              /\ run'[r].todo = run[r].todo \ {s}
              /\ run'[r].step = "upsert" => run'[r].cur = s.id
        BY <1>0, <3>1, UnknownGetEffect
      <4>2. run'[r].step = "upsert" /\ run[r].step = "unknown"
        BY <1>0, <2>2, <3>1, UnknownGetEffect DEF UnknownSteps
      <4> QED
        BY <4>1, <4>2 DEF SnapInv, UnknownSteps
    <3>2. CASE Upsert(r)
      BY <1>0, <3>2, UpsertEffect DEF SnapInv, UnknownSteps
    <3>3. CASE ~UnknownGet(r) /\ ~Upsert(r)
      <4>1. now \in Nat /\ healthy \in BOOLEAN
        BY DEF TypeInv, ScalarsOK
      <4> QED
        BY <1>0, <1>2, <2>2, <3>3, <4>1, RunStartEffect, KnownExistsEffect, KnownDeleteEffect,
           UnknownStartEffect, UnknownSkipEffect, ForgetEffect, FinishEffect
           DEF RunStep, UnknownSteps
    <3> QED
      BY <3>1, <3>2, <3>3
  <2>3. Others(r)
    BY <1>2, OthersKept
  <2> QED
    BY <2>1, <2>2, <2>3 DEF SnapInv, Others
<1> QED
  BY <1>1, <1>2, StepKinds

\* A request takes no hits away.
LEMMA AbuserStays ==
  ASSUME TypeInv, TypeInv', NEW p \in Procs, RecordRequest(p), NEW id \in DOMAIN unknown,
         IsAbuser(unknown[id])
  PROVE  id \in DOMAIN unknown' /\ IsAbuser(unknown'[id])
<1>1. \/ id \in DOMAIN unknown' /\ unknown'[id] = unknown[id]
      \/ id \in DOMAIN unknown' /\ unknown'[id].Hits >= unknown[id].Hits
  BY RecordEffect
<1>2. unknown[id].Hits \in Nat /\ unknown'[id].Hits \in Nat
  BY <1>1 DEF TypeInv, MapsOK, Counters
<1> QED
  BY <1>1, <1>2, ServiceAssumption DEF IsAbuser

\* Every step keeps what a cycle takes for an abuser an abuser.
LEMMA VerdictStep ==
  TypeInv /\ TypeInv' /\ PhaseInv /\ SnapInv /\ VerdictInv /\ [Next]_vars => VerdictInv'
<1> SUFFICES ASSUME TypeInv, TypeInv', PhaseInv, SnapInv, VerdictInv, [Next]_vars, ~timedOut',
                    NEW q \in Runs
             PROVE  /\ run'[q].step = "upsert" => run'[q].copy.AbuseHits >= TransferThreshold
                    /\ run'[q].step \in UnknownSteps =>
                         \A s \in run'[q].todo : s.abuser =>
                           /\ Serving' => s.id \in DOMAIN unknown'
                           /\ s.id \in DOMAIN unknown' => IsAbuser(unknown'[s.id])
  BY DEF VerdictInv
<1>0. RunsOK /\ MapsOK
  BY DEF TypeInv
<1>1. CASE IdleStep
  BY <1>1 DEF IdleStep, VerdictInv
<1>2. ASSUME NEW p \in Procs, RecordRequest(p)
      PROVE  /\ run'[q].step = "upsert" => run'[q].copy.AbuseHits >= TransferThreshold
             /\ run'[q].step \in UnknownSteps =>
                  \A s \in run'[q].todo : s.abuser =>
                    /\ Serving' => s.id \in DOMAIN unknown'
                    /\ s.id \in DOMAIN unknown' => IsAbuser(unknown'[s.id])
  <2>1. run' = run /\ phase' = phase /\ ~timedOut
    BY <1>2, RecordFrame
  <2>2. Serving
    BY <1>2, <2>1, RecordEffect DEF PhaseInv
  <2>3. ASSUME NEW id \in DOMAIN unknown, IsAbuser(unknown[id])
        PROVE  id \in DOMAIN unknown' /\ IsAbuser(unknown'[id])
    BY <1>2, <2>3, AbuserStays
  <2> QED
    BY <2>1, <2>2, <2>3 DEF VerdictInv, Serving
<1>3. ASSUME NEW r \in Runs, RunStart(r) \/ RunStep(r)
      PROVE  /\ run'[q].step = "upsert" => run'[q].copy.AbuseHits >= TransferThreshold
             /\ run'[q].step \in UnknownSteps =>
                  \A s \in run'[q].todo : s.abuser =>
                    /\ Serving' => s.id \in DOMAIN unknown'
                    /\ s.id \in DOMAIN unknown' => IsAbuser(unknown'[s.id])
  <2>1. phase' = phase /\ ~timedOut /\ Others(r)
    BY <1>3, RunFrame, OthersKept
  <2>2. /\ DOMAIN unknown' \subseteq DOMAIN unknown
        /\ \A id \in DOMAIN unknown' : unknown'[id] = unknown[id]
    BY <1>3, UnknownShrinks
  <2>3. CASE q # r
    <3>1. run'[q] = run[q]
      BY <2>1, <2>3 DEF Others
    <3>2. Serving /\ run[q].step \in UnknownSteps => unknown' = unknown
      <4>1. Serving /\ run[q].step \in UnknownSteps => q # "final"
        BY DEF PhaseInv, UnknownSteps
      <4>2. Serving /\ run[q].step \in UnknownSteps => r = "final"
        BY <2>3, <4>1 DEF Runs
      <4>3. Serving /\ r = "final" => ~UnknownSkip(r) /\ ~Forget(r)
        BY DEF UnknownSkip, Forget, At, PhaseInv
      <4>4. now \in Nat /\ healthy \in BOOLEAN
        BY DEF TypeInv, ScalarsOK
      <4>5. ~UnknownSkip(r) /\ ~Forget(r) => unknown' = unknown
        BY <1>0, <1>3, <4>4, RunStartEffect, KnownExistsEffect, KnownDeleteEffect,
           UnknownStartEffect, UnknownGetEffect, UpsertEffect, FinishEffect DEF RunStep
      <4> QED
        BY <4>2, <4>3, <4>5
    <3> QED
      BY <2>1, <2>2, <3>1, <3>2 DEF VerdictInv, Serving
  <2>4. CASE q = r
    <3>1. ASSUME run'[r].step = "upsert" PROVE run'[r].copy.AbuseHits >= TransferThreshold
      <4>1. UnknownGet(r)
        <5>1. now \in Nat /\ healthy \in BOOLEAN
          BY DEF TypeInv, ScalarsOK
        <5> QED
          BY <1>0, <1>3, <3>1, <5>1, RunStartEffect, KnownExistsEffect, KnownDeleteEffect,
             UnknownStartEffect, UnknownSkipEffect, UpsertEffect, ForgetEffect, FinishEffect
             DEF RunStep
      <4>2. PICK s \in run[r].todo : /\ s.abuser /\ s.id \in DOMAIN unknown
                                     /\ run'[r].copy = AbuseRecord(unknown[s.id])
        BY <1>0, <3>1, <4>1, UnknownGetEffect
      <4>3. run[r].step = "unknown"
        BY <1>0, <4>1, UnknownGetEffect
      <4>4. IsAbuser(unknown[s.id])
        BY <2>1, <4>2, <4>3 DEF VerdictInv, UnknownSteps
      <4>5. AbuseRecord(unknown[s.id]).AbuseHits = unknown[s.id].Hits
        BY <4>2, AbuseRecordType DEF TypeInv, MapsOK
      <4> QED
        BY <4>2, <4>4, <4>5 DEF IsAbuser
    <3>2. ASSUME run'[r].step \in UnknownSteps, NEW s \in run'[r].todo, s.abuser
          PROVE  /\ Serving' => s.id \in DOMAIN unknown'
                 /\ s.id \in DOMAIN unknown' => IsAbuser(unknown'[s.id])
      <4>1. CASE UnknownStart(r)
        <5>1. run'[r].todo = UnknownSnapshot /\ unknown' = unknown
          BY <1>0, <4>1, UnknownStartEffect DEF TypeInv, ScalarsOK
        <5> QED
          BY <3>2, <5>1, SnapshotFacts
      <4>2. CASE ~UnknownStart(r)
        <5>1. run[r].step \in UnknownSteps /\ s \in run[r].todo
          BY <1>3, <3>2, <4>2, TodoFacts
        <5>2. /\ Serving => s.id \in DOMAIN unknown
              /\ s.id \in DOMAIN unknown => IsAbuser(unknown[s.id])
          BY <2>1, <3>2, <5>1 DEF VerdictInv
        <5>3. s.id \in DOMAIN unknown => s.id \in DOMAIN unknown'
          <6> SUFFICES ASSUME s.id \in DOMAIN unknown, s.id \notin DOMAIN unknown' PROVE FALSE
            OBVIOUS
          <6>1. CASE run[r].step = "forget" /\ run[r].cur = s.id
            BY <5>1, <6>1 DEF SnapInv, UnknownSteps
          <6>2. CASE \E t \in run[r].todo : t.id = s.id /\ run'[r].todo = run[r].todo \ {t}
            BY <3>2, <5>1, <6>2 DEF SnapInv
          <6> QED
            BY <1>3, <6>1, <6>2, UnknownShrinks
        <5> QED
          BY <2>1, <2>2, <5>2, <5>3 DEF Serving
      <4> QED
        BY <4>1, <4>2
    <3> QED
      BY <2>4, <3>1, <3>2
  <2> QED
    BY <2>3, <2>4
<1> QED
  BY <1>1, <1>2, <1>3, StepKinds

\* Every step keeps that.
LEMMA EarnedStep == TypeInv /\ EarnedInv /\ [Next]_vars => EarnedInv'
<1> SUFFICES ASSUME TypeInv, EarnedInv, [Next]_vars PROVE EarnedInv'
  OBVIOUS
<1>0. RunsOK /\ MapsOK /\ now \in Nat /\ healthy \in BOOLEAN
  BY DEF TypeInv, ScalarsOK
<1>1. CASE IdleStep
  BY <1>1 DEF IdleStep, EarnedInv
<1>2. ASSUME NEW p \in Procs, RecordRequest(p) PROVE EarnedInv'
  <2>1. run' = run /\ earned \subseteq earned'
    BY <1>2, RecordFrame, RecordEffect
  <2>2. ASSUME NEW id \in DOMAIN unknown', IsAbuser(unknown'[id]) PROVE id \in earned'
    <3>1. CASE unknown' = unknown
      BY <2>1, <2>2, <3>1 DEF EarnedInv
    <3>2. CASE /\ DOMAIN unknown' = DOMAIN unknown \cup {req[p].id}
               /\ \A i \in DOMAIN unknown : i # req[p].id => unknown'[i] = unknown[i]
               /\ IsAbuser(unknown'[req[p].id]) => req[p].id \in earned'
      BY <2>1, <2>2, <3>2 DEF EarnedInv
    <3> QED
      BY <1>2, <3>1, <3>2, RecordEffect
  <2> QED
    BY <2>1, <2>2 DEF EarnedInv
<1>3. ASSUME NEW r \in Runs, RunStart(r) \/ RunStep(r) PROVE EarnedInv'
  <2>1. earned' = earned /\ Others(r)
    BY <1>3, RunFrame, OthersKept
  <2>2. \A id \in DOMAIN unknown' : IsAbuser(unknown'[id]) => id \in earned'
    BY <1>3, <2>1, UnknownShrinks DEF EarnedInv
  <2>3. ASSUME run'[r].step = "upsert" PROVE run'[r].cur \in earned
    <3>1. UnknownGet(r)
      BY <1>0, <1>3, <2>3, RunStartEffect, KnownExistsEffect, KnownDeleteEffect,
         UnknownStartEffect, UnknownSkipEffect, UpsertEffect, ForgetEffect, FinishEffect
         DEF RunStep
    <3>2. PICK s \in run[r].todo : s.abuser /\ run'[r].cur = s.id
      BY <1>0, <2>3, <3>1, UnknownGetEffect
    <3>3. run[r].step = "unknown"
      BY <1>0, <3>1, UnknownGetEffect
    <3> QED
      BY <3>2, <3>3 DEF EarnedInv, UnknownSteps
  <2>4. ASSUME run'[r].step \in UnknownSteps, NEW s \in run'[r].todo, s.abuser
        PROVE  s.id \in earned
    <3>1. CASE UnknownStart(r)
      <4>1. run'[r].todo = UnknownSnapshot
        BY <1>0, <3>1, UnknownStartEffect
      <4> QED
        BY <2>4, <4>1, SnapshotFacts DEF EarnedInv
    <3>2. CASE ~UnknownStart(r)
      <4>1. run[r].step \in UnknownSteps /\ s \in run[r].todo
        BY <1>3, <2>4, <3>2, TodoFacts
      <4> QED
        BY <2>4, <4>1 DEF EarnedInv
    <3> QED
      BY <3>1, <3>2
  <2>5. ASSUME NEW q \in Runs, q # r PROVE run'[q] = run[q]
    BY <2>1, <2>5 DEF Others
  <2> QED
    BY <2>1, <2>2, <2>3, <2>4, <2>5 DEF EarnedInv
<1> QED
  BY <1>1, <1>2, <1>3, StepKinds

\* Cleanup.transfer records only identities whose counter had reached
\* abuse_transfer_threshold, whatever happened to the counter since the snapshot;
\* unless the drain left a request behind, the record written shows it: the
\* decision taken on the snapshot still holds for the counter read later.
THEOREM RecordsAreAbusersHolds == Spec => []RecordsAreAbusers
<1> DEFINE IInv == TypeInv /\ PhaseInv /\ SnapInv /\ VerdictInv /\ EarnedInv
                  /\ RecordsAreAbusers
<1>1. Init => IInv
  <2>1. ASSUME Init PROVE PhaseInv /\ SnapInv /\ VerdictInv /\ EarnedInv /\ RecordsAreAbusers
    <3>1. \A r \in Runs : run[r].step = "idle"
      BY <2>1, NoRunFields DEF Init
    <3>2. /\ DOMAIN abuse = {} /\ DOMAIN req = {} /\ DOMAIN unknown = {}
          /\ phase = "running"
      BY <2>1 DEF Init
    <3> QED
      BY <3>1, <3>2 DEF PhaseInv, SnapInv, VerdictInv, EarnedInv, RecordsAreAbusers, Runs,
                        UnknownSteps, Serving, Open
  <2> QED
    BY <2>1, TypeInit
<1>2. IInv /\ [Next]_vars => IInv'
  <2> SUFFICES ASSUME IInv, [Next]_vars PROVE IInv'
    OBVIOUS
  <2>1. TypeInv' /\ PhaseInv' /\ SnapInv'
    BY TypeStep, PhaseStep, SnapStep
  <2>2. VerdictInv' /\ EarnedInv'
    BY <2>1, VerdictStep, EarnedStep
  <2>3. RecordsAreAbusers'
    <3>1. CASE IdleStep \/ \E p \in Procs : RecordRequest(p)
      <4>1. abuse' = abuse /\ (timedOut => timedOut') /\ earned \subseteq earned'
        BY <3>1, RecordFrame, RecordEffect DEF IdleStep
      <4> QED
        BY <4>1 DEF RecordsAreAbusers
    <3>2. ASSUME NEW r \in Runs, RunStart(r) \/ RunStep(r) PROVE RecordsAreAbusers'
      <4>0. /\ RunsOK /\ MapsOK /\ now \in Nat /\ healthy \in BOOLEAN
            /\ timedOut' = timedOut /\ earned' = earned
        BY <3>2, RunFrame DEF TypeInv, ScalarsOK
      <4>1. CASE Upsert(r)
        <5>1. run[r].step = "upsert"
          BY <4>0, <4>1, UpsertEffect
        <5>2. abuse' = abuse \/ abuse' = Put(abuse, run[r].cur, run[r].copy)
          BY <4>1 DEF Upsert
        <5>3. /\ ~timedOut => run[r].copy.AbuseHits >= TransferThreshold
              /\ run[r].cur \in earned
          BY <5>1 DEF VerdictInv, EarnedInv
        <5> QED
          BY <4>0, <5>2, <5>3 DEF RecordsAreAbusers, Put
      <4>2. CASE ~Upsert(r)
        <5>1. abuse' = abuse
          BY <3>2, <4>0, <4>2, RunStartEffect, KnownExistsEffect, KnownDeleteEffect,
             UnknownStartEffect, UnknownGetEffect, UnknownSkipEffect, ForgetEffect, FinishEffect
             DEF RunStep
        <5> QED
          BY <4>0, <5>1 DEF RecordsAreAbusers
      <4> QED
        BY <4>1, <4>2
    <3> QED
      BY <3>1, <3>2, StepKinds
  <2> QED
    BY <2>1, <2>2, <2>3
<1>3. IInv => RecordsAreAbusers
  OBVIOUS
<1> QED
  BY <1>1, <1>2, <1>3, PTL DEF Spec
-----------------------------------------------------------------------------
(* Keys with a limit.                                                       *)

\* A key that always had a valid limit stays out of the unknown map.
HasLimit(a) == edits = 0 /\ failures = 0 /\ a \in DOMAIN db1 /\ db1[a] # Unparseable
LimitedInv ==
  \A a \in ApiKeys : HasLimit(a) =>
    /\ KeyId(a) \notin DOMAIN unknown
    /\ KeyId(a) \notin DOMAIN abuse
    /\ \A p \in DOMAIN req : req[p].id = KeyId(a) => req[p].step = "lookup" \/ req[p].known
    /\ \A r \in Runs :
         /\ run[r].step \in UnknownSteps => \A s \in run[r].todo : s.id # KeyId(a)
         /\ run[r].step = "upsert" => run[r].cur # KeyId(a)

\* A key that has its limit after a step had it before.
LEMMA HasLimitBefore ==
  ASSUME TypeInv, [Next]_vars, NEW a \in ApiKeys, HasLimit(a)'
  PROVE  HasLimit(a) /\ failures' = 0 /\ db1' = db1
<1>1. edits' = 0 /\ failures' = 0
  BY DEF HasLimit
<1>2. edits = 0 /\ failures = 0 /\ db1' = db1
  <2>1. CASE Tick \/ UNCHANGED vars
    BY <1>1, <2>1 DEF Tick, vars, redisVars
  <2>2. CASE Outside
    BY <1>1, <2>2, OutsideEffect DEF TypeInv
  <2>3. ASSUME NEW p \in Procs, NEW id \in Ids, Arrive(p, id)
        PROVE  edits = 0 /\ failures = 0 /\ db1' = db1
    BY <1>1, <2>3 DEF Arrive, redisVars
  <2>4. ASSUME NEW p \in Procs, LookupLimit(p) PROVE edits = 0 /\ failures = 0 /\ db1' = db1
    <3>1. Succeeds("request") \/ Fails("request")
      BY <2>4 DEF LookupLimit
    <3> QED
      BY <1>1, <2>4, <3>1, OpFacts DEF LookupLimit, redisVars, TypeInv
  <2>5. ASSUME NEW p \in Procs, ReadClock(p) \/ RecordRequest(p)
        PROVE  edits = 0 /\ failures = 0 /\ db1' = db1
    BY <1>1, <2>5 DEF ReadClock, RecordRequest, redisVars
  <2>6. ASSUME NEW r \in Runs, RunStart(r) \/ RunStep(r)
        PROVE  edits = 0 /\ failures = 0 /\ db1' = db1
    BY <1>1, <2>6, RunFrame
  <2>7. CASE Shutdown
    BY <1>1, <2>7, ShutdownEffect
  <2> QED
    BY <2>1, <2>2, <2>3, <2>4, <2>5, <2>6, <2>7 DEF Next, Outside, Shutdown
<1> QED
  BY <1>1, <1>2 DEF HasLimit

\* Every step keeps limited keys out of the unknown map and the lists.
LEMMA LimitedStep == TypeInv /\ LimitedInv /\ [Next]_vars => LimitedInv'
<1> SUFFICES ASSUME TypeInv, LimitedInv, [Next]_vars, NEW a \in ApiKeys, HasLimit(a)'
             PROVE  /\ KeyId(a) \notin DOMAIN unknown'
                    /\ KeyId(a) \notin DOMAIN abuse'
                    /\ \A p \in DOMAIN req' :
                         req'[p].id = KeyId(a) => req'[p].step = "lookup" \/ req'[p].known
                    /\ \A r \in Runs :
                         /\ run'[r].step \in UnknownSteps => \A s \in run'[r].todo : s.id # KeyId(a)
                         /\ run'[r].step = "upsert" => run'[r].cur # KeyId(a)
  BY DEF LimitedInv
<1>0. RunsOK /\ MapsOK /\ ScalarsOK /\ now \in Nat /\ healthy \in BOOLEAN
  BY DEF TypeInv, ScalarsOK
<1>1. HasLimit(a) /\ failures' = 0 /\ db1' = db1
  BY HasLimitBefore
<1>2. PICK k : k = KeyId(a)
  OBVIOUS
<1>3. k[1] = "key" /\ k[2] = a
  BY <1>2 DEF KeyId
<1>4. /\ k \notin DOMAIN unknown
      /\ k \notin DOMAIN abuse
      /\ \A p \in DOMAIN req : req[p].id = k => req[p].step = "lookup" \/ req[p].known
      /\ \A r \in Runs :
           /\ run[r].step \in UnknownSteps => \A s \in run[r].todo : s.id # k
           /\ run[r].step = "upsert" => run[r].cur # k
  BY <1>1, <1>2 DEF LimitedInv
<1>5. \A p \in DOMAIN req' : req'[p].id = k => req'[p].step = "lookup" \/ req'[p].known
  <2>1. CASE req' = req
    BY <1>4, <2>1
  <2>2. ASSUME NEW p \in Procs, NEW id \in Ids, Arrive(p, id)
        PROVE  \A q \in DOMAIN req' : req'[q].id = k => req'[q].step = "lookup" \/ req'[q].known
    <3>1. /\ DOMAIN req' = DOMAIN req \cup {p} /\ req'[p].id = id
          /\ req'[p].step = (IF id[1] = "key" THEN "lookup" ELSE "clock")
          /\ \A q \in DOMAIN req : req'[q] = req[q]
      BY <2>2, ArriveEffect
    <3> QED
      BY <1>3, <1>4, <3>1
  <2>3. ASSUME NEW p \in Procs, LookupLimit(p)
        PROVE  \A q \in DOMAIN req' : req'[q].id = k => req'[q].step = "lookup" \/ req'[q].known
    <3>1. /\ DOMAIN req' = DOMAIN req /\ req'[p].id = req[p].id
          /\ \A q \in DOMAIN req : q # p => req'[q] = req[q]
          /\ \/ req'[p].known <=> /\ req[p].id[2] \in DOMAIN db1
                                  /\ db1[req[p].id[2]] # Unparseable
             \/ Fails("request")
      BY <2>3, LookupEffect
    <3>2. ASSUME Fails("request") PROVE FALSE
      <4>1. failures' = 0 /\ Fails("request") => "request" = "loop"
        BY <1>0, <3>2, OpFacts
      <4> QED
        BY <1>1, <3>2, <4>1
    <3>3. a \in DOMAIN db1 /\ db1[a] # Unparseable
      BY <1>1 DEF HasLimit
    <3> QED
      BY <1>3, <1>4, <3>1, <3>2, <3>3
  <2>4. ASSUME NEW p \in Procs, ReadClock(p)
        PROVE  \A q \in DOMAIN req' : req'[q].id = k => req'[q].step = "lookup" \/ req'[q].known
    <3>1. /\ DOMAIN req' = DOMAIN req /\ req'[p].id = req[p].id /\ req'[p].known = req[p].known
          /\ req[p].step = "clock" /\ p \in DOMAIN req
          /\ \A q \in DOMAIN req : q # p => req'[q] = req[q]
      BY <2>4, ReadClockEffect
    <3> QED
      BY <1>4, <3>1
  <2>5. ASSUME NEW p \in Procs, RecordRequest(p)
        PROVE  \A q \in DOMAIN req' : req'[q].id = k => req'[q].step = "lookup" \/ req'[q].known
    <3>1. DOMAIN req' = DOMAIN req \ {p} /\ \A q \in DOMAIN req' : req'[q] = req[q]
      BY <2>5, RecordEffect
    <3> QED
      BY <1>4, <3>1
  <2>6. ASSUME Tick \/ UNCHANGED vars \/ Outside \/ Shutdown
               \/ (\E r \in Runs : RunStart(r) \/ RunStep(r))
        PROVE  req' = req
    <3>1. CASE Tick \/ UNCHANGED vars
      BY <3>1 DEF Tick, vars
    <3>2. CASE Outside
      BY <3>2, OutsideEffect DEF TypeInv
    <3>3. CASE Shutdown
      BY <3>3, ShutdownEffect
    <3>4. CASE \E r \in Runs : RunStart(r) \/ RunStep(r)
      BY <3>4, RunFrame
    <3> QED
      BY <2>6, <3>1, <3>2, <3>3, <3>4
  <2> QED
    BY <2>1, <2>2, <2>3, <2>4, <2>5, <2>6 DEF Next, Outside, Shutdown
<1>6. CASE IdleStep
  BY <1>2, <1>4, <1>5, <1>6 DEF IdleStep
<1>7. ASSUME NEW p \in Procs, RecordRequest(p)
      PROVE  UNCHANGED <<run, abuse>> /\ k \notin DOMAIN unknown'
  <2>1. /\ p \in DOMAIN req /\ req[p].step = "record"
        /\ \/ unknown' = unknown
           \/ ~req[p].known /\ DOMAIN unknown' = DOMAIN unknown \cup {req[p].id}
    BY <1>7, RecordEffect
  <2> QED
    BY <1>4, <1>7, <2>1, RecordFrame
<1>8. ASSUME NEW r \in Runs, RunStart(r) \/ RunStep(r)
      PROVE  /\ k \notin DOMAIN unknown' /\ k \notin DOMAIN abuse'
             /\ \A q \in Runs :
                  /\ run'[q].step \in UnknownSteps => \A s \in run'[q].todo : s.id # k
                  /\ run'[q].step = "upsert" => run'[q].cur # k
  <2>1. k \notin DOMAIN unknown'
    BY <1>4, <1>8, UnknownShrinks
  <2>2. k \notin DOMAIN abuse'
    <3>1. CASE Upsert(r)
      <4>1. run[r].step = "upsert"
        BY <1>0, <3>1, UpsertEffect
      <4>2. abuse' = abuse \/ abuse' = Put(abuse, run[r].cur, run[r].copy)
        BY <3>1 DEF Upsert
      <4> QED
        BY <1>4, <4>1, <4>2 DEF Put
    <3>2. CASE ~Upsert(r)
      <4>1. abuse' = abuse
        BY <1>0, <1>8, <3>2, RunStartEffect, KnownExistsEffect, KnownDeleteEffect,
           UnknownStartEffect, UnknownGetEffect, UnknownSkipEffect, ForgetEffect, FinishEffect
           DEF RunStep
      <4> QED
        BY <1>4, <4>1
    <3> QED
      BY <3>1, <3>2
  <2>3. ASSUME run'[r].step \in UnknownSteps, NEW s \in run'[r].todo PROVE s.id # k
    BY <1>4, <1>8, <2>3, TodoFacts, SnapshotFacts
  <2>4. ASSUME run'[r].step = "upsert" PROVE run'[r].cur # k
    <3>1. UnknownGet(r)
      BY <1>0, <1>8, <2>4, RunStartEffect, KnownExistsEffect, KnownDeleteEffect,
         UnknownStartEffect, UnknownSkipEffect, UpsertEffect, ForgetEffect, FinishEffect
         DEF RunStep
    <3>2. run'[r].cur \in DOMAIN unknown
      BY <1>0, <2>4, <3>1, UnknownGetEffect
    <3> QED
      BY <1>4, <3>2
  <2>5. Others(r)
    BY <1>8, OthersKept
  <2> QED
    BY <1>4, <2>1, <2>2, <2>3, <2>4, <2>5 DEF Others
<1>9. CASE \E p \in Procs : RecordRequest(p)
  <2>1. UNCHANGED <<run, abuse>> /\ k \notin DOMAIN unknown'
    BY <1>7, <1>9
  <2> QED
    BY <1>2, <1>4, <1>5, <2>1
<1>10. CASE \E r \in Runs : RunStart(r) \/ RunStep(r)
  BY <1>2, <1>5, <1>8, <1>10
<1> QED
  BY <1>6, <1>9, <1>10, StepKinds

\* At the start there is nothing to keep a limited key out of.
LEMMA LimitedInit == Init => LimitedInv
<1> SUFFICES ASSUME Init PROVE LimitedInv
  OBVIOUS
<1>1. \A r \in Runs : run[r].step = "idle"
  BY NoRunFields DEF Init
<1>2. DOMAIN abuse = {} /\ DOMAIN req = {} /\ DOMAIN unknown = {}
  BY DEF Init
<1> QED
  BY <1>1, <1>2 DEF LimitedInv, UnknownSteps

\* As long as no Redis operation failed and nobody changed redisDB1, a key
\* with a valid limit never gets an abuse record: decideWithKey and cleanup
\* together keep it out of the unknown map.
THEOREM LimitedKeysNeverAbusersHolds == Spec => []LimitedKeysNeverAbusers
<1> DEFINE IInv == TypeInv /\ LimitedInv
<1>1. Init => IInv
  BY TypeInit, LimitedInit
<1>2. IInv /\ [Next]_vars => IInv'
  BY TypeStep, LimitedStep
<1>3. IInv => LimitedKeysNeverAbusers
  BY DEF LimitedInv, HasLimit, LimitedKeysNeverAbusers
<1> QED
  BY <1>1, <1>2, <1>3, PTL DEF Spec
-----------------------------------------------------------------------------
(* What the final cleanup and the loop keep of the abusers.                *)

\* A request came in so recently that a cycle begun at t keeps the counter.
Fresh(c, t) == t < c.LastRequest + 2 * WindowS * Second

\* A counter the snapshot cleared has not become an abuser, or is kept.
SkipInv ==
  \A r \in Runs : run[r].step \in UnknownSteps =>
    \A s \in run[r].todo :
      ~s.abuser /\ s.id \in DOMAIN unknown =>
        ~IsAbuser(unknown[s.id]) \/ Fresh(unknown[s.id], run[r].start)

\* What the loop copies and writes is what it is about to remove, unless a
\* request has come in since, and then it is kept.
CopyInv ==
  failures = 0 /\ run["final"].step = "idle" /\ run["loop"].cur \in DOMAIN unknown =>
    LET id == run["loop"].cur IN
      \/ Fresh(unknown[id], run["loop"].start)
      \/ /\ run["loop"].step = "upsert" => run["loop"].copy = AbuseRecord(unknown[id])
         /\ run["loop"].step = "forget" => /\ id \in DOMAIN abuse
                                           /\ abuse[id] = AbuseRecord(unknown[id])

\* A counter that was inactive when the cycle began is yet to be visited, or its
\* LimitExists failed.
KnownLeft(r) ==
  run[r].step \in KnownSteps =>
    \A a \in DOMAIN known : IsInactive(known[a], run[r].start) =>
      \/ a \in run[r].todo \cup run[r].failed
      \/ run[r].step # "known" /\ run[r].cur = KeyId(a)
KnownCollected(r) ==
  run[r].step \in UnknownSteps =>
    \A a \in DOMAIN known : IsInactive(known[a], run[r].start) => a \in run[r].failed
UnknownLeft(r) ==
  run[r].step \in UnknownSteps =>
    \A id \in DOMAIN unknown : IsInactive(unknown[id], run[r].start) =>
      \/ \E s \in run[r].todo : s.id = id
      \/ run[r].step # "unknown" /\ run[r].cur = id
CollectInv == \A r \in Runs : KnownLeft(r) /\ KnownCollected(r) /\ UnknownLeft(r)

\* An identity that earned a record and has none is in the map, and the final
\* cycle has yet to transfer it.
Pending(id) ==
  /\ id \in DOMAIN unknown /\ IsAbuser(unknown[id])
  /\ run["final"].step # "done"
  /\ run["final"].step \in UnknownSteps =>
       \/ \E s \in run["final"].todo : s.id = id /\ s.abuser
       \/ run["final"].step = "upsert" /\ run["final"].cur = id

FlushInv ==
  failures = 0 /\ ~timedOut =>
    /\ Open => \A r \in Runs : run[r].step = "forget" => run[r].cur \in DOMAIN abuse
    /\ \A id \in earned : id \in DOMAIN abuse \/ Pending(id)

\* A goroutine waits for the lock less than the two windows for which a
\* counter without requests is kept.
LagBound == MaxLag < 2 * WindowS * Second

\* A fresh counter is not inactive.
LEMMA FreshKept ==
  ASSUME NEW c \in Counters, NEW t \in Nat, Fresh(c, t)
  PROVE  ~IsInactive(c, t)
  BY FreshIsActive DEF Fresh

\* The counter a request leaves is fresh for every cycle that has begun.
LEMMA RecordFresh ==
  ASSUME LagBound, TypeInv, LagInv, NEW p \in Procs, RecordRequest(p), NEW r \in Runs
  PROVE  /\ DOMAIN unknown \subseteq DOMAIN unknown'
         /\ \A id \in DOMAIN unknown' : \/ id \in DOMAIN unknown /\ unknown'[id] = unknown[id]
                                        \/ Fresh(unknown'[id], run[r].start)
         /\ \A a \in DOMAIN known' : \/ a \in DOMAIN known /\ known'[a] = known[a]
                                     \/ Fresh(known'[a], run[r].start)
<1>1. PICK t : t = req[p].time
  OBVIOUS
<1>2. p \in DOMAIN req /\ req[p].step = "record"
  BY RecordEffect
<1>3. /\ t \in Nat /\ now \in Nat /\ run[r].start \in Nat /\ MaxLag \in Nat
      /\ now <= t + MaxLag /\ run[r].start <= now
  BY <1>1, <1>2, ServiceAssumption
     DEF TypeInv, ReqsOK, Requests, ScalarsOK, RunsOK, RunRecs, TimesOK, LagInv
<1>4. 2 * WindowS * Second \in Nat
  BY ClockAssumption
<1>5. run[r].start < t + 2 * WindowS * Second
  BY <1>3, <1>4 DEF LagBound
<1>6. ASSUME NEW c, c.LastRequest = t PROVE Fresh(c, run[r].start)
  BY <1>5, <1>6 DEF Fresh
<1>7. CASE req[p].known
  <2>1. unknown' = unknown
    BY <1>7, RecordEffect
  <2>2. PICK a \in ApiKeys : /\ DOMAIN known' = DOMAIN known \cup {a}
                             /\ \A b \in DOMAIN known : b # a => known'[b] = known[b]
                             /\ known'[a].LastRequest = req[p].time
    BY <1>7, RecordEffect
  <2> QED
    BY <1>1, <1>6, <2>1, <2>2
<1>8. CASE ~req[p].known
  <2>1. PICK i : i = req[p].id
    OBVIOUS
  <2>2. /\ DOMAIN unknown' = DOMAIN unknown \cup {i}
        /\ \A id \in DOMAIN unknown : id # i => unknown'[id] = unknown[id]
        /\ unknown'[i].LastRequest = t
        /\ known' = known
    BY <1>1, <1>8, <2>1, RecordEffect
  <2> QED
    BY <1>6, <2>2
<1> QED
  BY <1>7, <1>8

\* Every step keeps what a snapshot cleared harmless or fresh.
LEMMA SkipStep ==
  ASSUME LagBound
  PROVE  TypeInv /\ LagInv /\ SkipInv /\ [Next]_vars => SkipInv'
<1> SUFFICES ASSUME TypeInv, LagInv, SkipInv, [Next]_vars, NEW q \in Runs,
                    run'[q].step \in UnknownSteps, NEW s \in run'[q].todo,
                    ~s.abuser, s.id \in DOMAIN unknown'
             PROVE  ~IsAbuser(unknown'[s.id]) \/ Fresh(unknown'[s.id], run'[q].start)
  BY DEF SkipInv
<1>1. CASE IdleStep
  BY <1>1 DEF IdleStep, SkipInv
<1>2. ASSUME NEW p \in Procs, RecordRequest(p)
      PROVE  ~IsAbuser(unknown'[s.id]) \/ Fresh(unknown'[s.id], run'[q].start)
  <2>1. run' = run
    BY <1>2, RecordFrame
  <2>2. \/ s.id \in DOMAIN unknown /\ unknown'[s.id] = unknown[s.id]
        \/ Fresh(unknown'[s.id], run[q].start)
    BY <1>2, RecordFresh
  <2> QED
    BY <2>1, <2>2 DEF SkipInv
<1>3. ASSUME NEW r \in Runs, RunStart(r) \/ RunStep(r)
      PROVE  ~IsAbuser(unknown'[s.id]) \/ Fresh(unknown'[s.id], run'[q].start)
  <2>1. Others(r) /\ s.id \in DOMAIN unknown /\ unknown'[s.id] = unknown[s.id]
    BY <1>3, OthersKept, UnknownShrinks
  <2>2. CASE q = r /\ run'[r].todo = UnknownSnapshot
    BY <2>1, <2>2, SnapshotFacts
  <2>3. CASE q = r /\ run'[r].todo # UnknownSnapshot
    <3>1. s \in run[r].todo /\ run[r].step \in UnknownSteps /\ run'[r].start = run[r].start
      BY <1>3, <2>3, TodoFacts
    <3> QED
      BY <2>1, <2>3, <3>1 DEF SkipInv
  <2>4. CASE q # r
    BY <2>1, <2>4 DEF SkipInv, Others
  <2> QED
    BY <2>2, <2>3, <2>4
<1> QED
  BY <1>1, <1>2, <1>3, StepKinds

\* Every step keeps the copy of the loop up to date, or the counter fresh.
LEMMA CopyStep ==
  ASSUME LagBound
  PROVE  TypeInv /\ PhaseInv /\ LagInv /\ CopyInv /\ [Next]_vars => CopyInv'
<1> SUFFICES ASSUME TypeInv, PhaseInv, LagInv, CopyInv, [Next]_vars, failures' = 0,
                    run'["final"].step = "idle", NEW id, id = run'["loop"].cur,
                    id \in DOMAIN unknown'
             PROVE  \/ Fresh(unknown'[id], run'["loop"].start)
                    \/ /\ run'["loop"].step = "upsert" =>
                            run'["loop"].copy = AbuseRecord(unknown'[id])
                       /\ run'["loop"].step = "forget" =>
                            id \in DOMAIN abuse' /\ abuse'[id] = AbuseRecord(unknown'[id])
  BY DEF CopyInv
<1>0. RunsOK /\ MapsOK /\ ScalarsOK /\ now \in Nat /\ healthy \in BOOLEAN /\ "loop" \in Runs
      /\ "final" \in Runs
  BY DEF TypeInv, ScalarsOK, Runs
<1>1. CASE IdleStep
  BY <1>1 DEF IdleStep, CopyInv
<1>2. CASE \E p \in Procs : RecordRequest(p)
  <2>1. PICK p \in Procs : RecordRequest(p)
    BY <1>2
  <2>2. UNCHANGED <<run, abuse, failures>>
    BY <2>1, RecordFrame
  <2>3. \/ id \in DOMAIN unknown /\ unknown'[id] = unknown[id]
        \/ Fresh(unknown'[id], run["loop"].start)
    BY <1>0, <2>1, RecordFresh
  <2> QED
    BY <2>2, <2>3 DEF CopyInv
<1>3. CASE \E r \in Runs : RunStart(r) \/ RunStep(r)
  <2>1. PICK r \in Runs : RunStart(r) \/ RunStep(r)
    BY <1>3
  <2>2. r = "loop"
    <3>1. RunStart("final") => run'["final"].step # "idle"
      BY <1>0, RunStartEffect
    <3>2. RunStep("final") => run'["final"].step # "idle"
      BY <1>0, KnownExistsEffect, KnownDeleteEffect, UnknownStartEffect, UnknownGetEffect,
         UnknownSkipEffect, UpsertEffect, ForgetEffect, FinishEffect DEF RunStep
    <3> QED
      BY <2>1, <3>1, <3>2 DEF Runs
  <2>3. run["final"].step = "idle" /\ failures = 0 /\ Open
    BY <1>0, <2>1, <2>2, OthersKept, RunFrame DEF Others, PhaseInv
  <2>4. id \in DOMAIN unknown /\ unknown'[id] = unknown[id]
    BY <2>1, UnknownShrinks
  <2>5. CASE UnknownGet("loop")
    <3>1. PICK s : \/ /\ run'["loop"].step = "upsert" /\ run'["loop"].cur = s.id
                      /\ run'["loop"].copy = AbuseRecord(unknown[s.id])
                   \/ run'["loop"].step = "unknown"
      BY <1>0, <2>5, UnknownGetEffect
    <3> QED
      BY <2>4, <3>1
  <2>6. CASE Upsert("loop")
    <3>1. /\ run["loop"].step = "upsert" /\ run'["loop"].step = "forget"
          /\ run["loop"].cur = id /\ run'["loop"].start = run["loop"].start
      BY <1>0, <2>6, UpsertEffect
    <3>2. abuse' = Put(abuse, id, run["loop"].copy)
      <4>1. ASSUME Fails("loop") PROVE FALSE
        <5>1. phase = "cancelled"
          BY <1>0, <4>1, OpFacts
        <5> QED
          BY <2>3, <5>1 DEF Open
      <4> QED
        BY <2>6, <3>1, <4>1 DEF Upsert
    <3>3. id \in DOMAIN abuse' /\ abuse'[id] = run["loop"].copy
      BY <3>2 DEF Put
    <3> QED
      BY <2>3, <2>4, <3>1, <3>3 DEF CopyInv
  <2>7. CASE ~UnknownGet("loop") /\ ~Upsert("loop")
    <3>1. run'["loop"].step \notin {"upsert", "forget"}
      BY <1>0, <2>1, <2>2, <2>7, RunStartEffect, KnownExistsEffect, KnownDeleteEffect,
         UnknownStartEffect, UnknownSkipEffect, ForgetEffect, FinishEffect DEF RunStep
    <3> QED
      BY <3>1
  <2> QED
    BY <2>5, <2>6, <2>7
<1> QED
  BY <1>1, <1>2, <1>3, StepKinds

\* A cycle only removes counters from the known map.
LEMMA KnownShrinks ==
  ASSUME TypeInv, NEW r \in Runs, RunStart(r) \/ RunStep(r)
  PROVE  DOMAIN known' \subseteq DOMAIN known /\ \A a \in DOMAIN known' : known'[a] = known[a]
<1>0. RunsOK /\ MapsOK /\ now \in Nat /\ healthy \in BOOLEAN
  BY DEF TypeInv, ScalarsOK
<1>1. CASE KnownDelete(r)
  BY <1>1 DEF KnownDelete, DeleteIfInactive, Without
<1>2. CASE ~KnownDelete(r)
  <2>1. known' = known
    BY <1>0, <1>2, RunStartEffect, KnownExistsEffect, UnknownStartEffect, UnknownGetEffect,
       UnknownSkipEffect, UpsertEffect, ForgetEffect, FinishEffect DEF RunStep
  <2> QED
    BY <2>1
<1> QED
  BY <1>1, <1>2

\* A step of the cycle itself keeps track of what it has yet to visit.
LEMMA CollectOwnStep ==
  ASSUME TypeInv, NEW r \in Runs, RunStart(r) \/ RunStep(r),
         KnownLeft(r), KnownCollected(r), UnknownLeft(r)
  PROVE  KnownLeft(r)' /\ KnownCollected(r)' /\ UnknownLeft(r)'
<1>0. RunsOK /\ MapsOK /\ now \in Nat /\ healthy \in BOOLEAN
  BY DEF TypeInv, ScalarsOK
<1>1. CASE RunStart(r)
  <2>1. /\ run'[r].step = "known" /\ run'[r].todo = DOMAIN known /\ known' = known
    BY <1>0, <1>1, RunStartEffect
  <2> QED
    BY <2>1 DEF KnownLeft, KnownCollected, UnknownLeft, KnownSteps, UnknownSteps
<1>2. CASE KnownExists(r)
  <2>1. /\ run[r].step = "known" /\ run'[r].start = run[r].start /\ known' = known
        /\ run'[r].step \in KnownSteps
    BY <1>0, <1>2, KnownExistsEffect DEF KnownSteps
  <2>2. PICK a \in run[r].todo :
          /\ run'[r].todo = run[r].todo \ {a}
          /\ \/ /\ run'[r].step \in {"keep", "drop"} /\ run'[r].cur = KeyId(a)
                /\ run'[r].failed = run[r].failed
             \/ run'[r].failed = run[r].failed \cup {a}
    BY <1>0, <1>2, KnownExistsEffect
  <2> QED
    BY <2>1, <2>2 DEF KnownLeft, KnownCollected, UnknownLeft, KnownSteps, UnknownSteps
<1>3. CASE KnownDelete(r)
  <2>1. /\ run[r].step \in {"keep", "drop"} /\ run'[r].step = "known"
        /\ run'[r].start = run[r].start
        /\ run'[r].todo = run[r].todo /\ run'[r].failed = run[r].failed
    BY <1>0, <1>3, KnownDeleteEffect
  <2>2. PICK b \in ApiKeys : run[r].cur = KeyId(b)
    BY <1>0, <2>1 DEF RunsOK, RunShape
  <2>3. run[r].cur[2] = b /\ \A a \in DOMAIN known : run[r].cur = KeyId(a) => a = b
    BY <2>2 DEF KeyId
  <2>4. /\ DOMAIN known' \subseteq DOMAIN known /\ \A a \in DOMAIN known' : known'[a] = known[a]
        /\ b \in DOMAIN known' => ~IsInactive(known[b], run[r].start)
    <3>1. CASE run[r].step = "keep"
      <4>1. known' = DeleteIfInactive(known, b, run[r].start)
        BY <1>3, <2>3, <3>1 DEF KnownDelete
      <4> QED
        BY <4>1, DeleteFacts
    <3>2. CASE run[r].step = "drop"
      <4>1. known' = IF b \in DOMAIN known THEN Without(known, b) ELSE known
        BY <1>3, <2>3, <3>2 DEF KnownDelete
      <4> QED
        BY <4>1 DEF Without
    <3> QED
      BY <2>1, <3>1, <3>2
  <2> QED
    BY <2>1, <2>3, <2>4 DEF KnownLeft, KnownCollected, UnknownLeft, KnownSteps, UnknownSteps
<1>4. CASE UnknownStart(r)
  <2>1. /\ run[r].step = "known" /\ run[r].todo = {} /\ run'[r].step = "unknown"
        /\ run'[r].start = run[r].start /\ run'[r].todo = UnknownSnapshot
        /\ run'[r].failed = run[r].failed /\ UNCHANGED <<known, unknown>>
    BY <1>0, <1>4, UnknownStartEffect
  <2> QED
    BY <2>1, SnapshotFacts DEF KnownLeft, KnownCollected, UnknownLeft, KnownSteps, UnknownSteps
<1>5. CASE UnknownGet(r)
  <2>1. /\ run[r].step = "unknown" /\ run'[r].start = run[r].start
        /\ run'[r].failed = run[r].failed /\ UNCHANGED <<known, unknown>>
    BY <1>0, <1>5, UnknownGetEffect
  <2>2. PICK s \in run[r].todo :
          /\ run'[r].todo = run[r].todo \ {s}
          /\ \/ run'[r].step = "upsert" /\ run'[r].cur = s.id
             \/ s.id \notin DOMAIN unknown /\ run'[r].step = "unknown"
    BY <1>0, <1>5, UnknownGetEffect
  <2>3. KnownLeft(r)' /\ KnownCollected(r)'
    BY <2>1, <2>2 DEF KnownLeft, KnownCollected, KnownSteps, UnknownSteps
  <2>4. UnknownLeft(r)'
    BY <2>1, <2>2 DEF UnknownLeft, UnknownSteps
  <2> QED
    BY <2>3, <2>4
<1>6. CASE UnknownSkip(r)
  <2>1. /\ run[r].step = "unknown" /\ run'[r].step = "unknown"
        /\ run'[r].start = run[r].start
        /\ run'[r].failed = run[r].failed /\ UNCHANGED known
    BY <1>0, <1>6, UnknownSkipEffect
  <2>2. PICK s \in run[r].todo :
          /\ run'[r].todo = run[r].todo \ {s}
          /\ unknown' = DeleteIfInactive(unknown, s.id, run[r].start)
    BY <1>0, <1>6, UnknownSkipEffect
  <2>3. PICK i : i = s.id
    OBVIOUS
  <2>4. /\ DOMAIN unknown' \subseteq DOMAIN unknown
        /\ \A j \in DOMAIN unknown' : unknown'[j] = unknown[j]
        /\ i \in DOMAIN unknown' => ~IsInactive(unknown[i], run[r].start)
    BY <2>2, <2>3, DeleteFacts
  <2>5. KnownLeft(r)' /\ KnownCollected(r)'
    BY <2>1 DEF KnownLeft, KnownCollected, KnownSteps, UnknownSteps
  <2>6. UnknownLeft(r)'
    BY <2>1, <2>2, <2>3, <2>4 DEF UnknownLeft, UnknownSteps
  <2> QED
    BY <2>5, <2>6
<1>7. CASE Upsert(r)
  <2>1. /\ run[r].step = "upsert" /\ run'[r].step = "forget"
        /\ run'[r].start = run[r].start
        /\ run'[r].todo = run[r].todo /\ run'[r].cur = run[r].cur
        /\ run[r].failed \subseteq run'[r].failed /\ UNCHANGED <<known, unknown>>
    BY <1>0, <1>7, UpsertEffect
  <2> QED
    BY <2>1 DEF KnownLeft, KnownCollected, UnknownLeft, KnownSteps, UnknownSteps
<1>8. CASE Forget(r)
  <2>1. /\ run[r].step = "forget" /\ run'[r].step = "unknown"
        /\ run'[r].start = run[r].start /\ run'[r].todo = run[r].todo
        /\ run'[r].failed = run[r].failed /\ UNCHANGED known
        /\ unknown' = DeleteIfInactive(unknown, run[r].cur, run[r].start)
    BY <1>0, <1>8, ForgetEffect
  <2>2. PICK i : i = run[r].cur
    OBVIOUS
  <2>3. /\ DOMAIN unknown' \subseteq DOMAIN unknown
        /\ \A j \in DOMAIN unknown' : unknown'[j] = unknown[j]
        /\ i \in DOMAIN unknown' => ~IsInactive(unknown[i], run[r].start)
    BY <2>1, <2>2, DeleteFacts
  <2>4. KnownLeft(r)' /\ KnownCollected(r)'
    BY <2>1 DEF KnownLeft, KnownCollected, KnownSteps, UnknownSteps
  <2>5. UnknownLeft(r)'
    BY <2>1, <2>2, <2>3 DEF UnknownLeft, UnknownSteps
  <2> QED
    BY <2>4, <2>5
<1>9. CASE Finish(r)
  <2>1. run'[r].step \in {"idle", "done"}
    BY <1>0, <1>9, FinishEffect
  <2> QED
    BY <2>1 DEF KnownLeft, KnownCollected, UnknownLeft, KnownSteps, UnknownSteps
<1> QED
  BY <1>1, <1>2, <1>3, <1>4, <1>5, <1>6, <1>7, <1>8, <1>9 DEF RunStep

\* Every step keeps inactive counters among what the cycle has left to do.
LEMMA CollectStep ==
  ASSUME LagBound
  PROVE  TypeInv /\ TypeInv' /\ LagInv /\ CollectInv /\ [Next]_vars => CollectInv'
<1> SUFFICES ASSUME TypeInv, TypeInv', LagInv, CollectInv, [Next]_vars, NEW q \in Runs
             PROVE  KnownLeft(q)' /\ KnownCollected(q)' /\ UnknownLeft(q)'
  BY DEF CollectInv
<1>0. KnownLeft(q) /\ KnownCollected(q) /\ UnknownLeft(q)
  BY DEF CollectInv
<1>1. CASE IdleStep
  BY <1>0, <1>1 DEF IdleStep, KnownLeft, KnownCollected, UnknownLeft
<1>2. CASE \E p \in Procs : RecordRequest(p)
  <2>1. PICK p \in Procs : RecordRequest(p)
    BY <1>2
  <2>2. run' = run
    BY <2>1, RecordFrame
  <2>3. run[q].start \in Nat
    BY DEF TypeInv, RunsOK, RunRecs
  <2>4. ASSUME NEW a \in DOMAIN known', IsInactive(known'[a], run[q].start)
        PROVE  a \in DOMAIN known /\ known'[a] = known[a]
    <3>1. known'[a] \in Counters
      BY DEF TypeInv, MapsOK
    <3> QED
      BY <2>1, <2>3, <2>4, <3>1, FreshKept, RecordFresh
  <2>5. ASSUME NEW id \in DOMAIN unknown', IsInactive(unknown'[id], run[q].start)
        PROVE  id \in DOMAIN unknown /\ unknown'[id] = unknown[id]
    <3>1. unknown'[id] \in Counters
      BY DEF TypeInv, MapsOK
    <3> QED
      BY <2>1, <2>3, <2>5, <3>1, FreshKept, RecordFresh
  <2>6. KnownLeft(q)' /\ KnownCollected(q)'
    BY <1>0, <2>2, <2>4 DEF KnownLeft, KnownCollected
  <2>7. UnknownLeft(q)'
    BY <1>0, <2>2, <2>5 DEF UnknownLeft
  <2> QED
    BY <2>6, <2>7
<1>3. CASE \E r \in Runs : RunStart(r) \/ RunStep(r)
  <2>1. PICK r \in Runs : RunStart(r) \/ RunStep(r)
    BY <1>3
  <2>2. CASE q = r
    BY <1>0, <2>1, <2>2, CollectOwnStep
  <2>3. CASE q # r
    <3>1. run'[q] = run[q]
      BY <2>1, <2>3, OthersKept DEF Others
    <3>2. /\ DOMAIN unknown' \subseteq DOMAIN unknown
          /\ \A id \in DOMAIN unknown' : unknown'[id] = unknown[id]
          /\ DOMAIN known' \subseteq DOMAIN known
          /\ \A a \in DOMAIN known' : known'[a] = known[a]
      BY <2>1, UnknownShrinks, KnownShrinks
    <3> QED
      BY <1>0, <3>1, <3>2 DEF KnownLeft, KnownCollected, UnknownLeft
  <2> QED
    BY <2>2, <2>3
<1> QED
  BY <1>1, <1>2, <1>3, StepKinds

\* Every step keeps an abuser recorded, or pending for a cycle to come.
LEMMA FlushStep ==
  ASSUME LagBound
  PROVE  TypeInv /\ TypeInv' /\ PhaseInv /\ HealthInv /\ SkipInv /\ FlushInv /\ [Next]_vars
           => FlushInv'
<1> SUFFICES ASSUME TypeInv, TypeInv', PhaseInv, HealthInv, SkipInv, FlushInv, [Next]_vars,
                    failures' = 0, ~timedOut'
             PROVE  /\ Open' => \A q \in Runs :
                                  run'[q].step = "forget" => run'[q].cur \in DOMAIN abuse'
                    /\ \A id \in earned' : id \in DOMAIN abuse' \/ Pending(id)'
  BY DEF FlushInv
<1>0. /\ RunsOK /\ MapsOK /\ ScalarsOK /\ now \in Nat /\ healthy \in BOOLEAN
      /\ "loop" \in Runs /\ "final" \in Runs
  BY DEF TypeInv, ScalarsOK, Runs
<1>1. CASE IdleStep
  <2>1. failures = 0 /\ ~timedOut /\ (Open' => Open) /\ UNCHANGED <<unknown, abuse, run, earned>>
    BY <1>1 DEF IdleStep
  <2> QED
    BY <2>1 DEF FlushInv, Pending
<1>2. CASE \E p \in Procs : RecordRequest(p)
  <2>1. PICK p \in Procs : RecordRequest(p)
    BY <1>2
  <2>2. UNCHANGED <<abuse, run, phase, failures, timedOut>>
    BY <2>1, RecordFrame
  <2>3. run["final"].step = "idle"
    BY <2>1, <2>2, RecordEffect DEF PhaseInv
  <2>4. ASSUME NEW id \in DOMAIN unknown', IsAbuser(unknown'[id]) PROVE Pending(id)'
    BY <2>2, <2>3, <2>4 DEF Pending, UnknownSteps
  <2>5. ASSUME NEW id \in earned PROVE id \in DOMAIN abuse' \/ Pending(id)'
    <3>1. id \in DOMAIN abuse \/ (id \in DOMAIN unknown /\ IsAbuser(unknown[id]))
      BY <2>2 DEF FlushInv, Pending
    <3> QED
      BY <2>1, <2>2, <2>4, <3>1, AbuserStays
  <2>6. ASSUME NEW id \in earned', id \notin earned PROVE Pending(id)'
    <3>1. id = req[p].id /\ DOMAIN unknown' = DOMAIN unknown \cup {req[p].id}
      BY <2>1, <2>6, RecordEffect
    <3>2. IsAbuser(unknown'[req[p].id])
      BY <2>1, <2>6, <3>1, RecordEffect
    <3> QED
      BY <2>4, <3>1, <3>2
  <2> QED
    BY <2>2, <2>5, <2>6 DEF FlushInv, Open
<1>3. CASE \E r \in Runs : RunStart(r) \/ RunStep(r)
  <2>1. PICK r \in Runs : RunStart(r) \/ RunStep(r)
    BY <1>3
  <2>2. UNCHANGED <<phase, timedOut, earned>> /\ failures = 0 /\ Others(r)
    BY <2>1, RunFrame, OthersKept
  <2>3. ASSUME Upsert(r), Open
        PROVE  DOMAIN abuse' = DOMAIN abuse \cup {run[r].cur}
    <3>1. ASSUME Fails(r) PROVE FALSE
      <4>1. phase = "cancelled"
        BY <1>0, <3>1, OpFacts
      <4> QED
        BY <2>3, <4>1 DEF Open
    <3>2. abuse' = Put(abuse, run[r].cur, run[r].copy)
      BY <2>3, <3>1 DEF Upsert
    <3> QED
      BY <3>2 DEF Put
  <2>4. DOMAIN abuse \subseteq DOMAIN abuse'
    <3>1. Upsert(r) => abuse' = abuse \/ abuse' = Put(abuse, run[r].cur, run[r].copy)
      BY DEF Upsert
    <3>2. ~Upsert(r) => abuse' = abuse
      BY <1>0, <2>1, RunStartEffect, KnownExistsEffect, KnownDeleteEffect, UnknownStartEffect,
         UnknownGetEffect, UnknownSkipEffect, ForgetEffect, FinishEffect DEF RunStep
    <3> QED
      BY <3>1, <3>2 DEF Put
  <2>5. ASSUME Open', NEW q \in Runs, run'[q].step = "forget" PROVE run'[q].cur \in DOMAIN abuse'
    <3>1. Open
      BY <2>2, <2>5 DEF Open
    <3>2. CASE q # r
      BY <2>2, <2>4, <2>5, <3>1, <3>2 DEF FlushInv, Others
    <3>3. CASE q = r
      <4>1. Upsert(r)
        BY <1>0, <2>1, <2>5, <3>3, RunStartEffect, KnownExistsEffect, KnownDeleteEffect,
           UnknownStartEffect, UnknownGetEffect, UnknownSkipEffect, ForgetEffect, FinishEffect
           DEF RunStep
      <4>2. run'[r].cur = run[r].cur
        BY <1>0, <4>1, UpsertEffect
      <4> QED
        BY <2>3, <3>1, <3>3, <4>1, <4>2
    <3> QED
      BY <3>2, <3>3
  <2>6. ASSUME NEW id \in earned, id \notin DOMAIN abuse' PROVE Pending(id)'
    <3>1. id \notin DOMAIN abuse /\ Pending(id)
      BY <2>2, <2>4, <2>6 DEF FlushInv
    <3>2. Open
      BY <3>1 DEF Pending, PhaseInv
    <3>3. id \in DOMAIN unknown' /\ unknown'[id] = unknown[id]
      <4>1. id \in DOMAIN unknown /\ unknown[id] \in Counters /\ IsAbuser(unknown[id])
            /\ run[r].start \in Nat
        BY <3>1 DEF Pending, TypeInv, MapsOK, RunsOK, RunRecs
      <4>2. ASSUME id \notin DOMAIN unknown' PROVE FALSE
        <5>1. /\ IsInactive(unknown[id], run[r].start)
              /\ \/ run[r].step = "forget" /\ run[r].cur = id
                 \/ /\ run[r].step = "unknown"
                    /\ \E s \in run[r].todo : s.id = id /\ ~(s.abuser /\ run[r].redisUp)
          BY <2>1, <4>1, <4>2, UnknownShrinks
        <5>2. run[r].step # "forget" \/ run[r].cur # id
          BY <2>2, <3>1, <3>2 DEF FlushInv
        <5>3. run[r].step = "unknown" => run[r].redisUp = TRUE
          BY <2>2, <3>2 DEF HealthInv, UnknownSteps
        <5>4. PICK s \in run[r].todo : s.id = id /\ ~s.abuser
          BY <5>1, <5>2, <5>3
        <5>5. Fresh(unknown[id], run[r].start)
          BY <4>1, <5>1, <5>2, <5>4 DEF SkipInv, UnknownSteps
        <5> QED
          BY <4>1, <5>1, <5>5, FreshKept
      <4> QED
        BY <2>1, <4>1, <4>2, UnknownShrinks
    <3>4. IsAbuser(unknown'[id])
      BY <3>1, <3>3 DEF Pending
    <3>5. /\ run'["final"].step # "done"
          /\ run'["final"].step \in UnknownSteps =>
               \/ \E s \in run'["final"].todo : s.id = id /\ s.abuser
               \/ run'["final"].step = "upsert" /\ run'["final"].cur = id
      <4>1. CASE r = "loop"
        <5>1. run'["final"] = run["final"]
          BY <1>0, <2>2, <4>1 DEF Others
        <5> QED
          BY <3>1, <5>1 DEF Pending
      <4>2. CASE r = "final"
        <5>0. /\ run["final"].step = "unknown" \/ run["final"].step = "forget" =>
                   \E s \in run["final"].todo : s.id = id /\ s.abuser
              /\ run["final"].step = "upsert" =>
                   \/ \E s \in run["final"].todo : s.id = id /\ s.abuser
                   \/ run["final"].cur = id
          BY <3>1 DEF Pending, UnknownSteps
        <5>1. CASE RunStart(r) \/ KnownExists(r) \/ KnownDelete(r)
          <6>1. run'["final"].step \in KnownSteps
            BY <1>0, <4>2, <5>1, RunStartEffect, KnownExistsEffect, KnownDeleteEffect
               DEF KnownSteps
          <6> QED
            BY <6>1 DEF KnownSteps, UnknownSteps
        <5>2. CASE UnknownStart(r)
          <6>1. run'["final"].step = "unknown" /\ run'["final"].todo = UnknownSnapshot
            BY <1>0, <4>2, <5>2, UnknownStartEffect
          <6>2. \E s \in UnknownSnapshot : s.id = id /\ s.abuser
            BY <3>1, SnapshotFacts DEF Pending
          <6> QED
            BY <6>1, <6>2
        <5>3. CASE UnknownGet(r)
          <6>1. run["final"].step = "unknown"
            BY <1>0, <4>2, <5>3, UnknownGetEffect
          <6>2. PICK s \in run["final"].todo :
                  /\ run'["final"].todo = run["final"].todo \ {s}
                  /\ \/ run'["final"].step = "upsert" /\ run'["final"].cur = s.id
                     \/ s.id \notin DOMAIN unknown /\ run'["final"].step = "unknown"
            BY <1>0, <4>2, <5>3, UnknownGetEffect
          <6>3. PICK w \in run["final"].todo : w.id = id /\ w.abuser
            BY <5>0, <6>1
          <6>4. id \in DOMAIN unknown
            BY <3>1 DEF Pending
          <6> QED
            BY <6>2, <6>3, <6>4
        <5>4. CASE UnknownSkip(r)
          <6>1. run["final"].step = "unknown" /\ run'["final"].step = "unknown"
            BY <1>0, <4>2, <5>4, UnknownSkipEffect
          <6>2. PICK s \in run["final"].todo :
                  /\ ~(s.abuser /\ run["final"].redisUp)
                  /\ run'["final"].todo = run["final"].todo \ {s}
            BY <1>0, <4>2, <5>4, UnknownSkipEffect
          <6>3. run["final"].redisUp = TRUE
            BY <1>0, <2>2, <3>2, <6>1 DEF HealthInv, UnknownSteps
          <6>4. PICK w \in run["final"].todo : w.id = id /\ w.abuser
            BY <5>0, <6>1
          <6> QED
            BY <6>1, <6>2, <6>3, <6>4
        <5>5. CASE Upsert(r)
          <6>1. /\ run["final"].step = "upsert" /\ run'["final"].step = "forget"
                /\ run'["final"].todo = run["final"].todo
            BY <1>0, <4>2, <5>5, UpsertEffect
          <6>2. run["final"].cur # id
            BY <2>3, <2>6, <3>2, <4>2, <5>5
          <6> QED
            BY <5>0, <6>1, <6>2
        <5>6. CASE Forget(r)
          <6>1. /\ run["final"].step = "forget" /\ run'["final"].step = "unknown"
                /\ run'["final"].todo = run["final"].todo
            BY <1>0, <4>2, <5>6, ForgetEffect
          <6> QED
            BY <5>0, <6>1
        <5>7. CASE Finish(r)
          <6>1. run["final"].step = "unknown" /\ run["final"].todo = {}
            BY <1>0, <4>2, <5>7, FinishEffect
          <6> QED
            BY <5>0, <6>1
        <5> QED
          BY <2>1, <5>1, <5>2, <5>3, <5>4, <5>5, <5>6, <5>7 DEF RunStep
      <4> QED
        BY <4>1, <4>2 DEF Runs
    <3> QED
      BY <3>3, <3>4, <3>5 DEF Pending
  <2> QED
    BY <2>2, <2>5, <2>6
<1> QED
  BY <1>1, <1>2, <1>3, StepKinds
-----------------------------------------------------------------------------
\* The inductive invariant of the three results below.
KeepInv == /\ TypeInv /\ PhaseInv /\ LagInv /\ HealthInv
           /\ SkipInv /\ CopyInv /\ CollectInv /\ FlushInv

\* The invariants about keeping and dropping counters always hold.
LEMMA KeepInvariant == ASSUME LagBound PROVE Spec => []KeepInv
<1>1. Init => KeepInv
  <2>1. ASSUME Init PROVE /\ PhaseInv /\ LagInv /\ HealthInv
                          /\ SkipInv /\ CopyInv /\ CollectInv /\ FlushInv
    <3>1. \A r \in Runs : run[r].step = "idle"
      BY <2>1, NoRunFields DEF Init
    <3>2. /\ DOMAIN abuse = {} /\ DOMAIN req = {} /\ DOMAIN unknown = {} /\ phase = "running"
          /\ earned = {} /\ healthy = TRUE
      BY <2>1 DEF Init
    <3>3. PhaseInv /\ LagInv /\ HealthInv
      BY <3>1, <3>2 DEF PhaseInv, LagInv, HealthInv, Runs, UnknownSteps, Serving, Open
    <3>4. SkipInv /\ CopyInv /\ FlushInv
      BY <3>1, <3>2 DEF SkipInv, CopyInv, FlushInv, UnknownSteps
    <3>5. CollectInv
      BY <3>1 DEF CollectInv, KnownLeft, KnownCollected, UnknownLeft, KnownSteps, UnknownSteps
    <3> QED
      BY <3>3, <3>4, <3>5
  <2> QED
    BY <2>1, TypeInit DEF KeepInv
<1>2. KeepInv /\ [Next]_vars => KeepInv'
  <2> SUFFICES ASSUME KeepInv, [Next]_vars PROVE KeepInv'
    OBVIOUS
  <2>0. TypeInv /\ PhaseInv /\ LagInv /\ HealthInv /\ SkipInv /\ CopyInv /\ CollectInv /\ FlushInv
    BY DEF KeepInv
  <2>1. TypeInv' /\ PhaseInv' /\ LagInv' /\ HealthInv'
    BY <2>0, TypeStep, PhaseStep, LagStep, HealthStep
  <2>2. SkipInv' /\ CopyInv' /\ CollectInv' /\ FlushInv'
    BY <2>0, <2>1, SkipStep, CopyStep, CollectStep, FlushStep
  <2> QED
    BY <2>1, <2>2 DEF KeepInv
<1> QED
  BY <1>1, <1>2, PTL DEF Spec

\* When the process exits in order and Redis never failed, no abuser is lost,
\* whatever the interleaving of requests, the loop's cycle and the final one.
THEOREM FlushedAtExitHolds == ASSUME LagBound PROVE Spec => []FlushedAtExit
<1>1. KeepInv => FlushedAtExit
  <2> SUFFICES ASSUME KeepInv, phase = "stopped", failures = 0, ~timedOut, NEW id \in earned
               PROVE  id \in DOMAIN abuse
    BY DEF FlushedAtExit
  <2>1. run["final"].step = "done"
    BY DEF KeepInv, PhaseInv, Open
  <2> QED
    BY <2>1 DEF KeepInv, FlushInv, Pending
<1> QED
  BY <1>1, KeepInvariant, PTL

\* A counter with enough abuse hits that cleanup removes has been written to
\* Redis exactly as it was, as long as no operation failed and the final
\* cleanup has not begun: between the copy and DeleteIfInactive's look under
\* the lock no request is lost.
THEOREM TransferredWhenDroppedHolds == ASSUME LagBound PROVE Spec => TransferredWhenDropped
<1> DEFINE A == \A id \in DOMAIN unknown :
                  /\ id \notin DOMAIN unknown'
                  /\ IsAbuser(unknown[id])
                  /\ failures = 0 /\ run["final"].step = "idle"
                  => id \in DOMAIN abuse /\ abuse[id] = AbuseRecord(unknown[id])
<1>1. KeepInv /\ [Next]_vars => [A]_vars
  <2> SUFFICES ASSUME KeepInv, [Next]_vars, NEW id \in DOMAIN unknown,
                      id \notin DOMAIN unknown', IsAbuser(unknown[id]), failures = 0,
                      run["final"].step = "idle"
               PROVE  id \in DOMAIN abuse /\ abuse[id] = AbuseRecord(unknown[id])
    OBVIOUS
  <2>0. TypeInv /\ PhaseInv /\ HealthInv /\ SkipInv /\ CopyInv
    BY DEF KeepInv
  <2>1. PICK r \in Runs : RunStart(r) \/ RunStep(r)
    <3>1. IdleStep => FALSE
      BY DEF IdleStep
    <3>2. ASSUME NEW p \in Procs, RecordRequest(p) PROVE FALSE
      BY <2>0, <3>2, RecordEffect
    <3> QED
      BY <2>0, <3>1, <3>2, StepKinds
  <2>2. /\ IsInactive(unknown[id], run[r].start)
        /\ \/ run[r].step = "forget" /\ run[r].cur = id
           \/ /\ run[r].step = "unknown"
              /\ \E s \in run[r].todo : s.id = id /\ ~(s.abuser /\ run[r].redisUp)
    BY <2>0, <2>1, UnknownShrinks
  <2>3. r = "loop" /\ Open
    BY <2>0, <2>2 DEF Runs, PhaseInv
  <2>4. ~Fresh(unknown[id], run[r].start)
    <3>1. unknown[id] \in Counters /\ run[r].start \in Nat
      BY <2>0 DEF TypeInv, MapsOK, RunsOK, RunRecs
    <3> QED
      BY <2>2, <3>1, FreshKept
  <2>5. CASE run[r].step = "forget" /\ run[r].cur = id
    BY <2>0, <2>3, <2>4, <2>5 DEF CopyInv
  <2>6. CASE /\ run[r].step = "unknown"
             /\ \E s \in run[r].todo : s.id = id /\ ~(s.abuser /\ run[r].redisUp)
    <3>1. run[r].redisUp = TRUE
      BY <2>0, <2>3, <2>6 DEF HealthInv, UnknownSteps
    <3>2. PICK s \in run[r].todo : s.id = id /\ ~s.abuser
      BY <2>6, <3>1
    <3> QED
      BY <2>0, <2>4, <2>6, <3>2 DEF SkipInv, UnknownSteps
  <2> QED
    BY <2>2, <2>5, <2>6
<1>2. TransferredWhenDropped <=> [][A]_vars
  BY DEF TransferredWhenDropped
<1> QED
  BY <1>1, <1>2, KeepInvariant, PTL DEF Spec

\* A cycle of Cleanup.Run that ends leaves no counter that was inactive when
\* it began: of the unknown map never, of the known map only one whose own
\* LimitExists failed.
THEOREM CollectedEachCycleHolds == ASSUME LagBound PROVE Spec => CollectedEachCycle
<1> DEFINE A == \A r \in Runs : Ends(r) =>
                  /\ LeftOver(unknown, run[r].start) = {}
                  /\ LeftOver(known, run[r].start) \subseteq run[r].failed
<1>1. KeepInv /\ [Next]_vars => [A]_vars
  <2> SUFFICES ASSUME KeepInv, [Next]_vars, NEW r \in Runs, Ends(r)
               PROVE  /\ LeftOver(unknown, run[r].start) = {}
                      /\ LeftOver(known, run[r].start) \subseteq run[r].failed
    OBVIOUS
  <2>0. TypeInv /\ CollectInv /\ RunsOK /\ MapsOK /\ now \in Nat /\ healthy \in BOOLEAN
    BY DEF KeepInv, TypeInv, ScalarsOK
  <2>1. run'[r] # run[r]
    BY DEF Ends
  <2>2. PICK q \in Runs : RunStart(q) \/ RunStep(q)
    <3>1. IdleStep => FALSE
      BY <2>1 DEF IdleStep
    <3>2. ASSUME NEW p \in Procs, RecordRequest(p) PROVE FALSE
      BY <2>1, <3>2, RecordFrame
    <3> QED
      BY <2>0, <3>1, <3>2, StepKinds
  <2>3. q = r
    BY <2>0, <2>1, <2>2, OthersKept DEF Others
  <2>4. run[r].step = "unknown" /\ run[r].todo = {}
    <3>1. run'[r].step \in {"idle", "done"} /\ run[r].step = "unknown"
      BY DEF Ends
    <3>2. Finish(r)
      BY <2>0, <2>2, <2>3, <3>1, RunStartEffect, KnownExistsEffect, KnownDeleteEffect,
         UnknownStartEffect, UnknownGetEffect, UnknownSkipEffect, UpsertEffect, ForgetEffect
         DEF RunStep
    <3> QED
      BY <2>0, <3>2, FinishEffect
  <2>5. KnownCollected(r) /\ UnknownLeft(r)
    BY <2>0 DEF CollectInv
  <2> QED
    BY <2>4, <2>5 DEF KnownCollected, UnknownLeft, LeftOver, UnknownSteps
<1>2. CollectedEachCycle <=> [][A]_vars
  BY DEF CollectedEachCycle
<1> QED
  BY <1>1, <1>2, KeepInvariant, PTL DEF Spec
=============================================================================
