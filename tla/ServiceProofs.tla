--------------------------- MODULE ServiceProofs ---------------------------
(***************************************************************************)
(* The service uses its two maps as CounterMap describes, and so what is   *)
(* proved of every CounterMap holds of both while requests, cleanup, Redis *)
(* and shutdown interleave.                                                *)
(***************************************************************************)
EXTENDS Service, RateLimiterProofs, FiniteSetTheorems

-----------------------------------------------------------------------------
(* The service with its history is RateLimiter.                             *)

\* The history changes nothing: every step is one of RateLimiter.
LEMMA ServiceSteps == [ServiceNext]_allVars => [Next]_vars
<1>1. ServiceNext => Next
  BY DEF ServiceNext, Silent, Next, RunStep
<1>2. UNCHANGED allVars => UNCHANGED vars
  BY DEF allVars
<1> QED
  BY <1>1, <1>2

\* Every behaviour of the service is one of RateLimiter, with its type
\* invariant and what it keeps of keys with a limit.
LEMMA ServiceTypes == ServiceSpec => [](TypeInv /\ LimitedInv)
<1>1. ServiceInit => TypeInv /\ LimitedInv
  BY TypeInit, LimitedInit DEF ServiceInit
<1>2. TypeInv /\ LimitedInv /\ [ServiceNext]_allVars => TypeInv' /\ LimitedInv'
  BY ServiceSteps, TypeStep, LimitedStep
<1> QED
  BY <1>1, <1>2, PTL DEF ServiceSpec

-----------------------------------------------------------------------------
(* The requests that wait for a lock.                                       *)

\* The requests of either map stay as they are if those at the lock do.
LEMMA CallsKept ==
  ASSUME \A q : q \in DOMAIN req' /\ req'[q].step = "record"
                  <=> q \in DOMAIN req /\ req[q].step = "record",
         \A q \in DOMAIN req : req[q].step = "record" => req'[q] = req[q],
         NEW m
  PROVE  CallsOf(m)' = CallsOf(m)
<1>1. Waiting(m)' = Waiting(m) /\ \A q \in Waiting(m) : req'[q] = req[q]
  BY DEF Waiting, MapOf
<1> QED
  BY <1>1 DEF CallsOf, KeyOf

\* A clock reading adds the request to those of its map.
LEMMA ReadClockCalls ==
  ASSUME TypeInv, NEW p \in Procs, ReadClock(p), NEW m
  PROVE  /\ p \in DOMAIN req /\ p \notin DOMAIN CallsOf(m)
         /\ CallsOf(m)' = IF m = MapOf(req[p])
              THEN Put(CallsOf(m), p, [key |-> KeyOf(req[p]), time |-> now,
                                       limit |-> req[p].limit])
              ELSE CallsOf(m)
<1> DEFINE new == [req[p] EXCEPT !.step = "record", !.time = now]
<1>1. p \in DOMAIN req /\ req[p] \in Requests /\ req[p].step = "clock"
  BY DEF ReadClock, TypeInv, ReqsOK
<1>2. /\ new.step = "record" /\ new.time = now /\ new.id = req[p].id
      /\ new.known = req[p].known /\ new.limit = req[p].limit
  BY <1>1 DEF Requests
<1>3. req' = [req EXCEPT ![p] = new]
  BY DEF ReadClock
<1> HIDE DEF new
<1>4. /\ DOMAIN req' = DOMAIN req /\ req'[p] = new
      /\ \A q \in DOMAIN req : q # p => req'[q] = req[q]
  BY <1>1, <1>3
<1>5. MapOf(new) = MapOf(req[p]) /\ KeyOf(new) = KeyOf(req[p])
  BY <1>2 DEF MapOf, KeyOf
<1>6. p \notin Waiting(m) /\ DOMAIN CallsOf(m) = Waiting(m)
  BY <1>1 DEF Waiting, CallsOf
<1>7. Waiting(m)' = {q \in DOMAIN req' : req'[q].step = "record" /\ MapOf(req'[q]) = m}
  BY DEF Waiting, MapOf
<1>8. CallsOf(m)' = [q \in Waiting(m)' |-> [key |-> KeyOf(req'[q]), time |-> req'[q].time,
                                            limit |-> req'[q].limit]]
  BY DEF CallsOf, KeyOf
<1>9. CASE m = MapOf(req[p])
  <2>1. Waiting(m)' = Waiting(m) \cup {p}
    BY <1>1, <1>2, <1>4, <1>5, <1>7, <1>9 DEF Waiting
  <2> QED
    BY <1>2, <1>4, <1>5, <1>6, <1>8, <1>9, <2>1 DEF CallsOf, Waiting, Put
<1>10. CASE m # MapOf(req[p])
  <2>1. Waiting(m)' = Waiting(m)
    BY <1>1, <1>2, <1>4, <1>5, <1>7, <1>10 DEF Waiting
  <2> QED
    BY <1>1, <1>4, <1>6, <1>8, <1>10, <2>1 DEF CallsOf, Waiting
<1> QED
  BY <1>1, <1>6, <1>9, <1>10

\* The locked section takes the request away from those of its map.
LEMMA RecordCalls ==
  ASSUME TypeInv, NEW p \in Procs, RecordRequest(p), NEW m
  PROVE  /\ CallsOf(m)' = IF m = MapOf(req[p]) THEN Without(CallsOf(m), p) ELSE CallsOf(m)
         /\ m = MapOf(req[p]) =>
              /\ p \in DOMAIN CallsOf(m)
              /\ CallsOf(m)[p] = [key |-> KeyOf(req[p]), time |-> req[p].time,
                                  limit |-> req[p].limit]
<1>1. p \in DOMAIN req /\ req[p].step = "record" /\ req' = Without(req, p)
  BY DEF RecordRequest
<1>2. DOMAIN req' = DOMAIN req \ {p} /\ \A q \in DOMAIN req' : req'[q] = req[q]
  BY <1>1 DEF Without
<1>3. Waiting(m)' = {q \in DOMAIN req' : req'[q].step = "record" /\ MapOf(req'[q]) = m}
  BY DEF Waiting, MapOf
<1>4. Waiting(m)' = Waiting(m) \ {p}
  BY <1>2, <1>3 DEF Waiting
<1>5. CallsOf(m)' = [q \in Waiting(m)' |-> [key |-> KeyOf(req'[q]), time |-> req'[q].time,
                                            limit |-> req'[q].limit]]
  BY DEF CallsOf, KeyOf
<1>6. m = MapOf(req[p]) <=> p \in Waiting(m)
  BY <1>1 DEF Waiting
<1>7. \A q \in Waiting(m) \ {p} : req'[q] = req[q]
  BY <1>2 DEF Waiting
<1>8. CallsOf(m)' = Without(CallsOf(m), p)
  BY <1>4, <1>5, <1>7 DEF CallsOf, Without
<1>9. p \notin Waiting(m) => Without(CallsOf(m), p) = CallsOf(m)
  BY DEF Without, CallsOf
<1> QED
  BY <1>6, <1>8, <1>9 DEF CallsOf
-----------------------------------------------------------------------------
(* The steps neither map answers in.                                        *)

\* Cleanup collects one inactive unknown counter, judged at an earlier time.
Collects == \E id \in Ids, t \in 0..now :
              /\ id \in DOMAIN unknown /\ IsInactive(unknown[id], t)
              /\ unknown' = Without(unknown, id)

\* Steps that concern no request: time passes, cleanup collects, or what
\* happens is nothing to the maps.
Aside == /\ UNCHANGED <<req, issued, known>>
         /\ \/ now < MaxNow /\ now' = now + 1 /\ unknown' = unknown
            \/ now' = now /\ unknown' = unknown
            \/ now' = now /\ Collects

\* DeleteIfInactive of the unknown map with the start of a cycle.
LEMMA CollectsOrNot ==
  ASSUME TypeInv, NEW r \in Runs, NEW id,
         unknown' = DeleteIfInactive(unknown, id, run[r].start)
  PROVE  unknown' = unknown \/ Collects
<1>1. CASE id \in DOMAIN unknown /\ IsInactive(unknown[id], run[r].start)
  <2>1. id \in Ids /\ run[r].start \in 0..now
    BY <1>1 DEF TypeInv, MapsOK, TimesOK, RunsOK, RunRecs, ScalarsOK
  <2>2. unknown' = Without(unknown, id)
    BY <1>1 DEF DeleteIfInactive
  <2> QED
    BY <1>1, <2>1, <2>2 DEF Collects
<1>2. CASE ~(id \in DOMAIN unknown /\ IsInactive(unknown[id], run[r].start))
  BY <1>2 DEF DeleteIfInactive
<1> QED
  BY <1>1, <1>2

\* What the silent steps are to the maps.
LEMMA SilentKinds ==
  ASSUME TypeInv, Silent \/ UNCHANGED vars
  PROVE  \/ Aside
         \/ \E p \in Procs, id \in Ids : Arrive(p, id)
         \/ \E p \in Procs : LookupLimit(p)
<1>0. RunsOK /\ MapsOK /\ ScalarsOK /\ RedisOK /\ now \in Nat /\ healthy \in BOOLEAN
  BY DEF TypeInv, ScalarsOK
<1>1. CASE Tick \/ UNCHANGED vars
  BY <1>1 DEF Tick, vars, counterVars, Aside
<1>2. CASE Outside
  BY <1>0, <1>2, OutsideEffect DEF Aside
<1>3. CASE Shutdown
  BY <1>3, ShutdownEffect DEF Aside
<1>4. ASSUME NEW r \in Runs,
             \/ RunStart(r) \/ KnownExists(r) \/ UnknownStart(r) \/ UnknownGet(r)
             \/ UnknownSkip(r) \/ Upsert(r) \/ Forget(r) \/ Finish(r)
      PROVE  Aside
  <2>1. UNCHANGED <<now, req>>
    BY <1>4, RunFrame DEF RunStep
  <2>2. issued' = issued
    BY <1>4 DEF RunStart, KnownExists, UnknownStart, UnknownGet, UnknownSkip, Upsert, Forget,
                Finish
  <2>3. known' = known
    BY <1>4 DEF RunStart, KnownExists, UnknownStart, UnknownGet, UnknownSkip, Upsert, Forget,
                Finish, counterVars
  <2>4. unknown' = unknown \/ Collects
    <3>1. CASE UnknownSkip(r)
      BY <1>0, <3>1, UnknownSkipEffect, CollectsOrNot
    <3>2. CASE Forget(r)
      BY <1>0, <3>2, ForgetEffect, CollectsOrNot
    <3>3. CASE ~UnknownSkip(r) /\ ~Forget(r)
      BY <1>4, <3>3 DEF RunStart, KnownExists, UnknownStart, UnknownGet, Upsert, Finish,
                        counterVars
    <3> QED
      BY <3>1, <3>2, <3>3
  <2> QED
    BY <2>1, <2>2, <2>3, <2>4 DEF Aside
<1> QED
  BY <1>1, <1>2, <1>3, <1>4 DEF Silent, Outside, Shutdown

\* Silent steps leave the requests at the locks alone.
LEMMA SilentCalls ==
  ASSUME TypeInv, Silent \/ UNCHANGED vars, NEW m
  PROVE  CallsOf(m)' = CallsOf(m)
<1>1. CASE Aside
  BY <1>1 DEF Aside, CallsOf, Waiting, MapOf, KeyOf
<1>2. ASSUME NEW p \in Procs, NEW id \in Ids, Arrive(p, id) PROVE CallsOf(m)' = CallsOf(m)
  <2>1. /\ p \notin DOMAIN req /\ DOMAIN req' = DOMAIN req \cup {p}
        /\ \A q \in DOMAIN req : req'[q] = req[q]
        /\ req'[p].step # "record"
    BY <1>2, ArriveEffect
  <2> QED
    BY <2>1, CallsKept
<1>3. ASSUME NEW p \in Procs, LookupLimit(p) PROVE CallsOf(m)' = CallsOf(m)
  <2>1. /\ DOMAIN req' = DOMAIN req /\ \A q \in DOMAIN req : q # p => req'[q] = req[q]
        /\ req[p].step = "lookup" /\ req'[p].step = "clock"
    BY <1>3, LookupEffect
  <2> QED
    BY <2>1, CallsKept
<1> QED
  BY <1>1, <1>2, <1>3, SilentKinds
-----------------------------------------------------------------------------
(* The history's own invariant.                                             *)

\* A known request carries a limit redisDB1 held, any other the global one.
LimitsInv == \A p \in DOMAIN req :
               req[p].limit \in IF req[p].known THEN Limits ELSE {GlobalLimit}

\* The histories exist for both maps.
HistOK == /\ called \in [Maps -> Nat]
          /\ DOMAIN granted = Maps /\ DOMAIN refused = Maps
          /\ DOMAIN late = Maps /\ DOMAIN dropped = Maps

\* Requests that have not read the clock leave room below the bound on calls.
Early == {p \in DOMAIN req : req[p].step # "record"}
RoomInv == /\ IsFiniteSet(Early)
           /\ called["known"] + called["unknown"] + Cardinality(Early) <= issued

MapInv == TypeInv /\ LimitsInv /\ HistOK /\ RoomInv

\* It holds at the start.
LEMMA MapInit == ServiceInit => MapInv
<1> SUFFICES ASSUME ServiceInit PROVE MapInv
  OBVIOUS
<1>1. TypeInv /\ DOMAIN req = {} /\ issued = 0
  BY TypeInit DEF ServiceInit, Init
<1>2. Early = {}
  BY <1>1 DEF Early
<1>3. called["known"] = 0 /\ called["unknown"] = 0 /\ HistOK
  BY DEF ServiceInit, HistOK, Maps
<1> QED
  BY <1>1, <1>2, <1>3, FS_EmptySet DEF MapInv, LimitsInv, RoomInv

\* Each step keeps the limits of the requests.
LEMMA LimitsStep ==
  ASSUME MapInv, [ServiceNext]_allVars
  PROVE  LimitsInv'
<1>0. TypeInv /\ LimitsInv /\ RedisOK
  BY DEF MapInv, TypeInv
<1>1. CASE Aside
  BY <1>0, <1>1 DEF Aside, LimitsInv
<1>2. ASSUME NEW p \in Procs, NEW id \in Ids, Arrive(p, id) PROVE LimitsInv'
  <2>1. req' = Put(req, p, Request(id, IF id[1] = "key" THEN "lookup" ELSE "clock", FALSE,
                                   GlobalLimit, 0))
    BY <1>2 DEF Arrive
  <2> QED
    BY <1>0, <2>1 DEF LimitsInv, Put, Request
<1>3. ASSUME NEW p \in Procs, LookupLimit(p) PROVE LimitsInv'
  <2>1. PICK new : /\ p \in DOMAIN req /\ req' = [req EXCEPT ![p] = new]
                   /\ new.limit \in IF new.known THEN Limits ELSE {GlobalLimit}
    <3> DEFINE a == req[p].id[2]
               found == a \in DOMAIN db1 /\ db1[a] # Unparseable
               hit == Request(req[p].id, "clock", found, IF found THEN db1[a] ELSE GlobalLimit, 0)
               miss == Request(req[p].id, "clock", FALSE, GlobalLimit, 0)
    <3>1. found => db1[a] \in Limits
      BY <1>0 DEF RedisOK
    <3>2. hit.limit \in IF hit.known THEN Limits ELSE {GlobalLimit}
      BY <3>1 DEF Request
    <3>3. miss.limit \in IF miss.known THEN Limits ELSE {GlobalLimit}
      BY DEF Request
    <3>4. \/ req' = [req EXCEPT ![p] = hit]
          \/ req' = [req EXCEPT ![p] = miss]
      BY <1>3 DEF LookupLimit
    <3>5. p \in DOMAIN req
      BY <1>3 DEF LookupLimit
    <3> HIDE DEF hit, miss
    <3> QED
      BY <3>2, <3>3, <3>4, <3>5
  <2> QED
    BY <1>0, <2>1 DEF LimitsInv
<1>4. ASSUME NEW p \in Procs, ReadClock(p) PROVE LimitsInv'
  <2> DEFINE new == [req[p] EXCEPT !.step = "record", !.time = now]
  <2>1. p \in DOMAIN req /\ req[p] \in Requests /\ req' = [req EXCEPT ![p] = new]
    BY <1>0, <1>4 DEF ReadClock, TypeInv, ReqsOK
  <2>2. new.limit = req[p].limit /\ new.known = req[p].known
    BY <2>1 DEF Requests
  <2> HIDE DEF new
  <2> QED
    BY <1>0, <2>1, <2>2 DEF LimitsInv
<1>5. ASSUME NEW p \in Procs, RecordRequest(p) PROVE LimitsInv'
  BY <1>0, <1>5 DEF RecordRequest, Without, LimitsInv
<1>6. ASSUME NEW r \in Runs, KnownDelete(r) PROVE LimitsInv'
  BY <1>0, <1>6 DEF KnownDelete, LimitsInv
<1>7. CASE Silent \/ UNCHANGED vars
  BY <1>0, <1>1, <1>2, <1>3, <1>7, SilentKinds
<1> QED
  BY <1>4, <1>5, <1>6, <1>7 DEF ServiceNext, allVars

\* The two names of the maps.
LEMMA MapNames ==
  /\ "known" \in Maps /\ "unknown" \in Maps
  /\ \A r : MapOf(r) \in Maps /\ MapOf(r) = (IF r.known THEN "known" ELSE "unknown")
  BY DEF Maps, MapOf

\* Each step keeps the histories of both maps.
LEMMA HistStep ==
  ASSUME HistOK, [ServiceNext]_allVars
  PROVE  HistOK'
<1>1. ASSUME NEW p \in Procs, NoteCall(p) PROVE HistOK'
  BY <1>1, MapNames DEF NoteCall, HistOK
<1>2. ASSUME NEW p \in Procs, NoteDecision(p) PROVE HistOK'
  BY <1>2 DEF NoteDecision, HistOK
<1>3. ASSUME NEW r \in Runs, NoteDrop(r) PROVE HistOK'
  BY <1>3 DEF NoteDrop, HistOK
<1>4. CASE UNCHANGED histVars
  BY <1>4 DEF histVars, HistOK
<1> QED
  BY <1>1, <1>2, <1>3, <1>4 DEF ServiceNext, allVars

\* Each step keeps room for the calls of the requests under way.
LEMMA RoomStep ==
  ASSUME MapInv, [ServiceNext]_allVars
  PROVE  RoomInv'
<1>0. /\ TypeInv /\ HistOK /\ IsFiniteSet(Early) /\ Cardinality(Early) \in Nat /\ issued \in Nat
      /\ called["known"] \in Nat /\ called["unknown"] \in Nat
      /\ called["known"] + called["unknown"] + Cardinality(Early) <= issued
  BY FS_CardinalityType, MapNames DEF MapInv, RoomInv, HistOK, TypeInv, ScalarsOK
<1>e. Early' = {q \in DOMAIN req' : req'[q].step # "record"}
  BY DEF Early
<1>1. ASSUME called' = called, issued' = issued, Early' = Early PROVE RoomInv'
  BY <1>0, <1>1 DEF RoomInv
<1>2. ASSUME NEW p \in Procs, ReadClock(p), NoteCall(p) PROVE RoomInv'
  <2>1. /\ p \in DOMAIN req /\ DOMAIN req' = DOMAIN req
        /\ \A q \in DOMAIN req : q # p => req'[q] = req[q]
        /\ req[p].step = "clock" /\ req'[p].step = "record"
    BY <1>0, <1>2, ReadClockEffect
  <2>2. p \in Early /\ Early' = Early \ {p} /\ issued' = issued
    BY <1>2, <1>e, <2>1 DEF Early, ReadClock
  <2>3. IsFiniteSet(Early') /\ Cardinality(Early') = Cardinality(Early) - 1
    BY <1>0, <2>2, FS_RemoveElement
  <2>4. called'["known"] + called'["unknown"] = called["known"] + called["unknown"] + 1
    <3>1. called' = [called EXCEPT ![MapOf(req[p])] = @ + 1]
      BY <1>2 DEF NoteCall
    <3>2. CASE req[p].known
      BY <1>0, <3>1, <3>2, MapNames DEF HistOK
    <3>3. CASE ~req[p].known
      BY <1>0, <3>1, <3>3, MapNames DEF HistOK
    <3> QED
      BY <3>2, <3>3
  <2>5. called'["known"] \in Nat /\ called'["unknown"] \in Nat
    BY <1>2, <1>0, MapNames DEF NoteCall, HistOK
  <2> QED
    BY <1>0, <2>2, <2>3, <2>4, <2>5 DEF RoomInv
<1>3. ASSUME NEW p \in Procs, RecordRequest(p), NoteDecision(p) PROVE RoomInv'
  <2>1. /\ p \in DOMAIN req /\ req[p].step = "record" /\ DOMAIN req' = DOMAIN req \ {p}
        /\ \A q \in DOMAIN req' : req'[q] = req[q]
    BY <1>0, <1>3, RecordEffect
  <2>2. Early' = Early
    BY <1>e, <2>1 DEF Early
  <2>3. called' = called /\ issued' = issued
    BY <1>3 DEF NoteDecision, RecordRequest
  <2> QED
    BY <1>1, <2>2, <2>3
<1>4. ASSUME NEW r \in Runs, KnownDelete(r), NoteDrop(r) PROVE RoomInv'
  <2>1. called' = called /\ issued' = issued /\ req' = req
    BY <1>4 DEF NoteDrop, KnownDelete
  <2> QED
    BY <1>1, <1>e, <2>1 DEF Early
<1>5. CASE (Silent \/ UNCHANGED vars) /\ UNCHANGED histVars
  <2>0. called' = called
    BY <1>5 DEF histVars
  <2>1. CASE Aside
    BY <1>1, <1>e, <2>0, <2>1 DEF Aside, Early
  <2>2. ASSUME NEW p \in Procs, NEW id \in Ids, Arrive(p, id) PROVE RoomInv'
    <3>1. /\ p \notin DOMAIN req /\ DOMAIN req' = DOMAIN req \cup {p}
          /\ \A q \in DOMAIN req : req'[q] = req[q]
          /\ req'[p].step # "record"
      BY <1>0, <2>2, ArriveEffect
    <3>2. p \notin Early /\ Early' = Early \cup {p} /\ issued' = issued + 1
      BY <1>e, <2>2, <3>1 DEF Early, Arrive
    <3>3. IsFiniteSet(Early') /\ Cardinality(Early') = Cardinality(Early) + 1
      BY <1>0, <3>2, FS_AddElement
    <3> QED
      BY <1>0, <2>0, <3>2, <3>3 DEF RoomInv
  <2>3. ASSUME NEW p \in Procs, LookupLimit(p) PROVE RoomInv'
    <3>1. /\ DOMAIN req' = DOMAIN req /\ \A q \in DOMAIN req : q # p => req'[q] = req[q]
          /\ req[p].step = "lookup" /\ req'[p].step = "clock"
      BY <1>0, <2>3, LookupEffect
    <3>2. Early' = Early /\ issued' = issued
      BY <1>e, <2>3, <3>1 DEF Early, LookupLimit
    <3> QED
      BY <1>1, <2>0, <3>2
  <2> QED
    BY <1>0, <1>5, <2>1, <2>2, <2>3, SilentKinds
<1> QED
  BY <1>2, <1>3, <1>4, <1>5 DEF ServiceNext, allVars

\* Every step keeps the invariant of the history.
LEMMA MapStep == MapInv /\ [ServiceNext]_allVars => MapInv'
  BY LimitsStep, HistStep, RoomStep, ServiceSteps, TypeStep DEF MapInv

\* A request that is about to read the clock finds room below the bound.
LEMMA ReadClockRoom ==
  ASSUME MapInv, NEW p \in Procs, ReadClock(p)
  PROVE  called["known"] < MaxRequests /\ called["unknown"] < MaxRequests
<1>1. p \in Early
  BY DEF ReadClock, Early
<1>2. IsFiniteSet(Early) /\ Cardinality(Early) \in Nat /\ Cardinality(Early) # 0
  BY <1>1, FS_CardinalityType, FS_EmptySet DEF MapInv, RoomInv
<1>3. /\ called["known"] \in Nat /\ called["unknown"] \in Nat /\ issued \in Nat
      /\ issued <= MaxRequests
  BY MapNames DEF MapInv, HistOK, TypeInv, ScalarsOK
<1> QED
  BY <1>2, <1>3, ServiceAssumption DEF MapInv, RoomInv

-----------------------------------------------------------------------------
(* The known map.                                                           *)

\* CounterMap's operators on counters, for the known map, are the service's.
LEMMA KnownOps ==
  /\ \A t : Known!SlotOf(t) = SlotOf(t)
  /\ Known!Slots = Slots
  /\ \A f, k, v : Known!Put(f, k, v) = Put(f, k, v)
  /\ \A f, k : Known!Without(f, k) = Without(f, k)
  /\ \A t : Known!NewCounter(t) = NewCounter(t)
  /\ \A c, t, l, h : Known!Recorded(c, t, l, h) = Recorded(c, t, l, h)
  /\ \A n, l : Known!Allowed(n, l) <=> Allowed(n, l)
  /\ \A c, t : Known!IsInactive(c, t) <=> IsInactive(c, t)
  /\ \A l : Known!Threshold(l) = l
<1>1. \A t : Known!SlotOf(t) = SlotOf(t)
  BY DEF Known!SlotOf, Known!Unix, SlotOf, Unix
<1>2. Known!Slots = Slots
  BY <1>1 DEF Known!Slots, Slots
<1>3. \A f, k, v : Known!Put(f, k, v) = Put(f, k, v)
  BY DEF Known!Put, Put
<1>4. \A f, k : Known!Without(f, k) = Without(f, k)
  BY DEF Known!Without, Without
<1>5. \A t : Known!NewCounter(t) = NewCounter(t)
  BY <1>1 DEF Known!NewCounter, NewCounter
<1>6. \A n, l : Known!Allowed(n, l) <=> Allowed(n, l)
  BY DEF Known!Allowed, Allowed, Known!Add64, Add64, Known!Wrap, Wrap
<1>7. \A c, t, l, h : Known!Recorded(c, t, l, h) = Recorded(c, t, l, h)
  BY <1>1, <1>6 DEF Known!Recorded, Recorded, Known!WindowCountAfter, WindowCountAfter,
     Known!InBurst, InBurst, Known!HitsAfter, HitsAfter
<1>8. \A c, t : Known!IsInactive(c, t) <=> IsInactive(c, t)
  BY <1>1 DEF Known!IsInactive, IsInactive
<1>9. \A l : Known!Threshold(l) = l
  BY DEF Known!Threshold
<1> QED
  BY <1>1, <1>2, <1>3, <1>4, <1>5, <1>6, <1>7, <1>8, <1>9

\* The known map starts as CounterMap does.
LEMMA KnownInit == ServiceInit => Known!Init
<1> SUFFICES ASSUME ServiceInit PROVE Known!Init
  OBVIOUS
<1>1. now = 0 /\ known = << >> /\ DOMAIN req = {}
  BY DEF ServiceInit, Init
<1>2. CallsOf("known") = << >>
  BY <1>1 DEF CallsOf, Waiting
<1>3. /\ called["known"] = 0
      /\ granted["known"] = [k \in ApiKeys |-> [x \in Slots |-> 0]]
      /\ refused["known"] = [k \in ApiKeys |-> [x \in Slots |-> 0]]
      /\ late["known"] = [k \in ApiKeys |-> 0]
      /\ dropped["known"] = [k \in ApiKeys |-> 0]
  BY DEF ServiceInit, Maps, MapKeys
<1> QED
  BY <1>1, <1>2, <1>3, KnownOps DEF Known!Init

\* A request that reads the clock for the known map is a Call.
LEMMA KnownCall ==
  ASSUME MapInv, NEW p \in Procs, ReadClock(p), NoteCall(p)
  PROVE  Known!Next \/ UNCHANGED Known!vars
<1>0. TypeInv /\ HistOK /\ LimitsInv
  BY DEF MapInv
<1>1. /\ p \in DOMAIN req /\ p \notin DOMAIN CallsOf("known")
      /\ CallsOf("known")' = IF "known" = MapOf(req[p])
           THEN Put(CallsOf("known"), p, [key |-> KeyOf(req[p]), time |-> now,
                                          limit |-> req[p].limit])
           ELSE CallsOf("known")
  BY <1>0, ReadClockCalls
<1>2. /\ now' = now /\ known' = known /\ granted' = granted /\ refused' = refused
      /\ late' = late /\ dropped' = dropped
      /\ called' = [called EXCEPT ![MapOf(req[p])] = @ + 1]
  BY DEF ReadClock, NoteCall, counterVars
<1>3. CASE req[p].known
  <2>1. MapOf(req[p]) = "known" /\ called'["known"] = called["known"] + 1
    BY <1>0, <1>2, <1>3, MapNames DEF HistOK
  <2>2. called["known"] < MaxRequests
    BY ReadClockRoom
  <2>3. KeyOf(req[p]) \in ApiKeys /\ req[p].limit \in Limits
    BY <1>0, <1>1, <1>3, KeyIds DEF LimitsInv, KeyOf, TypeInv, ReqsOK, Requests
  <2>4. Known!Call(p, KeyOf(req[p]), req[p].limit)
    BY <1>1, <1>2, <2>1, <2>2, KnownOps DEF Known!Call
  <2> QED
    BY <2>3, <2>4 DEF Known!Next
<1>4. CASE ~req[p].known
  <2>1. MapOf(req[p]) # "known" /\ called'["known"] = called["known"]
    BY <1>0, <1>2, <1>4, MapNames DEF HistOK
  <2> QED
    BY <1>1, <1>2, <2>1 DEF Known!vars
<1> QED
  BY <1>3, <1>4

\* The locked section of the known map is CounterMap's RecordRequest.
LEMMA KnownRecord ==
  ASSUME MapInv, NEW p \in Procs, RecordRequest(p), NoteDecision(p)
  PROVE  Known!Next \/ UNCHANGED Known!vars
<1>0. TypeInv /\ HistOK /\ LimitsInv
  BY DEF MapInv
<1>1. /\ CallsOf("known")' = IF "known" = MapOf(req[p]) THEN Without(CallsOf("known"), p)
                                                       ELSE CallsOf("known")
      /\ "known" = MapOf(req[p]) =>
              /\ p \in DOMAIN CallsOf("known")
              /\ CallsOf("known")[p] = [key |-> KeyOf(req[p]), time |-> req[p].time,
                                  limit |-> req[p].limit]
  BY <1>0, RecordCalls
<1>2. now' = now /\ called' = called /\ dropped' = dropped
  BY DEF RecordRequest, NoteDecision
<1>3. CASE req[p].known
  <2> DEFINE k == req[p].id[2]
             t == req[p].time
             l == req[p].limit
             s == SlotOf(t)
             new == Recorded(CounterOf(known, k, t), t, l, l)
  <2>1. MapOf(req[p]) = "known" /\ KeyOf(req[p]) = k
    BY <1>3 DEF MapOf, KeyOf
  <2>2. known' = Put(known, k, new)
    BY <1>3 DEF RecordRequest
  <2> HIDE DEF new
  <2>3. known'[k] = new
    BY <2>2 DEF Put
  <2>4. /\ IF Allowed(new.WindowCount, l)
             THEN granted' = [granted EXCEPT !["known"][k][s] = @ + 1] /\ refused' = refused
             ELSE refused' = [refused EXCEPT !["known"][k][s] = @ + 1] /\ granted' = granted
        /\ late' = [late EXCEPT !["known"][k] = IF s < SlotOf(now) THEN @ + 1 ELSE @]
    BY <1>3, <2>1, <2>3 DEF NoteDecision
  <2> HIDE DEF s
  <2>5. /\ IF Allowed(new.WindowCount, l)
             THEN /\ granted'["known"] = [granted["known"] EXCEPT ![k][s] = @ + 1]
                  /\ refused'["known"] = refused["known"]
             ELSE /\ refused'["known"] = [refused["known"] EXCEPT ![k][s] = @ + 1]
                  /\ granted'["known"] = granted["known"]
        /\ late'["known"] = [late["known"] EXCEPT ![k] = IF s < SlotOf(now) THEN @ + 1 ELSE @]
    BY <1>0, <2>4, MapNames DEF HistOK
  <2>6. CallsOf("known")[p].key = k /\ CallsOf("known")[p].time = t
        /\ CallsOf("known")[p].limit = l /\ p \in DOMAIN CallsOf("known")
        /\ CallsOf("known")' = Without(CallsOf("known"), p)
    BY <1>1, <2>1
  <2>7. new = Recorded(IF k \in DOMAIN known THEN known[k] ELSE NewCounter(t), t, l, l)
    BY DEF new, CounterOf
  <2>8. Known!SlotOf(t) = s /\ Known!SlotOf(now) = SlotOf(now)
    BY KnownOps DEF s
  <2>9. Known!Recorded(IF k \in DOMAIN known THEN known[k] ELSE Known!NewCounter(t), t, l,
                       Known!Threshold(l)) = new
    BY <2>7, KnownOps
  <2>10. /\ known' = Known!Put(known, k, new)
         /\ CallsOf("known")' = Known!Without(CallsOf("known"), p)
         /\ (Known!Allowed(new.WindowCount, l) <=> Allowed(new.WindowCount, l))
    BY <2>2, <2>6, KnownOps
  <2> HIDE DEF k, t, l
  <2>11. Known!RecordRequest(p)
    BY <1>2, <2>5, <2>6, <2>8, <2>9, <2>10 DEF Known!RecordRequest
  <2> QED
    BY <2>11 DEF Known!Next
<1>4. CASE ~req[p].known
  <2>1. MapOf(req[p]) = "unknown" /\ known' = known
    BY <1>4 DEF MapOf, RecordRequest
  <2>2. /\ granted'["known"] = granted["known"] /\ refused'["known"] = refused["known"]
        /\ late'["known"] = late["known"]
    BY <1>0, <2>1, MapNames DEF NoteDecision, HistOK
  <2> QED
    BY <1>1, <1>2, <2>1, <2>2 DEF Known!vars
<1> QED
  BY <1>3, <1>4

\* runKnown's two removals are CounterMap's.
LEMMA KnownDropped ==
  ASSUME MapInv, NEW r \in Runs, KnownDelete(r), NoteDrop(r)
  PROVE  Known!Next \/ UNCHANGED Known!vars
<1>0. TypeInv /\ HistOK
  BY DEF MapInv
<1>1. /\ now' = now /\ req' = req /\ called' = called /\ granted' = granted
      /\ refused' = refused /\ late' = late
  BY DEF KnownDelete, NoteDrop
<1>2. CallsOf("known")' = CallsOf("known")
  BY <1>1 DEF CallsOf, Waiting, MapOf, KeyOf
<1>3. run[r].step \in {"keep", "drop"} /\ run[r].start \in 0..now
  BY <1>0 DEF KnownDelete, At, TypeInv, TimesOK, RunsOK, RunRecs, ScalarsOK
<1>4. PICK a \in ApiKeys : run[r].cur = KeyId(a)
  BY <1>0, <1>3 DEF TypeInv, RunsOK, RunShape
<1>5. run[r].cur[2] = a
  BY <1>4 DEF KeyId
<1>6. CASE run[r].step = "drop" /\ a \in DOMAIN known
  <2>1. known' = Without(known, a) /\ dropped' = [dropped EXCEPT !["known"][a] = @ + 1]
    BY <1>5, <1>6 DEF KnownDelete, NoteDrop
  <2>2. dropped'["known"] = [dropped["known"] EXCEPT ![a] = @ + 1]
    BY <1>0, <2>1, MapNames DEF HistOK
  <2>3. Known!Delete(a)
    BY <1>1, <1>2, <1>6, <2>1, <2>2, KnownOps DEF Known!Delete
  <2> QED
    BY <2>3 DEF Known!Next
<1>7. CASE run[r].step = "keep" /\ a \in DOMAIN known /\ IsInactive(known[a], run[r].start)
  <2>1. known' = Without(known, a) /\ dropped' = dropped
    BY <1>5, <1>7 DEF KnownDelete, NoteDrop, DeleteIfInactive
  <2>2. Known!DeleteIfInactive(a, run[r].start)
    BY <1>1, <1>2, <1>7, <2>1, KnownOps DEF Known!DeleteIfInactive
  <2> QED
    BY <1>3, <2>2 DEF Known!Next
<1>8. CASE /\ ~(run[r].step = "drop" /\ a \in DOMAIN known)
           /\ ~(run[r].step = "keep" /\ a \in DOMAIN known /\ IsInactive(known[a], run[r].start))
  <2>1. known' = known /\ dropped' = dropped
    BY <1>3, <1>5, <1>8 DEF KnownDelete, NoteDrop, DeleteIfInactive
  <2> QED
    BY <1>1, <1>2, <2>1 DEF Known!vars
<1> QED
  BY <1>6, <1>7, <1>8

\* Every step of the service is a step of the known map or nothing to it.
LEMMA KnownStep == MapInv /\ [ServiceNext]_allVars => [Known!Next]_(Known!vars)
<1> SUFFICES ASSUME MapInv, [ServiceNext]_allVars
             PROVE  Known!Next \/ UNCHANGED Known!vars
  OBVIOUS
<1>1. CASE (Silent \/ UNCHANGED vars) /\ UNCHANGED histVars
  <2>0. TypeInv
    BY DEF MapInv
  <2>1. CallsOf("known")' = CallsOf("known")
    BY <1>1, <2>0, SilentCalls
  <2>2. /\ called' = called /\ granted' = granted /\ refused' = refused
        /\ late' = late /\ dropped' = dropped
    BY <1>1 DEF histVars
  <2>3. known' = known /\ (now' = now \/ (now < MaxNow /\ now' = now + 1))
    <3>1. ASSUME NEW p \in Procs, NEW id \in Ids, Arrive(p, id) PROVE known' = known /\ now' = now
      BY <3>1 DEF Arrive, counterVars
    <3>2. ASSUME NEW p \in Procs, LookupLimit(p) PROVE known' = known /\ now' = now
      BY <3>2 DEF LookupLimit, counterVars
    <3> QED
      BY <1>1, <2>0, <3>1, <3>2, SilentKinds DEF Aside
  <2>4. CASE now' = now
    BY <2>1, <2>2, <2>3, <2>4 DEF Known!vars
  <2>5. CASE now < MaxNow /\ now' = now + 1
    BY <2>1, <2>2, <2>3, <2>5 DEF Known!Next, Known!Tick
  <2> QED
    BY <2>3, <2>4, <2>5
<1> QED
  BY <1>1, KnownCall, KnownRecord, KnownDropped DEF ServiceNext, allVars

\* Whatever the service does, the known map goes through a behaviour of
\* CounterMap: requests at its lock, cleanup's removals and Redis included.
THEOREM KnownMapImplemented == ServiceSpec => KnownMapSpec
  BY KnownInit, KnownStep, MapInit, MapStep, PTL DEF ServiceSpec, KnownMapSpec, Known!Spec
-----------------------------------------------------------------------------
(* The unknown map.                                                         *)

\* CounterMap's operators on counters, for the unknown map, are the service's.
LEMMA UnknownOps ==
  /\ \A t : Unknown!SlotOf(t) = SlotOf(t)
  /\ Unknown!Slots = Slots
  /\ \A f, k, v : Unknown!Put(f, k, v) = Put(f, k, v)
  /\ \A f, k : Unknown!Without(f, k) = Without(f, k)
  /\ \A t : Unknown!NewCounter(t) = NewCounter(t)
  /\ \A c, t, l, h : Unknown!Recorded(c, t, l, h) = Recorded(c, t, l, h)
  /\ \A n, l : Unknown!Allowed(n, l) <=> Allowed(n, l)
  /\ \A c, t : Unknown!IsInactive(c, t) <=> IsInactive(c, t)
  /\ \A l : Unknown!Threshold(l) = AbuseThreshold
<1>1. \A t : Unknown!SlotOf(t) = SlotOf(t)
  BY DEF Unknown!SlotOf, Unknown!Unix, SlotOf, Unix
<1>2. Unknown!Slots = Slots
  BY <1>1 DEF Unknown!Slots, Slots
<1>3. \A f, k, v : Unknown!Put(f, k, v) = Put(f, k, v)
  BY DEF Unknown!Put, Put
<1>4. \A f, k : Unknown!Without(f, k) = Without(f, k)
  BY DEF Unknown!Without, Without
<1>5. \A t : Unknown!NewCounter(t) = NewCounter(t)
  BY <1>1 DEF Unknown!NewCounter, NewCounter
<1>6. \A n, l : Unknown!Allowed(n, l) <=> Allowed(n, l)
  BY DEF Unknown!Allowed, Allowed, Unknown!Add64, Add64, Unknown!Wrap, Wrap
<1>7. \A c, t, l, h : Unknown!Recorded(c, t, l, h) = Recorded(c, t, l, h)
  BY <1>1, <1>6 DEF Unknown!Recorded, Recorded, Unknown!WindowCountAfter, WindowCountAfter,
     Unknown!InBurst, InBurst, Unknown!HitsAfter, HitsAfter
<1>8. \A c, t : Unknown!IsInactive(c, t) <=> IsInactive(c, t)
  BY <1>1 DEF Unknown!IsInactive, IsInactive
<1>9. \A l : Unknown!Threshold(l) = AbuseThreshold
  BY DEF Unknown!Threshold, Unknown!AbuseThreshold, AbuseThreshold, Unknown!Mul64, Mul64,
         Unknown!Wrap, Wrap
<1> QED
  BY <1>1, <1>2, <1>3, <1>4, <1>5, <1>6, <1>7, <1>8, <1>9

\* The unknown map starts as CounterMap does.
LEMMA UnknownInit == ServiceInit => Unknown!Init
<1> SUFFICES ASSUME ServiceInit PROVE Unknown!Init
  OBVIOUS
<1>1. now = 0 /\ unknown = << >> /\ DOMAIN req = {}
  BY DEF ServiceInit, Init
<1>2. CallsOf("unknown") = << >>
  BY <1>1 DEF CallsOf, Waiting
<1>3. /\ called["unknown"] = 0
      /\ granted["unknown"] = [k \in Ids |-> [x \in Slots |-> 0]]
      /\ refused["unknown"] = [k \in Ids |-> [x \in Slots |-> 0]]
      /\ late["unknown"] = [k \in Ids |-> 0]
      /\ dropped["unknown"] = [k \in Ids |-> 0]
  BY DEF ServiceInit, Maps, MapKeys
<1> QED
  BY <1>1, <1>2, <1>3, UnknownOps DEF Unknown!Init

\* A request that reads the clock for the unknown map is a Call.
LEMMA UnknownCall ==
  ASSUME MapInv, NEW p \in Procs, ReadClock(p), NoteCall(p)
  PROVE  Unknown!Next \/ UNCHANGED Unknown!vars
<1>0. TypeInv /\ HistOK /\ LimitsInv
  BY DEF MapInv
<1>1. /\ p \in DOMAIN req /\ p \notin DOMAIN CallsOf("unknown")
      /\ CallsOf("unknown")' = IF "unknown" = MapOf(req[p])
           THEN Put(CallsOf("unknown"), p, [key |-> KeyOf(req[p]), time |-> now,
                                          limit |-> req[p].limit])
           ELSE CallsOf("unknown")
  BY <1>0, ReadClockCalls
<1>2. /\ now' = now /\ unknown' = unknown /\ granted' = granted /\ refused' = refused
      /\ late' = late /\ dropped' = dropped
      /\ called' = [called EXCEPT ![MapOf(req[p])] = @ + 1]
  BY DEF ReadClock, NoteCall, counterVars
<1>3. CASE ~req[p].known
  <2>1. MapOf(req[p]) = "unknown" /\ called'["unknown"] = called["unknown"] + 1
    BY <1>0, <1>2, <1>3, MapNames DEF HistOK
  <2>2. called["unknown"] < MaxRequests
    BY ReadClockRoom
  <2>3. KeyOf(req[p]) \in Ids /\ req[p].limit \in {GlobalLimit}
    BY <1>0, <1>1, <1>3 DEF LimitsInv, KeyOf, TypeInv, ReqsOK, Requests
  <2>4. Unknown!Call(p, KeyOf(req[p]), req[p].limit)
    BY <1>1, <1>2, <2>1, <2>2, UnknownOps DEF Unknown!Call
  <2> QED
    BY <2>3, <2>4 DEF Unknown!Next
<1>4. CASE req[p].known
  <2>1. MapOf(req[p]) # "unknown" /\ called'["unknown"] = called["unknown"]
    BY <1>0, <1>2, <1>4, MapNames DEF HistOK
  <2> QED
    BY <1>1, <1>2, <2>1 DEF Unknown!vars
<1> QED
  BY <1>3, <1>4

\* The locked section of the unknown map is CounterMap's RecordRequest.
LEMMA UnknownRecord ==
  ASSUME MapInv, NEW p \in Procs, RecordRequest(p), NoteDecision(p)
  PROVE  Unknown!Next \/ UNCHANGED Unknown!vars
<1>0. TypeInv /\ HistOK /\ LimitsInv
  BY DEF MapInv
<1>1. /\ CallsOf("unknown")' = IF "unknown" = MapOf(req[p]) THEN Without(CallsOf("unknown"), p)
                                                       ELSE CallsOf("unknown")
      /\ "unknown" = MapOf(req[p]) =>
              /\ p \in DOMAIN CallsOf("unknown")
              /\ CallsOf("unknown")[p] = [key |-> KeyOf(req[p]), time |-> req[p].time,
                                  limit |-> req[p].limit]
  BY <1>0, RecordCalls
<1>2. now' = now /\ called' = called /\ dropped' = dropped
  BY DEF RecordRequest, NoteDecision
<1>3. CASE ~req[p].known
  <2> DEFINE k == req[p].id
             t == req[p].time
             l == req[p].limit
             s == SlotOf(t)
             new == Recorded(CounterOf(unknown, k, t), t, l, AbuseThreshold)
  <2>1. MapOf(req[p]) = "unknown" /\ KeyOf(req[p]) = k
    BY <1>3 DEF MapOf, KeyOf
  <2>2. unknown' = Put(unknown, k, new)
    BY <1>3 DEF RecordRequest
  <2> HIDE DEF new
  <2>3. unknown'[k] = new
    BY <2>2 DEF Put
  <2>4. /\ IF Allowed(new.WindowCount, l)
             THEN granted' = [granted EXCEPT !["unknown"][k][s] = @ + 1] /\ refused' = refused
             ELSE refused' = [refused EXCEPT !["unknown"][k][s] = @ + 1] /\ granted' = granted
        /\ late' = [late EXCEPT !["unknown"][k] = IF s < SlotOf(now) THEN @ + 1 ELSE @]
    BY <1>3, <2>1, <2>3 DEF NoteDecision
  <2> HIDE DEF s
  <2>5. /\ IF Allowed(new.WindowCount, l)
             THEN /\ granted'["unknown"] = [granted["unknown"] EXCEPT ![k][s] = @ + 1]
                  /\ refused'["unknown"] = refused["unknown"]
             ELSE /\ refused'["unknown"] = [refused["unknown"] EXCEPT ![k][s] = @ + 1]
                  /\ granted'["unknown"] = granted["unknown"]
        /\ late'["unknown"] = [late["unknown"] EXCEPT ![k] = IF s < SlotOf(now) THEN @ + 1 ELSE @]
    BY <1>0, <2>4, MapNames DEF HistOK
  <2>6. CallsOf("unknown")[p].key = k /\ CallsOf("unknown")[p].time = t
        /\ CallsOf("unknown")[p].limit = l /\ p \in DOMAIN CallsOf("unknown")
        /\ CallsOf("unknown")' = Without(CallsOf("unknown"), p)
    BY <1>1, <2>1
  <2>7. new = Recorded(IF k \in DOMAIN unknown THEN unknown[k] ELSE NewCounter(t), t, l,
                       AbuseThreshold)
    BY DEF new, CounterOf
  <2>8. Unknown!SlotOf(t) = s /\ Unknown!SlotOf(now) = SlotOf(now)
    BY UnknownOps DEF s
  <2>9. Unknown!Recorded(IF k \in DOMAIN unknown THEN unknown[k] ELSE Unknown!NewCounter(t), t, l,
                       Unknown!Threshold(l)) = new
    BY <2>7, UnknownOps
  <2>10. /\ unknown' = Unknown!Put(unknown, k, new)
         /\ CallsOf("unknown")' = Unknown!Without(CallsOf("unknown"), p)
         /\ (Unknown!Allowed(new.WindowCount, l) <=> Allowed(new.WindowCount, l))
    BY <2>2, <2>6, UnknownOps
  <2> HIDE DEF k, t, l
  <2>11. Unknown!RecordRequest(p)
    BY <1>2, <2>5, <2>6, <2>8, <2>9, <2>10 DEF Unknown!RecordRequest
  <2> QED
    BY <2>11 DEF Unknown!Next
<1>4. CASE req[p].known
  <2>1. MapOf(req[p]) = "known" /\ unknown' = unknown
    BY <1>4 DEF MapOf, RecordRequest
  <2>2. /\ granted'["unknown"] = granted["unknown"] /\ refused'["unknown"] = refused["unknown"]
        /\ late'["unknown"] = late["unknown"]
    BY <1>0, <2>1, MapNames DEF NoteDecision, HistOK
  <2> QED
    BY <1>1, <1>2, <2>1, <2>2 DEF Unknown!vars
<1> QED
  BY <1>3, <1>4

\* cleanup's removals of known counters are nothing to the unknown map.
LEMMA UnknownDropped ==
  ASSUME MapInv, NEW r \in Runs, KnownDelete(r), NoteDrop(r)
  PROVE  UNCHANGED Unknown!vars
<1>1. /\ now' = now /\ req' = req /\ unknown' = unknown /\ called' = called
      /\ granted' = granted /\ refused' = refused /\ late' = late
  BY DEF KnownDelete, NoteDrop
<1>2. CallsOf("unknown")' = CallsOf("unknown")
  BY <1>1 DEF CallsOf, Waiting, MapOf, KeyOf
<1>3. dropped'["unknown"] = dropped["unknown"]
  BY MapNames DEF NoteDrop, MapInv, HistOK
<1> QED
  BY <1>1, <1>2, <1>3 DEF Unknown!vars

\* Every step of the service is a step of the unknown map or nothing to it.
LEMMA UnknownStep == MapInv /\ [ServiceNext]_allVars => [Unknown!Next]_(Unknown!vars)
<1> SUFFICES ASSUME MapInv, [ServiceNext]_allVars
             PROVE  Unknown!Next \/ UNCHANGED Unknown!vars
  OBVIOUS
<1>1. CASE (Silent \/ UNCHANGED vars) /\ UNCHANGED histVars
  <2>0. TypeInv
    BY DEF MapInv
  <2>1. CallsOf("unknown")' = CallsOf("unknown")
    BY <1>1, <2>0, SilentCalls
  <2>2. /\ called' = called /\ granted' = granted /\ refused' = refused
        /\ late' = late /\ dropped' = dropped
    BY <1>1 DEF histVars
  <2>3. \/ now < MaxNow /\ now' = now + 1 /\ unknown' = unknown
        \/ now' = now /\ unknown' = unknown
        \/ now' = now /\ Collects
    <3>1. ASSUME NEW p \in Procs, NEW id \in Ids, Arrive(p, id)
          PROVE  unknown' = unknown /\ now' = now
      BY <3>1 DEF Arrive, counterVars
    <3>2. ASSUME NEW p \in Procs, LookupLimit(p) PROVE unknown' = unknown /\ now' = now
      BY <3>2 DEF LookupLimit, counterVars
    <3> QED
      BY <1>1, <2>0, <3>1, <3>2, SilentKinds DEF Aside
  <2>4. CASE now' = now /\ unknown' = unknown
    BY <2>1, <2>2, <2>4 DEF Unknown!vars
  <2>5. CASE now < MaxNow /\ now' = now + 1 /\ unknown' = unknown
    BY <2>1, <2>2, <2>5 DEF Unknown!Next, Unknown!Tick
  <2>6. CASE now' = now /\ Collects
    <3>1. PICK id \in Ids, t \in 0..now :
            /\ id \in DOMAIN unknown /\ IsInactive(unknown[id], t)
            /\ unknown' = Without(unknown, id)
      BY <2>6 DEF Collects
    <3>2. Unknown!DeleteIfInactive(id, t)
      BY <2>1, <2>2, <2>6, <3>1, UnknownOps DEF Unknown!DeleteIfInactive
    <3> QED
      BY <3>2 DEF Unknown!Next
  <2> QED
    BY <2>3, <2>4, <2>5, <2>6
<1> QED
  BY <1>1, UnknownCall, UnknownRecord, UnknownDropped DEF ServiceNext, allVars

\* Whatever the service does, the unknown map goes through a behaviour of
\* CounterMap, and cleanup never deletes one of its counters in use.
THEOREM UnknownMapImplemented == ServiceSpec => UnknownMapSpec
  BY UnknownInit, UnknownStep, MapInit, MapStep, PTL DEF ServiceSpec, UnknownMapSpec, Unknown!Spec

-----------------------------------------------------------------------------
(* What is proved of every CounterMap, for the two maps of the service.     *)

KnownT == INSTANCE CounterMapProofs
  WITH Kind <- "known", Keys <- ApiKeys, counters <- known, calls <- CallsOf("known"),
       issued <- called["known"], granted <- granted["known"],
       refused <- refused["known"], late <- late["known"], dropped <- dropped["known"]

UnknownT == INSTANCE CounterMapProofs
  WITH Kind <- "unknown", Keys <- Ids, counters <- unknown, calls <- CallsOf("unknown"),
       Limits <- {GlobalLimit}, MinLimit <- GlobalLimit, MaxLimit <- GlobalLimit,
       issued <- called["unknown"], granted <- granted["unknown"],
       refused <- refused["unknown"], late <- late["unknown"],
       dropped <- dropped["unknown"]

\* The map KnownT is about is the known map.
LEMMA KnownSame == Known!Spec => KnownT!Spec
<1>1. Known!Init => KnownT!Init
  BY DEF Known!Init, KnownT!Init, Known!Slots, KnownT!Slots, Known!SlotOf, KnownT!SlotOf,
         Known!Unix, KnownT!Unix
<1>2. Known!vars = KnownT!vars
  BY DEF Known!vars, KnownT!vars
<1>3. Known!Next => KnownT!Next
  BY DEF Known!Next, KnownT!Next, Known!vars, KnownT!vars, Known!Tick, KnownT!Tick,
         Known!Call, KnownT!Call, Known!RecordRequest, KnownT!RecordRequest, Known!Delete,
         KnownT!Delete, Known!DeleteIfInactive, KnownT!DeleteIfInactive, Known!Slots,
         KnownT!Slots, Known!Put, KnownT!Put, Known!Without, KnownT!Without,
         Known!NewCounter, KnownT!NewCounter, Known!Recorded, KnownT!Recorded,
         Known!Allowed, KnownT!Allowed, Known!Threshold, KnownT!Threshold,
         Known!IsInactive, KnownT!IsInactive, Known!SlotOf, KnownT!SlotOf, Known!Unix,
         KnownT!Unix, Known!WindowCountAfter, KnownT!WindowCountAfter, Known!HitsAfter,
         KnownT!HitsAfter, Known!InBurst, KnownT!InBurst, Known!Add64, KnownT!Add64,
         Known!Wrap, KnownT!Wrap, Known!AbuseThreshold, KnownT!AbuseThreshold,
         Known!Mul64, KnownT!Mul64
<1>4. [Known!Next]_(Known!vars) => [KnownT!Next]_(KnownT!vars)
  BY <1>2, <1>3 DEF Known!vars, KnownT!vars
<1> QED
  BY <1>1, <1>4, PTL DEF Known!Spec, KnownT!Spec

\* The map UnknownT is about is the unknown map.
LEMMA UnknownSame == Unknown!Spec => UnknownT!Spec
<1>1. Unknown!Init => UnknownT!Init
  BY DEF Unknown!Init, UnknownT!Init, Unknown!Slots, UnknownT!Slots, Unknown!SlotOf,
         UnknownT!SlotOf, Unknown!Unix, UnknownT!Unix
<1>2. Unknown!vars = UnknownT!vars
  BY DEF Unknown!vars, UnknownT!vars
<1>3. Unknown!Next => UnknownT!Next
  BY DEF Unknown!Next, UnknownT!Next, Unknown!vars, UnknownT!vars, Unknown!Tick,
         UnknownT!Tick, Unknown!Call, UnknownT!Call, Unknown!RecordRequest,
         UnknownT!RecordRequest, Unknown!Delete, UnknownT!Delete,
         Unknown!DeleteIfInactive, UnknownT!DeleteIfInactive, Unknown!Slots,
         UnknownT!Slots, Unknown!Put, UnknownT!Put, Unknown!Without, UnknownT!Without,
         Unknown!NewCounter, UnknownT!NewCounter, Unknown!Recorded, UnknownT!Recorded,
         Unknown!Allowed, UnknownT!Allowed, Unknown!Threshold, UnknownT!Threshold,
         Unknown!IsInactive, UnknownT!IsInactive, Unknown!SlotOf, UnknownT!SlotOf,
         Unknown!Unix, UnknownT!Unix, Unknown!WindowCountAfter, UnknownT!WindowCountAfter,
         Unknown!HitsAfter, UnknownT!HitsAfter, Unknown!InBurst, UnknownT!InBurst,
         Unknown!Add64, UnknownT!Add64, Unknown!Wrap, UnknownT!Wrap,
         Unknown!AbuseThreshold, UnknownT!AbuseThreshold, Unknown!Mul64, UnknownT!Mul64
<1>4. [Unknown!Next]_(Unknown!vars) => [UnknownT!Next]_(UnknownT!vars)
  BY <1>2, <1>3 DEF Unknown!vars, UnknownT!vars
<1> QED
  BY <1>1, <1>4, PTL DEF Unknown!Spec, UnknownT!Spec

\* The constants of the known map satisfy what CounterMap assumes.
LEMMA KnownConstants ==
  /\ "known" \in {"known", "unknown"}
  /\ MaxNow \in Nat /\ MaxRequests \in Nat
  /\ MinLimit \in KnownT!Int64 /\ MaxLimit \in 0..MaxInt
  /\ Limits \subseteq MinLimit..MaxLimit
  /\ ("known" = "unknown" => Limits = {GlobalLimit})
  /\ KnownT!ValidBurst
<1>1. KnownT!ValidBurst
  BY BurstAssumption DEF KnownT!ValidBurst, ValidBurst, KnownT!AbuseThreshold, AbuseThreshold,
     KnownT!Mul64, Mul64, KnownT!Wrap, Wrap
<1>2. MinLimit \in KnownT!Int64 /\ MaxLimit \in 0..MaxInt /\ Limits \subseteq MinLimit..MaxLimit
  BY LimitBounds DEF KnownT!Int64, Int64
<1> QED
  BY <1>1, <1>2, ServiceAssumption

\* The constants of the unknown map satisfy what CounterMap assumes.
LEMMA UnknownConstants ==
  /\ "unknown" \in {"known", "unknown"}
  /\ MaxNow \in Nat /\ MaxRequests \in Nat
  /\ GlobalLimit \in UnknownT!Int64 /\ GlobalLimit \in 0..MaxInt
  /\ {GlobalLimit} \subseteq GlobalLimit..GlobalLimit
  /\ ("unknown" = "unknown" => {GlobalLimit} = {GlobalLimit})
  /\ UnknownT!ValidBurst
<1>1. UnknownT!ValidBurst
  BY BurstAssumption DEF UnknownT!ValidBurst, ValidBurst, UnknownT!AbuseThreshold, AbuseThreshold,
     UnknownT!Mul64, Mul64, UnknownT!Wrap, Wrap
<1>2. /\ GlobalLimit \in UnknownT!Int64 /\ GlobalLimit \in 0..MaxInt
      /\ {GlobalLimit} \subseteq GlobalLimit..GlobalLimit
  BY ConfigAssumption DEF UnknownT!Int64, Int64
<1> QED
  BY <1>1, <1>2, ServiceAssumption

\* Type correctness and the budget of a slot, for the known map.
LEMMA KnownFacts == ServiceSpec => [](KnownT!TypeOK /\ KnownT!SlotBudget)
<1>1. KnownT!Spec => []KnownT!TypeOK
  BY KnownConstants, ClockAssumption, ConfigAssumption, KnownT!TypeCorrect
<1>2. KnownT!Spec => []KnownT!SlotBudget
  BY KnownConstants, ClockAssumption, ConfigAssumption, KnownT!SlotBudgetHolds
<1> QED
  BY <1>1, <1>2, KnownMapImplemented, KnownSame, PTL DEF KnownMapSpec

\* The same for the unknown map.
LEMMA UnknownFacts == ServiceSpec => [](UnknownT!TypeOK /\ UnknownT!SlotBudget)
<1>1. UnknownT!Spec => []UnknownT!TypeOK
  BY UnknownConstants, ClockAssumption, ConfigAssumption, UnknownT!TypeCorrect
<1>2. UnknownT!Spec => []UnknownT!SlotBudget
  BY UnknownConstants, ClockAssumption, ConfigAssumption, UnknownT!SlotBudgetHolds
<1> QED
  BY <1>1, <1>2, UnknownMapImplemented, UnknownSame, PTL DEF UnknownMapSpec

\* Slots and types in the service's own terms.
LEMMA ServiceTyped ==
  ASSUME KnownT!TypeOK, UnknownT!TypeOK
  PROVE  /\ granted["known"] \in [ApiKeys -> [Slots -> Nat]]
         /\ refused["known"] \in [ApiKeys -> [Slots -> Nat]]
         /\ late["known"] \in [ApiKeys -> Nat] /\ dropped["known"] \in [ApiKeys -> Nat]
         /\ granted["unknown"] \in [Ids -> [Slots -> Nat]]
         /\ refused["unknown"] \in [Ids -> [Slots -> Nat]]
         /\ late["unknown"] \in [Ids -> Nat] /\ dropped["unknown"] \in [Ids -> Nat]
  BY DEF KnownT!TypeOK, KnownT!Slots, KnownT!SlotOf, KnownT!Unix, Slots, SlotOf, Unix,
         UnknownT!TypeOK, UnknownT!Slots, UnknownT!SlotOf, UnknownT!Unix

\* The budgets of the two maps in the service's own terms.
LEMMA Budgets ==
  ASSUME KnownT!SlotBudget, UnknownT!SlotBudget
  PROVE  /\ \A a \in ApiKeys, x \in Slots :
              granted["known"][a][x]
                <= (MaxLimit + Burst) * (1 + late["known"][a] + dropped["known"][a])
         /\ \A id \in Ids, x \in Slots :
              granted["unknown"][id][x]
                <= (GlobalLimit + Burst) * (1 + late["unknown"][id] + dropped["unknown"][id])
  BY DEF KnownT!SlotBudget, KnownT!Slots, KnownT!SlotOf, KnownT!Unix, Slots, SlotOf, Unix,
         UnknownT!SlotBudget, UnknownT!Slots, UnknownT!SlotOf, UnknownT!Unix
-----------------------------------------------------------------------------
(* Keys counted in both maps.                                               *)

\* No unknown counter is ever removed regardless of its activity.
DropInv == \A id \in Ids : dropped["unknown"][id] = 0

\* Every step keeps it.
LEMMA DropStep == MapInv /\ DropInv /\ [ServiceNext]_allVars => DropInv'
<1> SUFFICES ASSUME MapInv, DropInv, [ServiceNext]_allVars PROVE DropInv'
  OBVIOUS
<1>1. ASSUME NEW r \in Runs, NoteDrop(r) PROVE dropped'["unknown"] = dropped["unknown"]
  BY <1>1, MapNames DEF NoteDrop, MapInv, HistOK
<1>2. dropped'["unknown"] = dropped["unknown"]
  BY <1>1 DEF ServiceNext, NoteCall, NoteDecision, histVars, allVars
<1> QED
  BY <1>2 DEF DropInv

\* The identity of an api key is an identity.
LEMMA KeyIdFacts ==
  ASSUME NEW a \in ApiKeys
  PROVE  KeyId(a) \in Ids /\ KeyId(a)[1] = "key" /\ KeyId(a)[2] = a
  BY DEF KeyId, Ids

\* An api key whose requests are counted now in one map and now in the other
\* gets the allowances of both, and a further one for each late request and
\* each Delete: no outage, edit, cleanup or shutdown gives it more.
THEOREM KeyBudgetHolds == ServiceSpec => []KeyBudget
<1>1. ServiceInit => DropInv
  BY DEF ServiceInit, DropInv, Maps, MapKeys
<1>2. /\ KnownT!TypeOK /\ KnownT!SlotBudget /\ UnknownT!TypeOK /\ UnknownT!SlotBudget
      /\ DropInv
      => KeyBudget
  <2> SUFFICES ASSUME KnownT!TypeOK, KnownT!SlotBudget, UnknownT!TypeOK, UnknownT!SlotBudget,
                      DropInv, NEW a \in ApiKeys, NEW x \in Slots
               PROVE  granted["known"][a][x] + granted["unknown"][KeyId(a)][x]
                        <= (MaxLimit + Burst) * (1 + late["known"][a] + dropped["known"][a])
                           + (GlobalLimit + Burst) * (1 + late["unknown"][KeyId(a)])
    BY DEF KeyBudget
  <2> DEFINE k == KeyId(a)
             n == 1 + late["known"][a] + dropped["known"][a]
             u == 1 + late["unknown"][k]
  <2>1. k \in Ids
    BY KeyIdFacts
  <2>2. /\ granted["known"][a][x] \in Nat /\ granted["unknown"][k][x] \in Nat
        /\ n \in Nat /\ u \in Nat
    BY <2>1, ServiceTyped
  <2>3. 1 + late["unknown"][k] + dropped["unknown"][k] = u
    BY <2>1, <2>2, ServiceTyped DEF DropInv
  <2>4. /\ granted["known"][a][x] <= (MaxLimit + Burst) * n
        /\ granted["unknown"][k][x] <= (GlobalLimit + Burst) * u
    BY <2>1, <2>3, Budgets
  <2>5. MaxLimit + Burst \in Nat /\ GlobalLimit + Burst \in Nat
    BY LimitBounds, ConfigAssumption
  <2> HIDE DEF k, n, u
  <2>6. (MaxLimit + Burst) * n \in Nat /\ (GlobalLimit + Burst) * u \in Nat
    BY <2>2, <2>5, MulSucc
  <2>7. granted["known"][a][x] + granted["unknown"][k][x]
          <= (MaxLimit + Burst) * n + (GlobalLimit + Burst) * u
    BY <2>2, <2>4, <2>6
  <2> QED
    BY <2>7 DEF k, n, u
<1> QED
  BY <1>1, <1>2, DropStep, MapInit, MapStep, KnownFacts, UnknownFacts, PTL DEF ServiceSpec

\* A key that always had its limit is counted in the known map only, and
\* cleanup does not find it without a limit.
SteadyInv ==
  \A a \in ApiKeys : HasLimit(a) =>
    /\ dropped["known"][a] = 0
    /\ \A x \in Slots : granted["unknown"][KeyId(a)][x] = 0
    /\ \A r \in Runs : run[r].step = "drop" => run[r].cur # KeyId(a)

\* Every step keeps it.
LEMMA SteadyStep ==
  ASSUME MapInv, LimitedInv, KnownT!TypeOK, UnknownT!TypeOK, SteadyInv, [ServiceNext]_allVars
  PROVE  SteadyInv'
<1> SUFFICES ASSUME NEW a \in ApiKeys, HasLimit(a)'
             PROVE  /\ dropped'["known"][a] = 0
                    /\ \A x \in Slots : granted'["unknown"][KeyId(a)][x] = 0
                    /\ \A r \in Runs : run'[r].step = "drop" => run'[r].cur # KeyId(a)
  BY DEF SteadyInv, Slots
<1>0. TypeInv /\ HistOK /\ [Next]_vars /\ KeyId(a) \in Ids
  BY ServiceSteps, KeyIdFacts DEF MapInv
<1>t. RunsOK /\ MapsOK /\ now \in Nat /\ healthy \in BOOLEAN
  BY <1>0 DEF TypeInv, ScalarsOK
<1>1. HasLimit(a)
  BY <1>0, HasLimitBefore
<1>2. /\ dropped["known"][a] = 0
      /\ \A x \in Slots : granted["unknown"][KeyId(a)][x] = 0
      /\ \A r \in Runs : run[r].step = "drop" => run[r].cur # KeyId(a)
  BY <1>1 DEF SteadyInv
<1>3. dropped'["known"][a] = 0
  <2>1. ASSUME NEW r \in Runs, KnownDelete(r), NoteDrop(r) PROVE dropped'["known"][a] = 0
    <3>1. run[r].step \in {"keep", "drop"}
      BY <1>t, <2>1, KnownDeleteEffect
    <3>2. PICK b \in ApiKeys : run[r].cur = KeyId(b)
      BY <1>t, <3>1 DEF RunsOK, RunShape
    <3>3. run[r].cur[2] = b /\ (run[r].step = "drop" => b # a)
      BY <1>2, <3>2, KeyIdFacts
    <3>4. CASE dropped' = dropped
      BY <1>2, <3>4
    <3>5. CASE b # a /\ dropped' = [dropped EXCEPT !["known"][b] = @ + 1]
      <4>1. dropped'["known"] = [dropped["known"] EXCEPT ![b] = @ + 1]
        BY <1>0, <3>5, MapNames DEF HistOK
      <4> QED
        BY <1>2, <3>5, <4>1, ServiceTyped
    <3> QED
      BY <2>1, <3>3, <3>4, <3>5 DEF NoteDrop
  <2>2. CASE dropped' = dropped
    BY <1>2, <2>2
  <2> QED
    BY <2>1, <2>2 DEF ServiceNext, NoteCall, NoteDecision, histVars, allVars
<1>4. ASSUME NEW x \in Slots PROVE granted'["unknown"][KeyId(a)][x] = 0
  <2>1. ASSUME NEW p \in Procs, RecordRequest(p), NoteDecision(p)
        PROVE  granted'["unknown"][KeyId(a)][x] = 0
    <3>1. p \in DOMAIN req /\ req[p].step = "record"
      BY <2>1 DEF RecordRequest
    <3>2. req[p].known \/ req[p].id # KeyId(a)
      BY <1>1, <3>1 DEF LimitedInv
    <3> DEFINE k == KeyOf(req[p])
               t == SlotOf(req[p].time)
    <3>3. \/ granted' = granted
          \/ granted' = [granted EXCEPT ![MapOf(req[p])][k][t] = @ + 1]
      BY <2>1 DEF NoteDecision
    <3> HIDE DEF t
    <3>4. CASE req[p].known
      <4>1. granted'["unknown"] = granted["unknown"]
        BY <1>0, <3>3, <3>4, MapNames DEF HistOK
      <4> QED
        BY <1>2, <4>1
    <3>5. CASE ~req[p].known
      <4>1. MapOf(req[p]) = "unknown" /\ k # KeyId(a)
        BY <3>2, <3>5 DEF MapOf, KeyOf
      <4>2. \/ granted'["unknown"] = granted["unknown"]
            \/ granted'["unknown"] = [granted["unknown"] EXCEPT ![k][t] = @ + 1]
        BY <1>0, <3>3, <4>1, MapNames DEF HistOK
      <4> HIDE DEF k
      <4>3. granted'["unknown"][KeyId(a)] = granted["unknown"][KeyId(a)]
        BY <1>0, <4>1, <4>2, ServiceTyped
      <4> QED
        BY <1>2, <4>3
    <3> QED
      BY <3>4, <3>5
  <2>2. CASE granted' = granted
    BY <1>2, <2>2
  <2> QED
    BY <2>1, <2>2 DEF ServiceNext, NoteCall, NoteDrop, histVars, allVars
<1>5. ASSUME NEW r \in Runs, run'[r].step = "drop" PROVE run'[r].cur # KeyId(a)
  <2>1. CASE run'[r] = run[r]
    BY <1>2, <1>5, <2>1
  <2>2. ASSUME NEW q \in Runs, RunStart(q) \/ RunStep(q), run'[r] # run[r]
        PROVE  run'[r].cur # KeyId(a)
    <3>1. q = r
      BY <1>0, <2>2, OthersKept DEF Others
    <3>2. KnownExists(r)
      BY <1>t, <1>5, <2>2, <3>1, RunStartEffect, KnownDeleteEffect, UnknownStartEffect,
         UnknownGetEffect, UnknownSkipEffect, UpsertEffect, ForgetEffect, FinishEffect
         DEF RunStep
    <3>3. PICK b \in run[r].todo :
            run' = [run EXCEPT ![r].todo = @ \ {b}, ![r].cur = KeyId(b),
                               ![r].step = IF LimitExists(b) THEN "keep" ELSE "drop"]
      <4>1. PICK b \in run[r].todo :
              \/ run' = [run EXCEPT ![r].todo = @ \ {b}, ![r].cur = KeyId(b),
                                    ![r].step = IF LimitExists(b) THEN "keep" ELSE "drop"]
              \/ run' = [run EXCEPT ![r].todo = @ \ {b}, ![r].failed = @ \cup {b}]
        BY <3>2 DEF KnownExists
      <4>2. run[r].step = "known"
        BY <1>t, <3>2, KnownExistsEffect
      <4>3. run' # [run EXCEPT ![r].todo = @ \ {b}, ![r].failed = @ \cup {b}]
        BY <1>5, <1>t, <4>2 DEF RunsOK, RunRecs
      <4> QED
        BY <4>1, <4>3
    <3>4. run'[r].cur = KeyId(b) /\ ~LimitExists(b)
      BY <1>5, <1>t, <3>3 DEF RunsOK, RunRecs
    <3> QED
      BY <1>1, <3>4 DEF HasLimit, LimitExists, KeyId
  <2>3. CASE IdleStep
    BY <2>1, <2>3 DEF IdleStep
  <2>4. ASSUME NEW p \in Procs, RecordRequest(p) PROVE run'[r] = run[r]
    BY <2>4, RecordFrame
  <2> QED
    BY <1>0, <2>1, <2>2, <2>3, <2>4, StepKinds
<1> QED
  BY <1>3, <1>4, <1>5

\* A key that always had its limit gets that limit's budget and no more, as
\* long as Redis does not fail: neither the unknown map nor cleanup's Delete
\* gives it a second one.
THEOREM SteadyKeyBudgetHolds == ServiceSpec => []SteadyKeyBudget
<1>1. ServiceInit => SteadyInv
  <2> SUFFICES ASSUME ServiceInit PROVE SteadyInv
    OBVIOUS
  <2>1. \A r \in Runs : run[r].step = "idle"
    BY NoRunFields DEF ServiceInit, Init
  <2>2. /\ dropped["known"] = [k \in ApiKeys |-> 0]
        /\ granted["unknown"] = [k \in Ids |-> [x \in Slots |-> 0]]
    BY DEF ServiceInit, Maps, MapKeys
  <2> QED
    BY <2>1, <2>2, KeyIdFacts DEF SteadyInv
<1>2. /\ KnownT!TypeOK /\ KnownT!SlotBudget /\ UnknownT!TypeOK /\ UnknownT!SlotBudget
      /\ TypeInv /\ SteadyInv
      => SteadyKeyBudget
  <2> SUFFICES ASSUME KnownT!TypeOK, KnownT!SlotBudget, UnknownT!TypeOK, UnknownT!SlotBudget,
                      TypeInv, SteadyInv, NEW a \in DOMAIN db1, NEW x \in Slots, edits = 0,
                      failures = 0, db1[a] # Unparseable
               PROVE  granted["known"][a][x] + granted["unknown"][KeyId(a)][x]
                        <= (MaxLimit + Burst) * (1 + late["known"][a])
    BY DEF SteadyKeyBudget
  <2>1. a \in ApiKeys
    BY DEF TypeInv, RedisOK
  <2>2. dropped["known"][a] = 0 /\ granted["unknown"][KeyId(a)][x] = 0
    BY <2>1 DEF SteadyInv, HasLimit
  <2>3. granted["known"][a][x] \in Nat /\ late["known"][a] \in Nat
    BY <2>1, ServiceTyped
  <2>4. granted["known"][a][x]
          <= (MaxLimit + Burst) * (1 + late["known"][a] + dropped["known"][a])
    BY <2>1, Budgets
  <2>5. 1 + late["known"][a] + dropped["known"][a] = 1 + late["known"][a]
    BY <2>2, <2>3
  <2>6. granted["known"][a][x] + granted["unknown"][KeyId(a)][x] = granted["known"][a][x]
    BY <2>2, <2>3
  <2> QED
    BY <2>4, <2>5, <2>6
<1>3. ServiceSpec => []SteadyInv
  BY <1>1, SteadyStep, MapInit, MapStep, ServiceTypes, KnownFacts, UnknownFacts, PTL
     DEF ServiceSpec
<1> QED
  BY <1>2, <1>3, ServiceTypes, KnownFacts, UnknownFacts, PTL

\* limit + burst fits an int64 for every limit in use.
SumsFit == MaxLimit + Burst <= MaxInt /\ GlobalLimit + Burst <= MaxInt

\* No key is refused before it has used up an allowance, in whichever of the
\* maps its earlier requests were counted.
THEOREM KeyNoEarlyBlockHolds == ASSUME SumsFit PROVE ServiceSpec => []KeyNoEarlyBlock
<1>1. KnownT!NoOverflow /\ UnknownT!NoOverflow
  BY DEF SumsFit, KnownT!NoOverflow, UnknownT!NoOverflow
<1>2. KnownT!Spec => []KnownT!NoEarlyBlock
  BY <1>1, KnownConstants, ClockAssumption, ConfigAssumption, KnownT!NoEarlyBlockHolds
<1>3. UnknownT!Spec => []UnknownT!NoEarlyBlock
  BY <1>1, UnknownConstants, ClockAssumption, ConfigAssumption, UnknownT!NoEarlyBlockHolds
<1>4. /\ KnownT!TypeOK /\ KnownT!NoEarlyBlock /\ UnknownT!TypeOK /\ UnknownT!NoEarlyBlock
      => KeyNoEarlyBlock
  <2> SUFFICES ASSUME KnownT!TypeOK, KnownT!NoEarlyBlock, UnknownT!TypeOK,
                      UnknownT!NoEarlyBlock, NEW a \in ApiKeys, NEW x \in Slots
               PROVE  LET k == KeyId(a)
                          sent == granted["known"][a][x] + granted["unknown"][k][x]
                                  + refused["known"][a][x] + refused["unknown"][k][x]
                      IN  /\ refused["known"][a][x] > 0 => sent > MinLimit + Burst
                          /\ refused["unknown"][k][x] > 0 => sent > GlobalLimit + Burst
    BY DEF KeyNoEarlyBlock
  <2>1. PICK k \in Ids : k = KeyId(a)
    BY KeyIdFacts
  <2>2. /\ refused["known"][a][x] > 0
           => granted["known"][a][x] + refused["known"][a][x] > MinLimit + Burst
        /\ refused["unknown"][k][x] > 0
           => granted["unknown"][k][x] + refused["unknown"][k][x] > GlobalLimit + Burst
    BY DEF KnownT!NoEarlyBlock, KnownT!seen, KnownT!Slots, KnownT!SlotOf, KnownT!Unix, Slots,
           SlotOf, Unix, UnknownT!NoEarlyBlock, UnknownT!seen, UnknownT!Slots,
           UnknownT!SlotOf, UnknownT!Unix
  <2>3. /\ granted["known"][a][x] \in Nat /\ refused["known"][a][x] \in Nat
        /\ granted["unknown"][k][x] \in Nat /\ refused["unknown"][k][x] \in Nat
    BY ServiceTyped
  <2>4. MinLimit + Burst \in Int /\ GlobalLimit + Burst \in Int
    BY LimitBounds, ConfigAssumption DEF Int64
  <2> QED
    BY <2>1, <2>2, <2>3, <2>4
<1> QED
  BY <1>2, <1>3, <1>4, KnownFacts, UnknownFacts, KnownMapImplemented, UnknownMapImplemented,
     KnownSame, UnknownSame, PTL DEF KnownMapSpec, UnknownMapSpec
-----------------------------------------------------------------------------
(* Who is recorded.                                                         *)

WasRefused(id) == \E x \in Slots : refused["unknown"][id][x] > 0

\* Who is recorded, about to be recorded or on a cycle's list was refused.
RefusedInv ==
  /\ \A id \in DOMAIN abuse : WasRefused(id)
  /\ \A r \in Runs :
       /\ run[r].step \in UnknownSteps => \A s \in run[r].todo : s.abuser => WasRefused(s.id)
       /\ run[r].step = "upsert" => \A id \in Ids : id = run[r].cur => WasRefused(id)

\* A refusal is never forgotten.
LEMMA RefusedStays ==
  ASSUME MapInv, KnownT!TypeOK, UnknownT!TypeOK, [ServiceNext]_allVars, NEW id \in Ids,
         WasRefused(id)
  PROVE  WasRefused(id)'
<1>1. PICK x \in Slots : refused["unknown"][id][x] > 0
  BY DEF WasRefused
<1>2. HistOK /\ refused["unknown"] \in [Ids -> [Slots -> Nat]]
  BY ServiceTyped DEF MapInv
<1>3. refused'["unknown"][id][x] > 0
  <2>1. CASE refused' = refused
    BY <1>1, <2>1
  <2>2. ASSUME NEW p \in Procs, NoteDecision(p) PROVE refused'["unknown"][id][x] > 0
    <3> DEFINE k == KeyOf(req[p])
               t == SlotOf(req[p].time)
               m == MapOf(req[p])
    <3>1. refused' = refused \/ refused' = [refused EXCEPT ![m][k][t] = @ + 1]
      BY <2>2 DEF NoteDecision
    <3> HIDE DEF k, t, m
    <3>2. \/ refused'["unknown"] = refused["unknown"]
          \/ refused'["unknown"] = [refused["unknown"] EXCEPT ![k][t] = @ + 1]
      BY <1>2, <3>1, MapNames DEF HistOK
    <3> QED
      BY <1>1, <1>2, <3>2
  <2> QED
    BY <2>1, <2>2 DEF ServiceNext, NoteCall, NoteDrop, histVars, allVars
<1> QED
  BY <1>3 DEF WasRefused, Slots

\* A counter with enough hits belongs to an identity that was refused.
LEMMA AbuserWasRefused ==
  ASSUME UnknownT!TypeOK, UnknownT!AllowedTrafficNotAbusive, NEW id \in DOMAIN unknown,
         id \in Ids, IsAbuser(unknown[id])
  PROVE  WasRefused(id)
<1>1. unknown[id].Hits # 0
  BY ServiceAssumption DEF IsAbuser
<1>2. ~(\A x \in Slots : refused["unknown"][id][x] = 0)
  BY <1>1 DEF UnknownT!AllowedTrafficNotAbusive, UnknownT!Slots, UnknownT!SlotOf,
     UnknownT!Unix, Slots, SlotOf, Unix
<1>3. refused["unknown"] \in [Ids -> [Slots -> Nat]]
  BY DEF UnknownT!TypeOK, UnknownT!Slots, UnknownT!SlotOf, UnknownT!Unix, Slots, SlotOf, Unix
<1> QED
  BY <1>2, <1>3 DEF WasRefused

\* Every step keeps it: a list is made of counters with enough hits, a copy is
\* taken of a listed one, and only a copy is recorded.
LEMMA RefusedStep ==
  ASSUME MapInv, KnownT!TypeOK, UnknownT!TypeOK, UnknownT!AllowedTrafficNotAbusive,
         RefusedInv, [ServiceNext]_allVars
  PROVE  RefusedInv'
<1>0. TypeInv /\ [Next]_vars /\ RunsOK /\ MapsOK /\ RedisOK /\ now \in Nat /\ healthy \in BOOLEAN
  BY ServiceSteps DEF MapInv, TypeInv, ScalarsOK
<1>1. \A id \in Ids : WasRefused(id) => WasRefused(id)'
  BY RefusedStays
<1>2. \A id \in DOMAIN abuse : id \in Ids /\ WasRefused(id)'
  BY <1>0, <1>1 DEF RefusedInv, RedisOK
<1>3. ASSUME NEW r \in Runs, run[r].step \in UnknownSteps, NEW s \in run[r].todo, s.abuser
      PROVE  WasRefused(s.id)'
  BY <1>0, <1>1, <1>3 DEF RefusedInv, RunsOK, RunShape, Snaps
<1>4. ASSUME NEW r \in Runs, run[r].step = "upsert", NEW id \in Ids, id = run[r].cur
      PROVE  WasRefused(id)'
  BY <1>1, <1>4 DEF RefusedInv
<1>5. CASE UNCHANGED <<abuse, run>>
  <2>1. \A id \in DOMAIN abuse' : WasRefused(id)'
    BY <1>2, <1>5
  <2>2. ASSUME NEW r \in Runs, run'[r].step \in UnknownSteps, NEW s \in run'[r].todo, s.abuser
        PROVE  WasRefused(s.id)'
    BY <1>3, <1>5, <2>2
  <2>3. ASSUME NEW r \in Runs, run'[r].step = "upsert", NEW id \in Ids, id = run'[r].cur
        PROVE  WasRefused(id)'
    BY <1>4, <1>5, <2>3
  <2> QED
    BY <2>1, <2>2, <2>3 DEF RefusedInv
<1>6. ASSUME NEW r \in Runs, RunStart(r) \/ RunStep(r) PROVE RefusedInv'
  <2>o. \A q \in Runs : q # r => run'[q] = run[q]
    BY <1>0, <1>6, OthersKept DEF Others
  <2>1. ASSUME NEW id \in DOMAIN abuse' PROVE WasRefused(id)'
    <3>1. CASE Upsert(r)
      <4>1. run[r].step = "upsert"
        BY <1>0, <3>1, UpsertEffect
      <4>2. abuse' = abuse \/ abuse' = Put(abuse, run[r].cur, run[r].copy)
        BY <3>1 DEF Upsert
      <4>3. id \in DOMAIN abuse \/ (id = run[r].cur /\ id \in Ids)
        BY <1>0, <2>1, <4>1, <4>2 DEF Put, RunsOK, RunShape
      <4> QED
        BY <1>2, <1>4, <4>1, <4>3
    <3>2. CASE ~Upsert(r)
      <4>1. abuse' = abuse
        BY <1>0, <1>6, <3>2, RunStartEffect, KnownExistsEffect, KnownDeleteEffect,
           UnknownStartEffect, UnknownGetEffect, UnknownSkipEffect, ForgetEffect, FinishEffect
           DEF RunStep
      <4> QED
        BY <1>2, <2>1, <4>1
    <3> QED
      BY <3>1, <3>2
  <2>2. ASSUME run'[r].step \in UnknownSteps, NEW s \in run'[r].todo, s.abuser
        PROVE  WasRefused(s.id)'
    <3>1. CASE run'[r].todo = UnknownSnapshot
      <4>1. s.id \in DOMAIN unknown /\ IsAbuser(unknown[s.id])
        BY <2>2, <3>1, SnapshotFacts
      <4>2. s.id \in Ids
        BY <1>0, <4>1 DEF MapsOK
      <4>3. WasRefused(s.id)
        BY <4>1, <4>2, AbuserWasRefused
      <4> QED
        BY <1>1, <4>2, <4>3
    <3>2. CASE run[r].step \in UnknownSteps /\ run'[r].todo \subseteq run[r].todo
      BY <1>3, <2>2, <3>2
    <3> QED
      BY <1>0, <1>6, <2>2, <3>1, <3>2, TodoFacts
  <2>3. ASSUME run'[r].step = "upsert", NEW id \in Ids, id = run'[r].cur
        PROVE  WasRefused(id)'
    <3>1. UnknownGet(r)
      BY <1>0, <1>6, <2>3, RunStartEffect, KnownExistsEffect, KnownDeleteEffect,
         UnknownStartEffect, UnknownSkipEffect, UpsertEffect, ForgetEffect, FinishEffect
         DEF RunStep
    <3>2. run[r].step = "unknown" /\ \E s \in run[r].todo : s.abuser /\ run'[r].cur = s.id
      BY <1>0, <2>3, <3>1, UnknownGetEffect
    <3> QED
      BY <1>3, <2>3, <3>2 DEF UnknownSteps
  <2>4. ASSUME NEW q \in Runs, run'[q].step \in UnknownSteps, NEW s \in run'[q].todo, s.abuser
        PROVE  WasRefused(s.id)'
    BY <1>3, <2>2, <2>4, <2>o
  <2>5. ASSUME NEW q \in Runs, run'[q].step = "upsert", NEW id \in Ids, id = run'[q].cur
        PROVE  WasRefused(id)'
    BY <1>4, <2>3, <2>5, <2>o
  <2> QED
    BY <2>1, <2>4, <2>5 DEF RefusedInv
<1>7. ASSUME NEW p \in Procs, RecordRequest(p) PROVE UNCHANGED <<abuse, run>>
  BY <1>7, RecordFrame
<1> QED
  BY <1>0, <1>5, <1>6, <1>7, StepKinds DEF IdleStep

\* Under a threshold of at least the allowance, whoever is recorded as an abuser
\* was answered 403 before: through hits, snapshot, copy and upsert, whatever
\* runs in between, and also when the drain of a shutdown timed out.
THEOREM RecordedWereRefusedHolds ==
  ASSUME GlobalLimit + Burst <= AbuseThreshold
  PROVE  ServiceSpec => []RecordedWereRefused
<1>1. UnknownT!BurstBelowAbuse
  BY DEF UnknownT!BurstBelowAbuse, UnknownT!AbuseThreshold, AbuseThreshold, UnknownT!Mul64,
     Mul64, UnknownT!Wrap, Wrap
<1>2. UnknownT!Spec => []UnknownT!AllowedTrafficNotAbusive
  BY <1>1, UnknownConstants, ClockAssumption, ConfigAssumption, UnknownT!AllowedTrafficHolds
<1>3. ServiceSpec => []UnknownT!AllowedTrafficNotAbusive
  BY <1>2, UnknownMapImplemented, UnknownSame, PTL DEF UnknownMapSpec
<1>4. ServiceInit => RefusedInv
  <2> SUFFICES ASSUME ServiceInit PROVE RefusedInv
    OBVIOUS
  <2>1. \A r \in Runs : run[r].step = "idle"
    BY NoRunFields DEF ServiceInit, Init
  <2>2. DOMAIN abuse = {}
    BY DEF ServiceInit, Init
  <2> QED
    BY <2>1, <2>2 DEF RefusedInv, UnknownSteps
<1>5. RefusedInv => RecordedWereRefused
  BY DEF RefusedInv, RecordedWereRefused, WasRefused
<1> QED
  BY <1>3, <1>4, <1>5, RefusedStep, MapInit, MapStep, KnownFacts, UnknownFacts, PTL
     DEF ServiceSpec
-----------------------------------------------------------------------------
(* The answers of the two maps.                                            *)

\* The known map answers as a fixed-window limiter.
LEMMA KnownAnswers == ASSUME SumsFit PROVE ServiceSpec => Known!FixedWindowSpec
<1>1. KnownT!NoOverflow
  BY DEF SumsFit, KnownT!NoOverflow
<1>2. KnownT!Spec => KnownT!FixedWindowSpec
  BY <1>1, KnownConstants, ClockAssumption, ConfigAssumption, KnownT!ImplementsFixedWindow
<1>3. KnownT!Slots = Known!Slots
  BY DEF KnownT!Slots, Known!Slots, KnownT!SlotOf, Known!SlotOf, KnownT!Unix, Known!Unix
<1>4. KnownT!Limiter!Init => Known!Limiter!Init
  BY <1>3 DEF KnownT!Limiter!Init, Known!Limiter!Init, KnownT!Limiter!Zero, Known!Limiter!Zero
<1>5. [KnownT!Limiter!Next]_(KnownT!Limiter!fwVars) => [Known!Limiter!Next]_(Known!Limiter!fwVars)
  BY <1>3 DEF KnownT!Limiter!Next, Known!Limiter!Next, KnownT!Limiter!fwVars,
         Known!Limiter!fwVars, KnownT!Limiter!Grant, Known!Limiter!Grant,
         KnownT!Limiter!Refuse, Known!Limiter!Refuse, KnownT!Limiter!Disturb,
         Known!Limiter!Disturb, KnownT!Limiter!Disturbing, Known!Limiter!Disturbing,
         KnownT!Limiter!Within, Known!Limiter!Within
<1>6. KnownT!FixedWindowSpec => Known!FixedWindowSpec
  BY <1>4, <1>5, PTL DEF KnownT!FixedWindowSpec, Known!FixedWindowSpec, KnownT!Limiter!Spec, Known!Limiter!Spec
<1> QED
  BY <1>2, <1>6, KnownMapImplemented, KnownSame, PTL DEF KnownMapSpec

\* The unknown map answers as a fixed-window limiter.
LEMMA UnknownAnswers == ASSUME SumsFit PROVE ServiceSpec => Unknown!FixedWindowSpec
<1>1. UnknownT!NoOverflow
  BY DEF SumsFit, UnknownT!NoOverflow
<1>2. UnknownT!Spec => UnknownT!FixedWindowSpec
  BY <1>1, UnknownConstants, ClockAssumption, ConfigAssumption, UnknownT!ImplementsFixedWindow
<1>3. UnknownT!Slots = Unknown!Slots
  BY DEF UnknownT!Slots, Unknown!Slots, UnknownT!SlotOf, Unknown!SlotOf, UnknownT!Unix,
         Unknown!Unix
<1>4. UnknownT!Limiter!Init => Unknown!Limiter!Init
  BY <1>3 DEF UnknownT!Limiter!Init, Unknown!Limiter!Init, UnknownT!Limiter!Zero, Unknown!Limiter!Zero
<1>5. [UnknownT!Limiter!Next]_(UnknownT!Limiter!fwVars) => [Unknown!Limiter!Next]_(Unknown!Limiter!fwVars)
  BY <1>3 DEF UnknownT!Limiter!Next, Unknown!Limiter!Next, UnknownT!Limiter!fwVars,
         Unknown!Limiter!fwVars, UnknownT!Limiter!Grant, Unknown!Limiter!Grant,
         UnknownT!Limiter!Refuse, Unknown!Limiter!Refuse, UnknownT!Limiter!Disturb,
         Unknown!Limiter!Disturb, UnknownT!Limiter!Disturbing, Unknown!Limiter!Disturbing,
         UnknownT!Limiter!Within, Unknown!Limiter!Within
<1>6. UnknownT!FixedWindowSpec => Unknown!FixedWindowSpec
  BY <1>4, <1>5, PTL DEF UnknownT!FixedWindowSpec, Unknown!FixedWindowSpec, UnknownT!Limiter!Spec, Unknown!Limiter!Spec
<1> QED
  BY <1>2, <1>6, UnknownMapImplemented, UnknownSame, PTL DEF UnknownMapSpec

\* From request to answer the service is a fixed-window limiter: RateLimiter
\* drives two CounterMaps, and each of them implements FixedWindow.
THEOREM AnswersFixedWindowHolds == ASSUME SumsFit PROVE ServiceSpec => AnswersFixedWindow
  BY KnownAnswers, UnknownAnswers DEF AnswersFixedWindow
=============================================================================
