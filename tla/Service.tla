------------------------------ MODULE Service ------------------------------
(***************************************************************************)
(* RateLimiter with the answers Limiter.Decide gives: what each of the two *)
(* maps has let through and refused, per identity and slot.  It shows that *)
(* the service (its request goroutines, the loop and the final cleanup)    *)
(* uses either map the way CounterMap describes, so that what holds of     *)
(* every CounterMap holds of both, and bounds what a client gets whose     *)
(* requests are counted now in one map and now in the other.               *)
(*                                                                         *)
(* The variables added here are history: no step depends on them.          *)
(***************************************************************************)
EXTENDS RateLimiter

CONSTANTS MinLimit, MaxLimit   \* bounds of Limits

ASSUME LimitBounds == /\ MinLimit \in Int64 /\ MaxLimit \in 0..MaxInt
                      /\ Limits \subseteq MinLimit..MaxLimit

\* For each map ("known", "unknown"), what CounterMap keeps as history.
VARIABLES called, granted, refused, late, dropped

histVars == <<called, granted, refused, late, dropped>>
allVars  == <<vars, histVars>>

Maps  == {"known", "unknown"}
Slots == 0..SlotOf(MaxNow)
MapKeys(m) == IF m = "known" THEN ApiKeys ELSE Ids

\* The map that counts a request, and the key it has there.
MapOf(r) == IF r.known THEN "known" ELSE "unknown"
KeyOf(r) == IF r.known THEN r.id[2] ELSE r.id

ServiceInit ==
  /\ Init
  /\ called  = [m \in Maps |-> 0]
  /\ granted = [m \in Maps |-> [k \in MapKeys(m) |-> [x \in Slots |-> 0]]]
  /\ refused = [m \in Maps |-> [k \in MapKeys(m) |-> [x \in Slots |-> 0]]]
  /\ late    = [m \in Maps |-> [k \in MapKeys(m) |-> 0]]
  /\ dropped = [m \in Maps |-> [k \in MapKeys(m) |-> 0]]

NoteCall(p) ==
  /\ called' = [called EXCEPT ![MapOf(req[p])] = @ + 1]
  /\ UNCHANGED <<granted, refused, late, dropped>>

\* The Decision returned to the handler: Allow or Block.
NoteDecision(p) ==
  LET r == req[p]
      m == MapOf(r)
      k == KeyOf(r)
      s == SlotOf(r.time)
      n == IF r.known THEN known'[k].WindowCount ELSE unknown'[k].WindowCount
  IN  /\ IF Allowed(n, r.limit)
           THEN /\ granted' = [granted EXCEPT ![m][k][s] = @ + 1]
                /\ UNCHANGED refused
           ELSE /\ refused' = [refused EXCEPT ![m][k][s] = @ + 1]
                /\ UNCHANGED granted
      /\ late' = [late EXCEPT ![m][k] = IF s < SlotOf(now) THEN @ + 1 ELSE @]
      /\ UNCHANGED <<called, dropped>>

\* KnownMap.Delete removes the counter of a key that has lost its limit.
NoteDrop(r) ==
  LET a == run[r].cur[2]
  IN  /\ dropped' = IF run[r].step = "drop" /\ a \in DOMAIN known
                      THEN [dropped EXCEPT !["known"][a] = @ + 1] ELSE dropped
      /\ UNCHANGED <<called, granted, refused, late>>

\* The steps no answer and no unconditional removal belongs to.
Silent == \/ Tick \/ Readyz \/ UpdateRedisGauges \/ Scan
          \/ \E a \in ApiKeys, v \in Limits \cup {Unparseable} : SetLimit(a, v)
          \/ \E S \in SUBSET ApiKeys : DeleteLimits(S)
          \/ PurgeLimits
          \/ \E p \in Procs, id \in Ids : Arrive(p, id)
          \/ \E p \in Procs : LookupLimit(p)
          \/ \E r \in Runs : \/ RunStart(r) \/ KnownExists(r) \/ UnknownStart(r)
                             \/ UnknownGet(r) \/ UnknownSkip(r) \/ Upsert(r)
                             \/ Forget(r) \/ Finish(r)
          \/ Sigterm \/ Drained \/ DrainTimeout \/ Cancel \/ Exit

ServiceNext == \/ \E p \in Procs : ReadClock(p) /\ NoteCall(p)
               \/ \E p \in Procs : RecordRequest(p) /\ NoteDecision(p)
               \/ \E r \in Runs : KnownDelete(r) /\ NoteDrop(r)
               \/ Silent /\ UNCHANGED histVars

ServiceSpec == ServiceInit /\ [][ServiceNext]_allVars

\* The fairness of RateLimiter, which does not know the history.
FairServiceSpec == ServiceSpec /\ Fairness
-----------------------------------------------------------------------------
\* The requests that have read the clock for a map and wait for its lock.
Waiting(m) == {p \in DOMAIN req : req[p].step = "record" /\ MapOf(req[p]) = m}
CallsOf(m) == [p \in Waiting(m) |-> [key |-> KeyOf(req[p]), time |-> req[p].time,
                                     limit |-> req[p].limit]]

Known == INSTANCE CounterMap
  WITH Kind <- "known", Keys <- ApiKeys, counters <- known, calls <- CallsOf("known"),
       issued <- called["known"], granted <- granted["known"],
       refused <- refused["known"], late <- late["known"], dropped <- dropped["known"]

Unknown == INSTANCE CounterMap
  WITH Kind <- "unknown", Keys <- Ids, counters <- unknown, calls <- CallsOf("unknown"),
       Limits <- {GlobalLimit}, MinLimit <- GlobalLimit, MaxLimit <- GlobalLimit,
       issued <- called["unknown"], granted <- granted["unknown"],
       refused <- refused["unknown"], late <- late["unknown"],
       dropped <- dropped["unknown"]

\* Whatever requests, both cleanup cycles, Redis and the shutdown do, the known
\* map sees only the steps of CounterMap: a request with a limit is counted once,
\* with the clock reading and the limit it came with, and runKnown removes only
\* what was inactive when its cycle began or what Delete is charged for.
KnownMapSpec == Known!Spec

\* The same for the unknown map, which counts every other request once, with the
\* global limit; runUnknown removes what was inactive when its cycle began.
UnknownMapSpec == Unknown!Spec

\* End to end: the answers of either map in the running service are those of a
\* fixed-window limiter for every identity that no request reached late and no
\* Delete took a counter from.
AnswersFixedWindow == Known!FixedWindowSpec /\ Unknown!FixedWindowSpec

\* What an api key is let through in one slot when its limit comes and goes:
\* an outage or an edit of redisDB1 sends some of its requests to the unknown
\* map, whose count knows nothing of the other, so it gets the two budgets
\* together and no more.
KeyBudget ==
  \A a \in ApiKeys, x \in Slots :
    granted["known"][a][x] + granted["unknown"][KeyId(a)][x]
      <= (MaxLimit + Burst) * (1 + late["known"][a] + dropped["known"][a])
         + (GlobalLimit + Burst) * (1 + late["unknown"][KeyId(a)])

\* As long as nobody edits redisDB1 and Redis does not fail, a key with a limit
\* gets no more than its own budget: cleanup, which deletes counters of keys
\* without a limit, never gives it a fresh one.
SteadyKeyBudget ==
  \A a \in DOMAIN db1, x \in Slots :
    edits = 0 /\ failures = 0 /\ db1[a] # Unparseable =>
      granted["known"][a][x] + granted["unknown"][KeyId(a)][x]
        <= (MaxLimit + Burst) * (1 + late["known"][a])

\* No api key is refused in a slot in which it has not sent more than the
\* allowance of the map that refuses it: a limit of redisDB1 while Redis answers,
\* the global one otherwise.
KeyNoEarlyBlock ==
  \A a \in ApiKeys, x \in Slots :
    LET k == KeyId(a)
        sent == granted["known"][a][x] + granted["unknown"][k][x]
                + refused["known"][a][x] + refused["unknown"][k][x]
    IN  /\ refused["known"][a][x] > 0 => sent > MinLimit + Burst
        /\ refused["unknown"][k][x] > 0 => sent > GlobalLimit + Burst

\* Nobody is put on redisDB2 or redisDB3 who was never answered 403: the way
\* from a slot over the threshold to a counter's hits, a snapshot, a copy and a
\* record, past other requests and a second cycle, adds no innocent identity.
\* It needs a threshold of at least the allowance (see AllowedTrafficNotAbusive).
RecordedWereRefused ==
  \A id \in DOMAIN abuse : \E x \in Slots : refused["unknown"][id][x] > 0
=============================================================================
