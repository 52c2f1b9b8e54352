---------------------------- MODULE RateLimiter ----------------------------
(***************************************************************************)
(* The service as main.run composes it: request goroutines (limiter over   *)
(* the two counter maps and Redis), the cleanup cycle run by its loop and  *)
(* once more during shutdown, the store's health flag, and shutdown itself.*)
(*                                                                         *)
(* Redis (external) is db1, the limits, and abuse, the union of redisDB2   *)
(* and redisDB3.  An operation either succeeds or fails; a failed upsert   *)
(* may have been applied.  The health flag is set in the same step as the  *)
(* operation it observes.                                                  *)
(***************************************************************************)
EXTENDS Counter, FiniteSets

CONSTANTS
  ApiKeys, Ips,       \* what requests carry
  Procs,              \* request goroutines
  KeysWithLimit,      \* the api keys redisDB1 knows at the start
  Limits,             \* limits redisDB1 may hold
  Unparseable,        \* a limit field that is no int64
  TransferThreshold,  \* cfg.AbuseTransferThreshold
  MaxLag,             \* longest time from reading the clock to the map's lock
  AllowShutdown,      \* whether SIGTERM may come
  DrainMayTimeOut,    \* whether draining may exceed its 10 seconds
  MaxNow,             \* bound: the last clock tick
  MaxRequests,        \* bound: the number of requests
  MaxFailures,        \* bound: failed Redis operations
  MaxEdits            \* bound: changes of redisDB1

ASSUME ServiceAssumption ==
  /\ KeysWithLimit \subseteq ApiKeys
  /\ Limits \subseteq Int64 /\ Unparseable \notin Limits
  /\ TransferThreshold \in Nat \ {0}
  /\ MaxLag \in Nat /\ MaxNow \in Nat /\ MaxRequests \in Nat
  /\ MaxFailures \in Nat /\ MaxEdits \in Nat
  /\ AllowShutdown \in BOOLEAN /\ DrainMayTimeOut \in BOOLEAN

\* The prefixes "key:" and "ip:" keep the identities of the unknown map apart.
KeyId(a) == <<"key", a>>
IpId(i)  == <<"ip", i>>
Ids == {KeyId(a) : a \in ApiKeys} \cup {IpId(i) : i \in Ips}
NoId == <<"none", "none">>

Runs == {"loop", "final"}

VARIABLES
  now,       \* the clock
  known,     \* KnownMap: api key -> counter
  unknown,   \* UnknownMap: identity -> counter
  db1,       \* redisDB1: api key -> limit or Unparseable
  abuse,     \* redisDB2 and redisDB3: identity -> abuse record
  healthy,   \* Store.healthy
  req,       \* goroutine -> the request it serves
  run,       \* "loop" / "final" -> the state of that call of Cleanup.Run
  phase,     \* how far shutdown is
  issued, failures, edits,  \* bounded: requests, failed operations, edits
  earned,    \* history: identities whose counter reached the threshold
  timedOut   \* history: draining gave up on a request

counterVars == <<known, unknown>>
redisVars   == <<db1, abuse>>
vars == <<now, known, unknown, db1, abuse, healthy, req, run, phase, issued,
          failures, edits, earned, timedOut>>

AbuseRecords == [FirstSeen : Nat, LastSeen : Nat, TotalRequests : Nat,
                 BurstHits : Nat, AbuseHits : Nat]

\* What Cleanup.transfer writes for a counter.
AbuseRecordNoHits(c) == [FirstSeen |-> Unix(c.FirstRequest), LastSeen |-> Unix(c.LastRequest),
                         TotalRequests |-> c.Total, BurstHits |-> c.BurstHits]
AbuseRecord(c) == [FirstSeen |-> Unix(c.FirstRequest), LastSeen |-> Unix(c.LastRequest),
                   TotalRequests |-> c.Total, BurstHits |-> c.BurstHits,
                   AbuseHits |-> c.Hits]

\* AbuseHits >= abuse_transfer_threshold
IsAbuserOffByOne(c) == c.Hits >= TransferThreshold - 1
IsAbuser(c) == c.Hits >= TransferThreshold

NoRun == [step |-> "idle", start |-> 0, redisUp |-> FALSE, todo |-> {},
          cur |-> NoId, copy |-> << >>, failed |-> {}]
-----------------------------------------------------------------------------
Init == /\ now = 0
        /\ known = << >> /\ unknown = << >>
        /\ db1 \in [KeysWithLimit -> Limits \cup {Unparseable}]
        /\ abuse = << >>
        /\ healthy = TRUE
        /\ req = << >>
        /\ run = [r \in Runs |-> NoRun]
        /\ phase = "running"
        /\ issued = 0 /\ failures = 0 /\ edits = 0
        /\ earned = {}
        /\ timedOut = FALSE

Alive == phase # "stopped"

\* No goroutine lingers longer than MaxLag between clock and lock.
Tick == /\ Alive /\ now < MaxNow
        /\ \A p \in DOMAIN req : req[p].step = "record" => now < req[p].time + MaxLag
        /\ now' = now + 1
        /\ UNCHANGED <<counterVars, redisVars, healthy, req, run, phase, issued,
                       failures, edits, earned, timedOut>>
-----------------------------------------------------------------------------
(* Redis operations as the store sees them.  rootCtx, which the loop's      *)
(* operations use, is cancelled once the final cleanup is over.             *)

Cancelled(ctx) == ctx = "loop" /\ phase = "cancelled"

\* observe("...", nil) or observe("...", redis.Nil)
Succeeds(ctx) == /\ ~Cancelled(ctx)
                 /\ healthy' = TRUE
                 /\ UNCHANGED failures

\* observe("...", err): a transport error, a timeout or a cancelled context.
Fails(ctx) == /\ healthy' = FALSE
              /\ IF Cancelled(ctx)
                   THEN UNCHANGED failures
                   ELSE failures < MaxFailures /\ failures' = failures + 1

\* An operation that only reads, and whose result no decision uses: all it
\* changes is the health flag.
Observe(ctx) == /\ Alive
                /\ Succeeds(ctx) \/ Fails(ctx)
                /\ UNCHANGED <<now, counterVars, redisVars, req, run, phase, issued,
                               edits, earned, timedOut>>

\* /readyz pings Redis unless the service is shutting down.
Readyz == phase = "running" /\ Observe("request")

\* updateRedisGauges: DBSize with rootCtx, at the start and every 30 seconds.
UpdateRedisGauges == Observe("loop")

\* The admin pages ping Redis or scan one of its databases.
Scan == Observe("request")

\* A limit is written to redisDB1 by its owner, outside the service.
SetLimit(a, v) ==
  /\ edits < MaxEdits
  /\ edits' = edits + 1
  /\ db1' = Put(db1, a, v)
  /\ UNCHANGED <<now, counterVars, abuse, healthy, req, run, phase, issued, failures,
                 earned, timedOut>>

\* The admin's removal of keys from redisDB1; an error may hide a success.
Remove(S) ==
  /\ Alive
  /\ edits < MaxEdits
  /\ edits' = edits + 1
  /\ LET kept == [a \in DOMAIN db1 \ S |-> db1[a]]
     IN  \/ Succeeds("request") /\ db1' = kept
         \/ Fails("request") /\ db1' \in {db1, kept}
  /\ UNCHANGED <<now, counterVars, abuse, req, run, phase, issued, earned, timedOut>>

\* DEL of the selected keys (none selected: no operation), and FLUSHDB.
DeleteLimits(S) == S # {} /\ Remove(S)
PurgeLimits == Remove(ApiKeys)
-----------------------------------------------------------------------------
(* Limiter.Decide.                                                          *)

Request(id, step, isKnown, limit, time) ==
  [id |-> id, step |-> step, known |-> isKnown, limit |-> limit, time |-> time]

\* A request is accepted by the check server until Shutdown is called.
Arrive(p, id) ==
  /\ phase = "running"
  /\ p \notin DOMAIN req
  /\ issued < MaxRequests
  /\ issued' = issued + 1
  /\ req' = Put(req, p, Request(id, IF id[1] = "key" THEN "lookup" ELSE "clock",
                                FALSE, GlobalLimit, 0))
  /\ UNCHANGED <<now, counterVars, redisVars, healthy, run, phase, failures, edits,
                 earned, timedOut>>

\* LookupLimit: a limit sends the request to the known map; a miss, a limit
\* that does not parse and an error send it to the unknown map.
LookupLimit(p) ==
  /\ Alive
  /\ p \in DOMAIN req /\ req[p].step = "lookup"
  /\ LET id == req[p].id
         a  == id[2]
         found == a \in DOMAIN db1 /\ db1[a] # Unparseable
     IN  \/ /\ Succeeds("request")
            /\ req' = [req EXCEPT ![p] =
                 Request(id, "clock", found, IF found THEN db1[a] ELSE GlobalLimit, 0)]
         \/ /\ Fails("request")
            /\ req' = [req EXCEPT ![p] = Request(id, "clock", FALSE, GlobalLimit, 0)]
  /\ UNCHANGED <<now, counterVars, redisVars, run, phase, issued, edits, earned, timedOut>>

\* RecordRequest of either map, up to the lock.
ReadClock(p) ==
  /\ Alive
  /\ p \in DOMAIN req /\ req[p].step = "clock"
  /\ req' = [req EXCEPT ![p].step = "record", ![p].time = now]
  /\ UNCHANGED <<now, counterVars, redisVars, healthy, run, phase, issued, failures,
                 edits, earned, timedOut>>

CounterOf(m, id, t) == IF id \in DOMAIN m THEN m[id] ELSE NewCounter(t)

\* RecordRequest of either map, under the lock; the request is answered.
RecordRequestFallThrough(p) ==
  /\ Alive
  /\ p \in DOMAIN req /\ req[p].step = "record"
  /\ LET r == req[p]
         a == r.id[2]
         k == Recorded(CounterOf(known, a, r.time), r.time, r.limit, r.limit)
         u == Recorded(CounterOf(unknown, r.id, r.time), r.time, GlobalLimit, AbuseThreshold)
     IN  /\ known' = IF r.known THEN Put(known, a, k) ELSE known
         /\ unknown' = Put(unknown, r.id, u)
         /\ earned' = IF IsAbuser(u) THEN earned \cup {r.id} ELSE earned
  /\ req' = Without(req, p)
  /\ UNCHANGED <<now, redisVars, healthy, run, phase, issued, failures, edits, timedOut>>
RecordRequest(p) ==
  /\ Alive
  /\ p \in DOMAIN req /\ req[p].step = "record"
  /\ LET r == req[p]
         a == r.id[2]
         k == Recorded(CounterOf(known, a, r.time), r.time, r.limit, r.limit)
         u == Recorded(CounterOf(unknown, r.id, r.time), r.time, r.limit, AbuseThreshold)
     IN  IF r.known
           THEN /\ known' = Put(known, a, k)
                /\ UNCHANGED <<unknown, earned>>
           ELSE /\ unknown' = Put(unknown, r.id, u)
                /\ earned' = IF IsAbuser(u) THEN earned \cup {r.id} ELSE earned
                /\ UNCHANGED known
  /\ req' = Without(req, p)
  /\ UNCHANGED <<now, redisVars, healthy, run, phase, issued, failures, edits, timedOut>>
-----------------------------------------------------------------------------
(* Cleanup.Run, called by the loop and by the shutdown sequence.            *)

\* DeleteIfInactive of either map.
DeleteAlways(m, id, t) == IF id \in DOMAIN m THEN Without(m, id) ELSE m
DeleteIfInactive(m, id, t) ==
  IF id \in DOMAIN m /\ IsInactive(m[id], t) THEN Without(m, id) ELSE m

LimitExists(a) == a \in DOMAIN db1

\* Snapshot of the known map, of which runKnown uses the keys, and of the
\* unknown map, of which runUnknown uses whether AbuseHits reach the threshold.
KnownSnapshot == DOMAIN known
UnknownSnapshot == {[id |-> id, abuser |-> IsAbuser(unknown[id])] : id \in DOMAIN unknown}

At(r, step) == Alive /\ run[r].step = step

\* Run reads the clock and snapshots the known map.
RunStart(r) ==
  /\ At(r, "idle")
  /\ r = "final" => phase = "final"
  /\ run' = [run EXCEPT ![r] = [NoRun EXCEPT !.step = "known", !.start = now,
                                             !.todo = KnownSnapshot]]
  /\ UNCHANGED <<now, counterVars, redisVars, healthy, req, phase, issued, failures,
                 edits, earned, timedOut>>

\* runKnown: one LimitExists; an error skips the key.
KnownExists(r) ==
  /\ At(r, "known")
  /\ \E a \in run[r].todo :
       \/ /\ Succeeds(r)
          /\ run' = [run EXCEPT ![r].todo = @ \ {a}, ![r].cur = KeyId(a),
                                ![r].step = IF LimitExists(a) THEN "keep" ELSE "drop"]
       \/ /\ Fails(r)
          /\ run' = [run EXCEPT ![r].todo = @ \ {a}, ![r].failed = @ \cup {a}]
  /\ UNCHANGED <<now, counterVars, redisVars, req, phase, issued, edits, earned, timedOut>>

\* runKnown: Delete when the key was missing, else DeleteIfInactive.
KnownDelete(r) ==
  /\ At(r, "drop") \/ At(r, "keep")
  /\ LET a == run[r].cur[2]
     IN  known' = IF run[r].step = "keep" THEN DeleteIfInactive(known, a, run[r].start)
                  ELSE IF a \in DOMAIN known THEN Without(known, a) ELSE known
  /\ run' = [run EXCEPT ![r].step = "known", ![r].cur = NoId]
  /\ UNCHANGED <<now, unknown, redisVars, healthy, req, phase, issued, failures, edits,
                 earned, timedOut>>

\* runUnknown reads IsHealthy and snapshots the unknown map.
UnknownStart(r) ==
  /\ At(r, "known") /\ run[r].todo = {}
  /\ run' = [run EXCEPT ![r].step = "unknown", ![r].redisUp = healthy,
                         ![r].todo = UnknownSnapshot]
  /\ UNCHANGED <<now, counterVars, redisVars, healthy, req, phase, issued, failures,
                 edits, earned, timedOut>>

\* runUnknown: a counter to transfer is read again; it may be gone by now.
UnknownGet(r) ==
  /\ At(r, "unknown")
  /\ \E s \in run[r].todo :
       /\ s.abuser /\ run[r].redisUp
       /\ run' = IF s.id \in DOMAIN unknown
                   THEN [run EXCEPT ![r].todo = @ \ {s}, ![r].cur = s.id,
                                    ![r].copy = AbuseRecord(unknown[s.id]),
                                    ![r].step = "upsert"]
                   ELSE [run EXCEPT ![r].todo = @ \ {s}]
  /\ UNCHANGED <<now, counterVars, redisVars, healthy, req, phase, issued, failures,
                 edits, earned, timedOut>>

\* runUnknown: any other counter is only dropped if inactive.
UnknownSkipKeep(r) ==
  /\ At(r, "unknown")
  /\ \E s \in run[r].todo :
       /\ ~(s.abuser /\ run[r].redisUp)
       /\ run' = [run EXCEPT ![r].todo = @ \ {s}]
  /\ UNCHANGED <<now, counterVars, redisVars, healthy, req, phase, issued, failures, edits,
                 earned, timedOut>>
UnknownSkip(r) ==
  /\ At(r, "unknown")
  /\ \E s \in run[r].todo :
       /\ ~(s.abuser /\ run[r].redisUp)
       /\ unknown' = DeleteIfInactive(unknown, s.id, run[r].start)
       /\ run' = [run EXCEPT ![r].todo = @ \ {s}]
  /\ UNCHANGED <<now, known, redisVars, healthy, req, phase, issued, failures, edits,
                 earned, timedOut>>

\* transfer: HSET and EXPIRE in one MULTI; an error may hide a success.
Upsert(r) ==
  /\ At(r, "upsert")
  /\ LET written == Put(abuse, run[r].cur, run[r].copy)
     IN  \/ /\ Succeeds(r)
            /\ abuse' = written
            /\ run' = [run EXCEPT ![r].step = "forget"]
         \/ /\ Fails(r)
            /\ abuse' \in {abuse, written}
            /\ run' = [run EXCEPT ![r].step = "forget",
                                     ![r].failed = @ \cup {run[r].cur}]
  /\ UNCHANGED <<now, counterVars, db1, req, phase, issued, edits, earned, timedOut>>

\* runUnknown after transfer, successful or not.
ForgetIfHealthy(r) ==
  /\ At(r, "forget")
  /\ unknown' = IF healthy THEN DeleteIfInactive(unknown, run[r].cur, run[r].start)
                           ELSE unknown
  /\ run' = [run EXCEPT ![r].step = "unknown", ![r].cur = NoId, ![r].copy = << >>]
  /\ UNCHANGED <<now, known, redisVars, healthy, req, phase, issued, failures, edits,
                 earned, timedOut>>
Forget(r) ==
  /\ At(r, "forget")
  /\ unknown' = DeleteIfInactive(unknown, run[r].cur, run[r].start)
  /\ run' = [run EXCEPT ![r].step = "unknown", ![r].cur = NoId, ![r].copy = << >>]
  /\ UNCHANGED <<now, known, redisVars, healthy, req, phase, issued, failures, edits,
                 earned, timedOut>>

\* Run ends with DBSize for the gauges.
Finish(r) ==
  /\ At(r, "unknown") /\ run[r].todo = {}
  /\ LET ended == IF r = "loop" THEN NoRun
                  ELSE [NoRun EXCEPT !.step = "done", !.failed = run[r].failed]
     IN  /\ Succeeds(r) \/ Fails(r)
         /\ run' = [run EXCEPT ![r] = ended]
  /\ UNCHANGED <<now, counterVars, redisVars, req, phase, issued, edits, earned, timedOut>>

RunStep(r) == \/ KnownExists(r) \/ KnownDelete(r) \/ UnknownStart(r) \/ UnknownGet(r)
              \/ UnknownSkip(r) \/ Upsert(r) \/ Forget(r) \/ Finish(r)
-----------------------------------------------------------------------------
(* The shutdown sequence of main.run.                                       *)

Goto(from, to) == /\ phase = from
                  /\ phase' = to
                  /\ UNCHANGED <<now, counterVars, redisVars, healthy, req, run, issued,
                                 failures, edits, earned>>

Sigterm == AllowShutdown /\ Goto("running", "draining") /\ UNCHANGED timedOut

\* checkSrv.Shutdown returns when no request is left or after 10 seconds.
DrainedAtOnce == Goto("draining", "final") /\ UNCHANGED timedOut
Drained == DOMAIN req = {} /\ Goto("draining", "final") /\ UNCHANGED timedOut
DrainTimeout == /\ DrainMayTimeOut /\ DOMAIN req # {}
                /\ Goto("draining", "final")
                /\ timedOut' = TRUE

\* The final cl.Run has returned: cancel rootCtx.
Cancel == /\ run["final"].step = "done"
          /\ Goto("final", "cancelled")
          /\ UNCHANGED timedOut

\* wg.Wait: the loop has left its cycle, saw ctx.Done() and returned.
ExitWhenDrained == /\ run["loop"].step = "idle" /\ DOMAIN req = {}
                   /\ Goto("cancelled", "stopped")
                   /\ UNCHANGED timedOut
Exit == /\ run["loop"].step = "idle"
        /\ Goto("cancelled", "stopped")
        /\ UNCHANGED timedOut
-----------------------------------------------------------------------------
Next == \/ Tick \/ Readyz \/ UpdateRedisGauges \/ Scan
        \/ \E a \in ApiKeys, v \in Limits \cup {Unparseable} : SetLimit(a, v)
        \/ \E S \in SUBSET ApiKeys : DeleteLimits(S)
        \/ PurgeLimits
        \/ \E p \in Procs, id \in Ids : Arrive(p, id)
        \/ \E p \in Procs : LookupLimit(p) \/ ReadClock(p) \/ RecordRequest(p)
        \/ \E r \in Runs : RunStart(r) \/ RunStep(r)
        \/ Sigterm \/ Drained \/ DrainTimeout \/ Cancel \/ Exit

Spec == Init /\ [][Next]_vars

\* The ticker fires for ever, cleanup cycles and the main goroutine make
\* progress, and a select between ticker and ctx.Done() does not choose the
\* ticker for ever.
Fairness == /\ \A r \in Runs : WF_vars(RunStart(r)) /\ WF_vars(RunStep(r))
            /\ WF_vars(Drained) /\ WF_vars(DrainTimeout) /\ WF_vars(Cancel)
            /\ SF_vars(Exit)
FairSpec == Spec /\ Fairness
-----------------------------------------------------------------------------
\* Every variable has its type.
TypeOK ==
  /\ now \in 0..MaxNow
  /\ DOMAIN known \subseteq ApiKeys /\ \A a \in DOMAIN known : known[a] \in Counters
  /\ DOMAIN unknown \subseteq Ids /\ \A id \in DOMAIN unknown : unknown[id] \in Counters
  /\ DOMAIN db1 \subseteq ApiKeys /\ \A a \in DOMAIN db1 : db1[a] \in Limits \cup {Unparseable}
  /\ DOMAIN abuse \subseteq Ids /\ \A id \in DOMAIN abuse : abuse[id] \in AbuseRecords
  /\ healthy \in BOOLEAN /\ timedOut \in BOOLEAN
  /\ DOMAIN req \subseteq Procs
  /\ \A p \in DOMAIN req : req[p].time <= now /\ req[p].id \in Ids
  /\ \A r \in Runs : run[r].start <= now
  /\ phase \in {"running", "draining", "final", "cancelled", "stopped"}
  /\ issued <= MaxRequests /\ failures <= MaxFailures /\ edits <= MaxEdits
  /\ earned \subseteq Ids

\* As long as Redis has not failed and the final cleanup has not begun, a
\* counter that cleanup removes with enough abuse hits has been transferred
\* exactly as it was: DeleteIfInactive re-reads it under the lock, so no
\* request counted after the copy was taken is lost.
TransferredWhenDropped ==
  [][\A id \in DOMAIN unknown :
       /\ id \notin DOMAIN unknown'
       /\ IsAbuser(unknown[id])
       /\ failures = 0 /\ run["final"].step = "idle"
       => id \in DOMAIN abuse /\ abuse[id] = AbuseRecord(unknown[id])]_vars

\* Only abusers are recorded: the snapshot's verdict still holds for the copy
\* written ("AbuseHits is monotonic").  A request left behind by the drain may
\* create the counter anew between the two while both cycles run; what is written
\* then is a young counter, but still that of somebody who had reached the
\* threshold.
RecordsAreAbusers ==
  \A id \in DOMAIN abuse :
    /\ id \in earned
    /\ ~timedOut => abuse[id].AbuseHits >= TransferThreshold

\* When the process exits in order and Redis never failed, every identity
\* whose counter ever reached the threshold has been written to Redis: neither
\* the races of loop, final cleanup and requests nor the removals from memory in
\* between lose one.  (abuse is what was written: the expiry of records and their
\* removal by an administrator are in AbuseTransfer.)
FlushedAtExit ==
  phase = "stopped" /\ failures = 0 /\ ~timedOut => earned \subseteq DOMAIN abuse

\* A final cleanup none of whose operations failed flushes every abuser.
FinalFlush ==
  phase = "stopped" /\ run["final"].failed = {} /\ ~timedOut =>
    \A id \in DOMAIN unknown : IsAbuser(unknown[id]) => id \in DOMAIN abuse

\* A key that has a valid limit in redisDB1 all the time is recorded as an
\* abuser only if a Redis operation failed: decideWithKey keeps its requests
\* out of the unknown map unless LookupLimit returns an error.
LimitedKeysNeverAbusers ==
  \A a \in ApiKeys :
    /\ edits = 0 /\ failures = 0
    /\ a \in DOMAIN db1 /\ db1[a] # Unparseable
    => KeyId(a) \notin DOMAIN abuse

\* SIGTERM leads to the end of the process whatever Redis and the requests do.
EventuallyStopped == phase = "draining" ~> phase = "stopped"

\* The counters of a map that a cycle begun at t should have collected.
LeftOver(m, t) == {id \in DOMAIN m : IsInactive(m[id], t)}

Ends(r) == run[r].step = "unknown" /\ run'[r].step \in {"idle", "done"}

\* Every cycle collects the counters that were inactive when it began: the
\* unknown ones whether transfers fail, are skipped or race with requests,
\* the known ones all but those whose own LimitExists failed (runKnown skips
\* such a key and goes on with the others).
CollectedEachCycle ==
  [][\A r \in Runs : Ends(r) =>
       /\ LeftOver(unknown, run[r].start) = {}
       /\ LeftOver(known, run[r].start) \subseteq run[r].failed]_vars

\* An unknown counter that stays inactive is collected in the end, however
\* often Redis fails.
InactiveCollected ==
  \A id \in Ids :
    (id \in DOMAIN unknown /\ IsInactive(unknown[id], now))
      ~> (phase = "stopped" \/ id \notin DOMAIN unknown
          \/ ~IsInactive(unknown[id], now))
=============================================================================
