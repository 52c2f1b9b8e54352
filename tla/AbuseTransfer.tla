--------------------------- MODULE AbuseTransfer ---------------------------
(***************************************************************************)
(* The abuse lists redisDB2/redisDB3 over time: the cleanup ticker, the    *)
(* sliding TTL of a record, the health flag, the administrator's delete    *)
(* and purge, crashes and restarts.                                        *)
(*                                                                         *)
(* A counter is reduced to whether its AbuseHits have reached the transfer *)
(* threshold and how long it has been idle (Counter and RateLimiter model  *)
(* the rest); a record is reduced to its remaining time to live.  Every    *)
(* time is relative (a countdown or a capped age), so time is unbounded.   *)
(***************************************************************************)
EXTENDS Naturals, Functions

CONSTANTS
  Ids,          \* identities of the unknown map
  Nobody,       \* a model value: no identity
  Interval,     \* --cleanup-interval
  Ttl,          \* --abuse-ttl
  IdleTime,     \* two windows: DeleteIfInactive's threshold
  CycleTime,    \* longest time one cleanup cycle takes
  MaxFailures,  \* bound: failed Redis operations
  MaxRemovals,  \* bound: admin deletions and purges of abuse records
  MaxCrashes    \* bound: crashes

ASSUME TransferAssumption ==
  /\ Nobody \notin Ids
  /\ Interval \in Nat \ {0} /\ Ttl \in Nat \ {0} /\ IdleTime \in Nat
  /\ CycleTime \in Nat /\ CycleTime < Interval
  /\ MaxFailures \in Nat /\ MaxRemovals \in Nat /\ MaxCrashes \in Nat

VARIABLES
  up,       \* the process is running
  timer,    \* time until the ticker fires next
  pending,  \* the ticker's channel holds a tick
  cycle,    \* the call of Cleanup.Run in progress
  mem,      \* the unknown map: identity -> counter
  rec,      \* redisDB2 and redisDB3: identity -> remaining TTL
  healthy,  \* Store.healthy
  failures, removals, crashes  \* bounded

redisVars == <<rec, healthy, failures, removals>>
vars == <<up, timer, pending, cycle, mem, redisVars, crashes>>

\* How long a transfer may be overdue: to the end of the next cycle, after a
\* failure to the end of the one after (the first finds the flag down).
Due == IF failures = 0 THEN Interval + CycleTime ELSE 2 * Interval + CycleTime
MaxAge == 2 * Interval + CycleTime + 1
MaxIdle == IdleTime + CycleTime

Capped(n, max) == IF n > max THEN max ELSE n

Idle == [step |-> "idle", elapsed |-> 0, redisUp |-> FALSE, todo |-> {}, cur |-> Nobody]
NoTtl == 0  \* of a record without expiry, which upsertAbuse never writes

\* since: how long the counter is an abuser's without a Redis failure or an
\* admin removal in between.
Counters == [abuser : BOOLEAN, idle : 0..MaxIdle, since : 0..MaxAge]

TypeOK ==
  /\ up \in BOOLEAN /\ pending \in BOOLEAN /\ healthy \in BOOLEAN
  /\ timer \in 1..Interval
  /\ DOMAIN mem \subseteq Ids /\ \A id \in DOMAIN mem : mem[id] \in Counters
  /\ DOMAIN rec \subseteq Ids /\ \A id \in DOMAIN rec : rec[id] \in 0..Ttl
  /\ cycle.step \in {"idle", "known", "unknown", "forget"}
  /\ cycle.elapsed \in 0..CycleTime /\ cycle.cur \in Ids \cup {Nobody}

Put(f, id, v) == [j \in DOMAIN f \cup {id} |-> IF j = id THEN v ELSE f[j]]
Without(f, S) == Restrict(f, DOMAIN f \ S)

Init == /\ up = TRUE
        /\ timer = Interval /\ pending = FALSE /\ cycle = Idle
        /\ mem = << >> /\ rec = << >>
        /\ healthy = TRUE
        /\ failures = 0 /\ removals = 0 /\ crashes = 0
-----------------------------------------------------------------------------
(* Time.                                                                    *)

\* Redis drops a record whose TTL has run out.
Expired == LET aged == [id \in DOMAIN rec |-> IF rec[id] = NoTtl THEN NoTtl ELSE rec[id] - 1]
           IN  Without(aged, {id \in DOMAIN rec : rec[id] = 1})

Older(c) == [c EXCEPT !.idle = Capped(@ + 1, MaxIdle),
                      !.since = IF c.abuser THEN Capped(@ + 1, MaxAge) ELSE 0]

\* The ticker drops a tick its channel has no room for.  A tick that is due
\* starts a cycle, and a cycle ends, within CycleTime.
Tick ==
  /\ cycle.elapsed < CycleTime
  /\ ~(up /\ pending /\ cycle.step = "idle")
  /\ IF up THEN /\ timer' = IF timer = 1 THEN Interval ELSE timer - 1
                /\ pending' = (pending \/ timer = 1)
           ELSE UNCHANGED <<timer, pending>>
  /\ cycle' = IF cycle.step = "idle" THEN cycle ELSE [cycle EXCEPT !.elapsed = @ + 1]
  /\ mem' = [id \in DOMAIN mem |-> Older(mem[id])]
  /\ rec' = Expired
  /\ UNCHANGED <<up, healthy, failures, removals, crashes>>

\* The process dies with its counters, at any point of a cycle.
Crash == /\ up /\ crashes < MaxCrashes
         /\ crashes' = crashes + 1
         /\ up' = FALSE
         /\ timer' = Interval /\ pending' = FALSE /\ cycle' = Idle
         /\ mem' = << >>
         /\ UNCHANGED redisVars

\* Loop runs its first cycle one interval after the start.
Restart == /\ ~up
           /\ up' = TRUE /\ healthy' = TRUE
           /\ UNCHANGED <<timer, pending, cycle, mem, rec, failures, removals, crashes>>
-----------------------------------------------------------------------------
(* Redis operations, and what others do.                                    *)

Disturbed == [id \in DOMAIN mem |-> [mem[id] EXCEPT !.since = 0]]

\* observe: success raises the flag again, failure lowers it.
SucceedsSilently == /\ UNCHANGED <<healthy, failures>>
Succeeds == /\ healthy' = TRUE
            /\ UNCHANGED failures
Fails == /\ failures < MaxFailures
         /\ failures' = failures + 1
         /\ healthy' = FALSE

\* RecordRequest of the unknown map: the request may close the slot that makes
\* the counter an abuser's; AbuseHits never decrease.
RecordRequest(id) ==
  /\ up
  /\ \E hit \in BOOLEAN :
       LET old == IF id \in DOMAIN mem THEN mem[id]
                  ELSE [abuser |-> FALSE, idle |-> 0, since |-> 0]
       IN  mem' = Put(mem, id, [old EXCEPT !.abuser = @ \/ hit, !.idle = 0])
  /\ UNCHANGED <<up, timer, pending, cycle, redisVars, crashes>>

\* Any other Redis operation: lookups, LimitExists, /readyz, gauges, scans.
Observe ==
  /\ up
  /\ \/ Succeeds /\ UNCHANGED mem
     \/ Fails /\ mem' = Disturbed
  /\ UNCHANGED <<up, timer, pending, cycle, rec, removals, crashes>>

\* DeleteAbuseKeys/DeleteAbuseIPs of selected records, or a purge of them all;
\* an error may hide a success.
RemoveRecords(S) ==
  /\ up /\ removals < MaxRemovals
  /\ removals' = removals + 1
  /\ mem' = Disturbed
  /\ \/ Succeeds /\ rec' = Without(rec, S)
     \/ Fails /\ rec' \in {rec, Without(rec, S)}
  /\ UNCHANGED <<up, timer, pending, cycle, crashes>>
-----------------------------------------------------------------------------
(* Cleanup.Loop and Run.                                                    *)

RunStart ==
  /\ up /\ cycle.step = "idle" /\ pending
  /\ pending' = FALSE
  /\ cycle' = [Idle EXCEPT !.step = "known"]
  /\ UNCHANGED <<up, timer, mem, redisVars, crashes>>

\* runUnknown, after runKnown: reads the flag and snapshots the map.
UnknownStart ==
  /\ cycle.step = "known"
  /\ cycle' = [cycle EXCEPT !.step = "unknown", !.redisUp = healthy,
                 !.todo = {[id |-> id, abuser |-> mem[id].abuser] : id \in DOMAIN mem}]
  /\ UNCHANGED <<up, timer, pending, mem, redisVars, crashes>>

\* HSET and EXPIRE in one MULTI: the TTL starts anew.
WrittenKeepTtl(id) == Put(rec, id, IF id \in DOMAIN rec THEN rec[id] ELSE Ttl)
WrittenNoTtl(id) == Put(rec, id, NoTtl)
WrittenLonger(id) == Put(rec, id, Ttl + 1)
Written(id) == Put(rec, id, Ttl)

\* runUnknown for an abuser while the flag was up: Get and transfer.
Transfer ==
  /\ cycle.step = "unknown" /\ cycle.redisUp
  /\ \E s \in cycle.todo :
       /\ s.abuser
       /\ cycle' = [cycle EXCEPT !.todo = @ \ {s}, !.step = "forget", !.cur = s.id]
       /\ \/ Succeeds /\ rec' = Written(s.id) /\ UNCHANGED mem
          \/ Fails /\ rec' \in {rec, Written(s.id)} /\ mem' = Disturbed
  /\ UNCHANGED <<up, timer, pending, removals, crashes>>

\* DeleteIfInactive(id, start): idle for two windows when Run began.
Collected(id) == IF id \in DOMAIN mem /\ mem[id].idle >= cycle.elapsed + IdleTime
                   THEN Without(mem, {id}) ELSE mem

\* After the transfer, whether it succeeded or not.
Forget ==
  /\ cycle.step = "forget"
  /\ mem' = Collected(cycle.cur)
  /\ cycle' = [cycle EXCEPT !.step = "unknown", !.cur = Nobody]
  /\ UNCHANGED <<up, timer, pending, redisVars, crashes>>

\* runUnknown for any other counter.
Skip ==
  /\ cycle.step = "unknown"
  /\ \E s \in cycle.todo :
       /\ ~(s.abuser /\ cycle.redisUp)
       /\ mem' = Collected(s.id)
       /\ cycle' = [cycle EXCEPT !.todo = @ \ {s}]
  /\ UNCHANGED <<up, timer, pending, redisVars, crashes>>

\* The end of Run asks for DBSize, which also brings the flag up again.
Finish ==
  /\ cycle.step = "unknown" /\ cycle.todo = {}
  /\ cycle' = Idle
  /\ \/ Succeeds /\ UNCHANGED mem
     \/ Fails /\ mem' = Disturbed
  /\ UNCHANGED <<up, timer, pending, rec, removals, crashes>>
-----------------------------------------------------------------------------
Loop == RunStart \/ UnknownStart \/ Transfer \/ Forget \/ Skip \/ Finish

Next == \/ Tick \/ Crash \/ Restart \/ Observe \/ Loop
        \/ \E id \in Ids : RecordRequest(id)
        \/ \E S \in SUBSET Ids \ {{}} : RemoveRecords(S)

\* Time passes, the supervisor restarts the process and the loop runs.
Spec == Init /\ [][Next]_vars
FairSpec == Spec /\ WF_vars(Tick) /\ WF_vars(Restart) /\ WF_vars(Loop)
-----------------------------------------------------------------------------
\* An abuser in memory is listed in Redis at the latest one interval and one
\* cycle after it earned it, and stays listed as long as it is in memory: so
\* a crash loses only younger ones.  After the last Redis failure or admin
\* removal it takes one more interval, because the first cycle may find the
\* health flag down and only its DBSize raises it (cleanup.go:80, 124).  That
\* needs a TTL longer than an interval and a cycle, which Validate does not
\* ask for and the defaults (15m and 15m) do not give.
RecordedInTime ==
  Ttl > Interval + CycleTime =>
    \A id \in DOMAIN mem : mem[id].since > Due => id \in DOMAIN rec

\* A record without a counter in memory does not stay for good: only a cycle
\* that finds the counter renews it, and every upsert sets an expiry, so it
\* ends also when the process crashed between the transfer and the removal
\* from memory.
RecordsExpire ==
  \A id \in Ids : id \in DOMAIN rec ~> (id \notin DOMAIN rec \/ id \in DOMAIN mem)
=============================================================================
