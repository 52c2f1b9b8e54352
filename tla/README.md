# TLA+ specifications of api-ratelimiter

`api-ratelimiter` answers nginx/Angie `auth_request` subrequests: 200 lets a
client's request through, 403 refuses it. It counts requests per api key or
per address in fixed windows held in memory, takes individual limits from
Redis (redisDB1) and transfers persistent offenders to Redis (redisDB2 for
keys, redisDB3 for addresses).

## Inventory

| component (package) | state | operations | what makes it correct |
|---|---|---|---|
| `internal/counter` | `KnownMap`, `UnknownMap`: identity -> counter, one RWMutex each | `RecordRequest`, `Snapshot`, `Get`, `Delete`, `DeleteIfInactive`, `Len`, `SizeBytes` | a slot never grants more, or refuses earlier, than limit + burst; hits count the slots above the threshold |
| `internal/limiter` | none of its own | `Decide` -> `LookupLimit`, then `RecordRequest` of one of the maps | routing: known key -> its own limit; miss, error, address -> global limit |
| `internal/cleanup` | none between cycles | `Run` = `runKnown` + `runUnknown` (+ `transfer`), `Loop` | no abuser is dropped without a record, only abusers are recorded, inactive counters are collected |
| `internal/store` | the `healthy` flag; Redis itself | lookups, `upsertAbuse`, scans, `DBSize`, `Ping`, delete/purge, `observe` | the flag follows the operations |
| `internal/handler` | none | `/check`: `extractKey`, `extractIP`, answer, recovery from panics | right identity, fail open, always an answer |
| `internal/admin` | CSRF key, templates | pages over the maps and the Redis databases, delete, purge | deletes what was confirmed, pages show every entry once |
| `internal/config` | the flags | `Validate`, `SocketModeParsed` | accepted settings are meaningful |
| `cmd/api-ratelimiter` | `rootCtx`, `shuttingDown`, the servers | composition, `/healthz`, `/readyz`, gauge ticker, shutdown sequence, `listen` | an orderly exit flushes the abusers |
| `internal/metrics` | Prometheus registry | - | no behaviour of its own |

Interaction: every `/check` request runs in its own goroutine through handler,
limiter, store and one map. The cleanup loop goroutine runs a cycle per
ticker event; the main goroutine runs one more cycle during shutdown, possibly
at the same time. All Redis operations, whoever makes them, write the one
`healthy` flag that `runUnknown` reads.

What is hard here: the clock is read before the map's mutex is taken; cleanup
works on snapshots and copies while requests go on; two cleanup cycles may
overlap; the health flag is the left-over of whatever operation was last;
every Redis operation may fail, and a failed write may have been applied; the
drain of the check server may time out; the arithmetic is int64; abuse
records expire on their own clock; a listing is read key by key while the database
changes; sockets are removed and bound by name. The complete
list, line by line, is under `hazards` in `PROJECT.json`.

## Modules

| module | models | used by |
|---|---|---|
| `Counter` | the counter record and the pure part of `RecordRequest` and `isInactive`, with int64 arithmetic | `CounterMap`, `RateLimiter` |
| `FixedWindow` | abstract specification: a limiter that decides from the number of requests of a slot | `CounterMap` |
| `CounterMap` | one map shared by request goroutines and cleanup | `MCCounterMap`, `Service` |
| `RateLimiter` | the composed service: limiter, both maps, store, cleanup loop, shutdown | `MCRateLimiter`, `Service` |
| `Service` | `RateLimiter` with the answers it gives; both its maps as instances of `CounterMap` | `MCService` |
| `AbuseTransfer` | the abuse lists over time: cleanup ticker, TTL, health flag, admin removals, crashes | its own run |
| `Admin` | listings, delete and purge of the admin server | its own runs |
| `Lifecycle` | start and stop of processes on one socket path | its own runs |
| `Check` | the `/check` handler | its own run |

`MC*` modules only add symmetry sets and a view for TLC. The modules `*Proofs` extend
the module they are named after and hold its theorems, checked by TLAPS
(`CounterMapProofs` also the refinement of `FixedWindow`); `CounterProofs` holds the
lemmas about a counter that three of them share.

### Counter

`KnownCounter` and `UnknownCounter` have the same seven fields except for the
name of the last one, so one record with the field `Hits` stands for both.
`Recorded` is the locked section of `RecordRequest`: slot change
(`HitsAfter`, `WindowCountAfter`), totals, and the burst counter.
`Allowed` is the test `WindowCount > limit+burst` and `IsInactive` is
`isInactive`. A time is a number of ticks, `Second` of them a second, so that
whole-second slots and sub-second durations stay apart. `Add64` and `Mul64` wrap
at `MaxInt`, which is the largest int64 (a small number for TLC). `++` on
totals and hits is not wrapped: it would take 2^63 requests.

### CounterMap

`RecordRequest` of the code is two steps: `Call(p, k, limit)` reads the clock
and `RecordRequest(p)` is the section under the mutex. Anything may happen in
between. `Delete` and `DeleteIfInactive` are one locked section each;
`DeleteIfInactive` uses the clock reading of its cycle's start, any time up to
now. The constant `Kind` chooses between the maps, which differ in the
threshold for a hit (the request's limit, or `global_limit *
abuse_multiplier`). `granted`, `refused`, `late` and `dropped` are history
variables for the properties; no guard reads them.

### FixedWindow

What a fixed-window limiter promises, per key and slot: `Grant` the n-th request
only if n is at most limit + burst, `Refuse` only when it is more. A key that had
a late request or an unconditional `Delete` is `disturbed`: it may be granted
more than the rule allows, and is still never refused below it. `CounterMap` implements it
(`FixedWindowSpec`): `granted` and `refused` are mapped to themselves, a key is
disturbed once `late[k] + dropped[k] > 0`, and all other steps (clock, calls,
collecting) are stuttering. Collecting inactive counters disturbs nothing. A step of
`FixedWindow` obeys one limit of `Limits`: the rule is exact where there is one limit
(the unknown map, `unknown_map`), and for a key whose limit changes it says that each
answer is right for one of the limits.

### RateLimiter

State: `known`, `unknown` (the maps), `db1` (redisDB1), `abuse` (redisDB2 and
redisDB3, keyed by the prefixed identity), `healthy`, `req` (the request each
goroutine serves and how far it is), `run` (the state of the loop's cycle and of
the final one: step, clock reading, what is left of the snapshot, the copy being
transferred), `phase` (shutdown).

| code | actions |
|---|---|
| `Decide`, `decideWithKey`, `decideWithIP` | `Arrive`, `LookupLimit`, `ReadClock`, `RecordRequest` |
| `Run`, `runKnown` | `RunStart`, `KnownExists`, `KnownDelete` |
| `runUnknown`, `transfer` | `UnknownStart`, `UnknownGet`, `UnknownSkip`, `Upsert`, `Forget`, `Finish` |
| `observe` | `Succeeds`, `Fails`, conjuncts of every Redis operation |
| `/readyz`, `updateRedisGauges`, admin pages | `Readyz`, `UpdateRedisGauges`, `Scan` (their effect on the health flag) |
| admin delete and purge of redisDB1 | `DeleteLimits`, `PurgeLimits` |
| shutdown in `main.run` | `Sigterm`, `Drained`, `DrainTimeout`, `Cancel`, `Exit` |
| external | `Tick` (time), `SetLimit` (whoever writes redisDB1) |

Adjacent statements are one step where no other goroutine can tell: the clock
reading of `Run` and the snapshot of the known map; `IsHealthy` and the snapshot
of the unknown map; an operation and its `observe`. A snapshot keeps what the
cycle uses of it (the keys; whether `AbuseHits` reach the threshold). The order
in which a snapshot is walked is arbitrary, like Go's map order. A failed write
may or may not have been applied. Operations that use `rootCtx` fail once it is
cancelled.

`MaxLag` bounds the time between reading the clock and getting the mutex. The
runs use a lag of one window, the proofs any lag of less than two windows. The
bound is exact: with a lag of two windows a request can move a counter's clock
so far back that the cycle under way collects it at once, and TLC finds
`CollectedEachCycle` and `FlushedAtExit` violated.

### Service

`RateLimiter` says what the service stores, `CounterMap` what one map answers.
`Service` joins them: it adds to `RateLimiter`, for each of the two maps, the
history `CounterMap` keeps (requests that called it, grants and refusals per
identity and slot, late requests, unconditional deletions). `NoteCall`,
`NoteDecision` and `NoteDrop` write it beside `ReadClock`, `RecordRequest` and
`KnownDelete`; all other steps are `Silent`. No guard reads it, so every
behaviour of `RateLimiter` is one of `Service` and the other way round.

The refinement (`KnownMapSpec`, `UnknownMapSpec`) maps a request that has read the
clock for a map and waits for its mutex to a call of `CounterMap` (`CallsOf`), the
map to `counters`, its history to the history. A lookup, a failure, an edit of
redisDB1, a transfer or a step of the shutdown is then a stutter of both maps, and a
cleanup step one `DeleteIfInactive` or one `Delete` of one of them. With it every
theorem about `CounterMap` is one about the service, and properties can be stated
that neither module can express alone: what a key gets whose requests go now to
one map and now to the other (`KeyBudget`, `SteadyKeyBudget`, `KeyNoEarlyBlock`), and
that a recorded identity had been refused (`RecordedWereRefused`).

### AbuseTransfer

The same cleanup as in `RateLimiter`, seen over hours instead of requests. A
counter is whether it is an abuser's and how long it has been idle; a record
is its remaining TTL; every time is a countdown or a capped age, so the clock
is not bounded. `Tick` moves the ticker (whose channel holds one tick), ages
counters and expires records. `RunStart`, `UnknownStart`, `Transfer`, `Forget`,
`Skip` and `Finish` are `Run`; `RemoveRecords` is the administrator's delete or
purge; `Observe` is any other Redis operation; `Crash` and `Restart` lose the
memory and keep Redis. Assumption on timing: a cycle takes at most `CycleTime`,
less than an interval (its operations have timeouts of 200 ms), and starts when
its tick is due.

### Admin

`scan` is one listing on its way: `Open` or `Follow` (the pager's link), then
`Scan` (one SCAN), `Read` (one HGETALL) and `Render` (filter, sort, page), with
changes of the database in between. Redis' SCAN is external: keys present
throughout are returned at least once, batches may be empty, one may repeat a
key. `Sorted` is the set of all orders the comparison allows, because
`sort.Slice` is not stable. Page arithmetic is int (`WrapInt`). `tab` is the
page the operator looks at with the token in its forms; `Delete`, `Purge`,
`PurgeBanner`, `PurgeConfirmed` and `Refused` are the POSTs from it. A `Restart`
changes the token and leaves the tab. `Delete` takes any names, as `handleDelete`
does not ask what the page had shown. Methods other than POST and malformed
forms are refused without a change and are left out, like the effect of the
scans on the health flag, which is `RateLimiter`'s `Scan`.

### Lifecycle

Processes over one socket path (a file that exists or not, the process whose
inode it is, its mode) and the TCP addresses of admin and metrics. `Stat`,
`Remove`, `Bind`, `Chmod` are `listen` for a unix socket; `Serve`,
`ListenAndServe` the server goroutines, which may run late, also after
`Shutdown` was called; `Notify`, `Sigterm`, `ShutdownCheck`, `Drained`,
`ShutdownTcp`, `Cancel`, `Exit` the rest of `main.run`. Closing a unix listener
unlinks the path by name. `Kill` is SIGKILL, a crash, or SIGTERM before
`signal.Notify`. With `Overlap` a process may start while another runs.

### Check

One request through `ServeHTTP`. A header or query value is a model value;
`Empty` is both "" and missing, as `Get` reports them. `X-Original-URI` may be
missing or unparseable, `X-Real-IP` padded, invalid or missing. `Decide` may
take either decision; `Panic` may strike before every step.

## Runs

`service`, `admin`, `page_overflow` and `abuse_transfer` check for deadlock. The
others set `CHECK_DEADLOCK FALSE`: a request, the bounded clock and traffic, or
the process really ends, and in `Lifecycle` a service that is up just waits.

| run | shows |
|---|---|
| `known_map` | known map, two keys, two goroutines, limits 1 and 2, burst 1, 4 requests over 4 one-second slots: `SlotBudget` and `HitsExact` under late requests, deletion and collection; refinement of `FixedWindow` |
| `unknown_map` | unknown map, one key, three goroutines, half-second ticks, 6 requests over 4 slots: `SlotBudget`, `NoEarlyBlock`, `HitsExact`, `AllowedTrafficNotAbusive`; refinement of `FixedWindow` |
| `service` | one key whose limit exists, is unparseable, is edited or deleted and whose requests so move between the maps, two goroutines, 3 requests over 3 slots, one Redis failure, the cleanup loop: both maps are `CounterMap`s, their answers are `FixedWindow`'s; `KeyBudget`, `SteadyKeyBudget`, `KeyNoEarlyBlock`, `RecordedWereRefused`, `LimitedKeysNeverAbusers`, `CollectedEachCycle` |
| `shutdown` | an address, 3 requests over 4 slots, SIGTERM at any time, a failure, a drain that may time out, loop and final cycle overlapping, with fairness: `FlushedAtExit`, `RecordsAreAbusers`, `TransferredWhenDropped`, `EventuallyStopped`, `InactiveCollected` |
| `abuse_transfer` | two identities, one failure, one removal, one crash, time unbounded: `RecordedInTime`, `RecordsExpire` |
| `admin` | two databases of up to three entries in every content, page size 2, two events (a change, a failed operation, a repeated key, a restart) anywhere: `ListingComplete`, `NoGhostOfPresent`, `PagesCoverAll`, `RendersEveryPage`, `RemovalsIntended` |
| `lifecycle` | successive processes, three signals, two failing system calls: `ReadyMeansReachable`, `EventuallyReachable`, `EventuallyEnds` |
| `check` | all requests over two keys and an address: `IdentityAsDocumented`, `FailOpen`, `Answered` |

What `RecordedInTime` says of the settings: a record is written at most one
interval and one cycle after it was earned (one interval more after a Redis
failure, because the first cycle finds the flag down), and stays as long as its
counter if `abuse_ttl > cleanup_interval + ` the time of a cycle. `Validate`
does not ask for that and the defaults (15m and 15m) do not satisfy it: with
`Ttl` lowered to `Interval + CycleTime` and the condition removed TLC finds an
active abuser that is off the list between two cycles. Both delays are
exact: with one tick less the property fails.

Why the bounds are enough for the interesting cases: a hit needs a full slot and
a request in a later one, so with `GlobalLimit = AbuseMultiplier = 1` and a
transfer threshold of 1 three requests over two slots make an abuser, and the third
can race with the cycle that took the counter for an innocent's; a counter is
inactive after two windows, so in `shutdown` four clock values let it earn a hit and
then be collected (only a fourth request can be counted between the copy of an abuser's counter and its
`DeleteIfInactive`; with it the run takes three times as long and passes as well, and
`TransferredWhenDroppedHolds` covers any number); one failure in the
right place shows every error path, as no code path depends on two. In
`AbuseTransfer` an interval of two ticks and a cycle of one suffice to put a
failure, a removal or an expiry on either side of every step. No run reaches the largest
int64: with sums that wrap `NoEarlyBlock` and the refinement of `FixedWindow` are false
(hypothesis `NoOverflow` of their theorems), while `SlotBudget` and `HitsExact` are proved
for the wrapping arithmetic. In `Admin` three
entries and a page size of two give full, partial, empty and out-of-range pages.
In `Lifecycle` three signals allow a process to be killed in the middle of the
start that follows a crash.
Goroutines (and the keys of `CounterMap`) are interchangeable, so symmetry is
used in safety runs (a refinement without fairness is one), never with liveness.
`service` has one key; that a failed `LimitExists` of one key keeps no other is
`CollectedEachCycleHolds`, and TLC confirms it for two keys, two requests and no edit.
The third request suffices there: two are needed to exceed an allowance of
one in a slot, and a third to meet what they, a cleanup step or a move to the other
map left behind. `shutdown` runs the same specification with fairness; its properties do
not mention the history, so its view leaves the history out of a state's identity.

Fairness (`FairSpec`, `FairServiceSpec`): a cleanup cycle whose operations all have timeouts makes
progress; the ticker fires for ever; the main goroutine goes on after a drain
(`Drained`, `DrainTimeout`), the final cycle (`Cancel`) and `wg.Wait` (`Exit`).
`Exit` is strong: after cancellation `Loop`'s select may still find a tick
ready and Go chooses at random, so the cycle may run again, but not for ever.
Nothing is assumed of requests, of Redis or of signals. `Check` assumes that a
handler goroutine keeps running. `AbuseTransfer` assumes that time passes, the
loop runs and a crashed process is restarted; `Lifecycle` that every goroutine
that can run does and that a process that ended is started again (the unit
file has `Restart=always`).

### Disagreements shown

Each is a run that TLC must find violated; `findings` in `PROJECT.json` quotes
the text it disagrees with.

| run | property | what happens |
|---|---|---|
| `late_request` | `FixedWindowLimit` | a goroutine that got the mutex after its slot had ended moves the counter back a slot, and a slot is granted more than limit + burst |
| `stale_health` | `FinalFlush` | the health flag left false by an earlier lookup makes the final cleanup skip every transfer though Redis answers |
| `page_overflow` | `RendersEveryPage` | the offset of a very large page number overflows, the slice bounds are negative and the handler panics |
| `socket_takeover` | `OneListener` | a process started while its predecessor still listens removes the socket and binds without an error; the predecessor's `Close` later unlinks the new socket |

Five properties hold only under a condition that the repository's texts do not
mention; it is part of the property or a hypothesis of its theorem:

- `LimitedKeysNeverAbusers` (docs/specification.md:197): while no lookup failed and
  redisDB1 was not edited. A failed lookup counts a limited key in the unknown map.
- `CollectedEachCycle` (docs/specification.md:176): a failed `LimitExists` keeps
  that inactive known counter for another cycle, that one and no other.
- `AllowedTrafficNotAbusive` (docs/specification.md:328): needs `global_limit + burst
  <= global_limit * abuse_multiplier`; `Validate` accepts more, for example
  global_limit 2, abuse_multiplier 1, burst 1. `unknown_map` lies on the boundary,
  where both sides are equal.
- `RecordedWereRefused`: the same relation of burst and multiplier. Otherwise a
  client that was never answered 403 can be put on the abuse lists.
- `NoGhostOfPresent`: `parseInt64`'s comment (redis.go:256-262) attributes empty
  fields to an external mutation; an ordinary expiry between SCAN and HGETALL
  produces them as well.

A cycle of the loop that overlaps the final one may also overwrite the final
record with an older copy of the same counter: `FlushedAtExit` promises that a
record exists, not that it is the latest.

`RecordsAreAbusers` says two things: a recorded identity has had a counter at the
threshold (`earned`), always; and the record itself shows it, after an orderly drain.
If the drain times out, a request may be counted while both cycles run, so a counter
can be collected and created anew between a cycle's snapshot and its `Get`; the record
written is then that of the young counter of a real abuser.

In `RateLimiter` nothing removes an abuse record: `abuse` is what has been written
to redisDB2 and redisDB3, and `FlushedAtExit` and `TransferredWhenDropped` promise the
write. How long the record then stays, with its TTL and the administrator's removals, is
`AbuseTransfer`'s `RecordedInTime` and `RecordsExpire`.

## Proofs

Eight modules hold theorems. Each is about every value of the constants that
satisfies the assumptions named in the modules (the ranges `Config.Validate`
enforces, and the timing of `AbuseTransfer`); what a theorem needs beyond them
is a hypothesis of the theorem, listed here. Every inductive invariant was checked by TLC
on the instances of the runs before it was proved.

| module | theorem | property | hypothesis |
|---|---|---|---|
| `CounterMapProofs` | `TypeCorrect` | `TypeOK` | |
| | `SlotBudgetHolds` | `SlotBudget` | |
| | `NoEarlyBlockHolds` | `NoEarlyBlock` | `NoOverflow`: limit + burst fits |
| | `AllowedTrafficHolds` | `AllowedTrafficNotAbusive` | `BurstBelowAbuse` |
| | `ImplementsFixedWindow` | `FixedWindowSpec` | `NoOverflow` |
| | `HitsExactHolds` | `HitsExact` | |
| `RateLimiterProofs` | `TypeCorrect` | `TypeOK` | |
| | `RecordsAreAbusersHolds` | `RecordsAreAbusers` | |
| | `LimitedKeysNeverAbusersHolds` | `LimitedKeysNeverAbusers` | |
| | `FlushedAtExitHolds` | `FlushedAtExit` | `LagBound`: lag below two windows |
| | `TransferredWhenDroppedHolds` | `TransferredWhenDropped` | `LagBound` |
| | `CollectedEachCycleHolds` | `CollectedEachCycle` | `LagBound` |
| `ServiceProofs` | `KnownMapImplemented` | `KnownMapSpec` | |
| | `UnknownMapImplemented` | `UnknownMapSpec` | |
| | `AnswersFixedWindowHolds` | `AnswersFixedWindow` | `SumsFit`: both limits + burst fit |
| | `KeyBudgetHolds` | `KeyBudget` | |
| | `SteadyKeyBudgetHolds` | `SteadyKeyBudget` | |
| | `KeyNoEarlyBlockHolds` | `KeyNoEarlyBlock` | `SumsFit` |
| | `RecordedWereRefusedHolds` | `RecordedWereRefused` | `GlobalLimit + Burst <= AbuseThreshold` |
| `AbuseTransferProofs` | `TypeCorrect` | `TypeOK` | |
| | `RecordedInTimeHolds` | `RecordedInTime` | (`Ttl > Interval + CycleTime` is in the property) |
| `AdminProofs` | `TypeCorrect` | `TypeOK` | |
| | `ListingCompleteHolds` | `ListingComplete` | |
| | `NoGhostOfPresentHolds` | `NoGhostOfPresent` | |
| | `RemovalsIntendedHolds` | `RemovalsIntended` | |
| | `RendersEveryPageHolds` | `RendersEveryPage` | `PagesFit`: page numbers and rows fit an int |
| | `PagesCoverAllHolds` | `PagesCoverAll` | |
| `LifecycleProofs` | `TypeCorrect` | `TypeOK` | |
| | `ReadyMeansReachableHolds` | `ReadyMeansReachable` | no `Overlap` |
| | `OneListenerAlone` | `OneListener` | no `Overlap` |
| `CheckProofs` | `FailOpenHolds` | `FailOpen` | |
| | `IdentityHolds` | `IdentityAsDocumented` | |

The arguments, and why the properties alone are not inductive:

**CounterMap.** That a slot has been granted little says nothing about what its
counter will still grant. `BudgetInv` adds `SlotMatchesClock` (a counter's slot
is the slot of its last request) and `WithinAllowance` (what a slot has
been granted is bounded by the allowances used up before the counter's current
count, plus that count). A new count of a slot only begins with a first request of
the slot, after a late request, or after a removal; a counter removed by
`DeleteIfInactive` belongs to a slot that has ended, so no allowance is spent.
`EarlyInv` adds `CountIsSeen`: `WindowCount` never exceeds the requests of its
slot that were seen. `NoOverflow` is needed: for a limit near the largest int64,
which `ParseInt` accepts, the sum wraps and every request is refused. `CleanInv`
adds `CleanCounters`: as long as nothing was refused, `WindowCount` is at most
limit + burst.

**FixedWindow.** `ExactInv`: for an undisturbed key with a counter, `WindowCount`
is exactly the number of requests of its slot that were seen; without one, none
of the current slot was. Every step then maps to a grant or a refusal by the
rule, to a disturbance, or to a stutter. `HitsExact` is a cardinality: `HitsInv`
follows the set of closed slots above a threshold through the one slot change
that may add an element to it (with several limits, the sets for the largest and
the smallest).

**RateLimiter.** The property of a record is about a decision taken on a snapshot
and used several steps later. `SnapInv` (a cycle visits an identity once) and
`VerdictInv` (whom the snapshot calls an abuser still is one, or is gone) give
`RecordsAreAbusers` for an orderly drain; `EarnedInv` (whoever is an abuser in the map,
in a snapshot's verdict or in the copy to be written once reached the threshold) gives it also after
a timeout; `PhaseInv` ties the two cycles to the phases of the shutdown.
`LimitedInv` keeps a limited key out of the unknown map, the lists, the requests
past their lookup and the snapshots. For what cleanup may drop, `KeepInv` joins
`LagInv` (a request at the lock has a reading at most `MaxLag` old), so that a counter
touched during a cycle is `Fresh` and survives `DeleteIfInactive`; `SkipInv` and
`CopyInv` (what was cleared, or copied, is as it was or fresh); `CollectInv` (an
inactive counter is among what the cycle has left to do, or its own operation failed); `HealthInv` (without
a failure the flag is up) and `FlushInv` (an abuser is recorded, or a cycle that
will record it is still to come).

**Service.** `MapInv` is what the simulation of a step needs: the types of both
layers (`TypeInv`, `HistOK`), `LimitsInv` (a request at the lock has a limit of its
map: one of redisDB1, or the global one) and `RoomInv`, a counting argument: the
calls of a map so far and the requests that have not read the clock yet are together
no more than the requests that arrived, so a call of `CounterMap` is within its bound. `KnownStep`
and `UnknownStep` then map each action to one of `CounterMap` or a stutter; the
theorems of `CounterMapProofs`, instantiated for either map, give the budgets and
the refinement of `FixedWindow`, after their assumptions on the constants are derived
(`KnownConstants`, `UnknownConstants`). `KeyBudget` also needs `DropInv`: nothing is
ever removed unconditionally from the unknown map. `SteadyInv` extends
`LimitedInv`: without failures and edits a limited key is counted in the known
map only and no cycle is about to delete its counter. `RefusedInv` carries the
refusal behind every hit from the counter to the verdict in a snapshot and the copy
to be written, and so to the record; it uses `AllowedTrafficNotAbusive`
of the unknown map.

**AbuseTransfer.** `ClockInv` ties a cycle to the tick that began it: its age is
the ticker's, and it ends before the next tick. `AgeInv` then distinguishes an
abuser whose turn in the due or running cycle is still to come (`Awaited`) from
one whose turn is over: the first was listed by the previous cycle, so its
record lives at least `Ttl - Interval` minus the ticker's age, or it waits no longer
than an interval and that age; the second the same with one interval less. A
failure adds an interval (`Slack`), because of `DownInv`: a flag that is down
when a cycle reads it was lowered after the last but one tick. A tick never
drops a record still needed, which is where `Ttl > Interval + CycleTime` enters.

**Admin.** `ListInv`: a key present throughout (`firm`) has its row, is in the
batch being read, or is still owed by SCAN, unless its HGETALL failed; at the
end of a scan nothing is owed. `CountInv` bounds the rows by the names plus the
repetitions: rows, the rest of the batch and the names not yet returned
together never grow without an event. With `PageInv` this keeps every page that a
"next" link leads to inside an int. `page_overflow` shows that the condition on
the page numbers of addresses cannot be dropped.
`PagesCoverAll` follows a trail of "next" links over several independent scans,
each sorted by itself. `PlaceInOrder`: the place of a row in any sorted sequence
without repetitions is the number of rows that come before it, by counting and
not by induction; so two sorts of the same rows agree (`SortedUnique`).
`TrailInv`: while the database stands still and nothing fails, the rows shown
since page 1 are the matching entries whose place is before the offset of the next page
(`Begins`), and the page without a next link shows the rest (`BeginsAll`). No
hypothesis on the page numbers is needed: where the end of a page wraps, the slice
panics, and a panic ends the trail.

**Lifecycle.** `LifeInv`: at most one process runs (`Alone`), and where it is in
`listen`, serving or closing determines who owns the path and in which mode
(`Local`). `socket_takeover` shows that both theorems fail with an overlap.

**Check.** `HandlerInv` relates the answer and the identity counted to the step
the handler has reached.

Only model-checked:

- liveness (`EventuallyStopped`, `InactiveCollected`, `RecordsExpire`,
  `EventuallyReachable`, `EventuallyEnds`, `Answered`): fairness and `ENABLED` are
  out of the prover's reach;
- the properties of the violation runs in the form the texts state them,
  which the code does not satisfy.

## Not modelled

Metrics, logs, HTML, HTTP parsing, the wording of answers. The status page and the
top-25 tables of the admin pages, which only display counters. The strings of the
configuration and `SocketModeParsed`: of `Validate` the numeric ranges and the
burst check are the assumptions of `Counter`. A TCP address for `/check`. The
wall clock is monotone. Panics are modelled in the handler and in the rendering of a
page only. The effect of a stop on the admin's requests in flight.

## Plan

1. Done: `Counter`, `CounterMap`, `FixedWindow`, `RateLimiter`, `Service`,
   `AbuseTransfer`, `Admin`, `Lifecycle`, `Check`, with the theorems above.
2. Done: every invariant and every action property of the passing runs is also a
   theorem; what remains with TLC is listed above.
