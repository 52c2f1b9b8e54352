----------------------------- MODULE CounterMap -----------------------------
(***************************************************************************)
(* One map of package internal/counter (KnownMap or UnknownMap) used by    *)
(* several request goroutines and by cleanup.                              *)
(*                                                                         *)
(* RecordRequest reads the clock BEFORE it takes the map's mutex, so it is *)
(* two steps: Call (the reading) and RecordRequest (the locked section).   *)
(* Time may pass and other goroutines may run in between.  Delete and      *)
(* DeleteIfInactive are one locked section each; cleanup read the clock    *)
(* for the latter when its cycle began, at any earlier time.               *)
(*                                                                         *)
(* granted, refused, late and dropped are history variables.               *)
(***************************************************************************)
EXTENDS Counter, FiniteSets

CONSTANTS
  Kind,         \* "known" or "unknown": which of the two maps
  Keys,         \* the identities that send requests
  Procs,        \* the goroutines that serve them
  Limits,       \* the limits a request may carry
  MinLimit,     \* bounds of Limits
  MaxLimit,
  MaxNow,       \* bound: the last clock tick
  MaxRequests   \* bound: the number of requests

ASSUME KindAssumption   == Kind \in {"known", "unknown"}
ASSUME BoundsAssumption == MaxNow \in Nat /\ MaxRequests \in Nat
ASSUME LimitsAssumption ==
  /\ MinLimit \in Int64 /\ MaxLimit \in 0..MaxInt
  /\ Limits \subseteq MinLimit..MaxLimit
  /\ Kind = "unknown" => Limits = {GlobalLimit}

VARIABLES
  now,       \* the clock
  counters,  \* the map: a function on the keys it holds
  calls,     \* goroutine -> the request it has read the clock for
  issued,    \* number of requests so far
  granted,   \* key -> slot -> requests of that slot let through
  refused,   \* key -> slot -> requests of that slot answered 403
  late,      \* key -> requests recorded after the slot of their reading ended
  dropped    \* key -> counters removed without regard to their activity

vars == <<now, counters, calls, issued, granted, refused, late, dropped>>

Slots == 0..SlotOf(MaxNow)
Requests == [key : Keys, time : Nat, limit : Limits]

\* What a slot's count is compared with when the slot is closed.
ThresholdIsLimit(limit) == limit
Threshold(limit) == IF Kind = "known" THEN limit ELSE AbuseThreshold

seen(k, x) == granted[k][x] + refused[k][x]
-----------------------------------------------------------------------------
Init == /\ now = 0
        /\ counters = << >>
        /\ calls = << >>
        /\ issued = 0
        /\ granted = [k \in Keys |-> [x \in Slots |-> 0]]
        /\ refused = [k \in Keys |-> [x \in Slots |-> 0]]
        /\ late = [k \in Keys |-> 0]
        /\ dropped = [k \in Keys |-> 0]

Tick == /\ now < MaxNow
        /\ now' = now + 1
        /\ UNCHANGED <<counters, calls, issued, granted, refused, late, dropped>>

\* RecordRequest up to m.mu.Lock().
Call(p, k, limit) ==
  /\ p \notin DOMAIN calls
  /\ issued < MaxRequests
  /\ issued' = issued + 1
  /\ calls' = Put(calls, p, [key |-> k, time |-> now, limit |-> limit])
  /\ UNCHANGED <<now, counters, granted, refused, late, dropped>>

\* RecordRequest from m.mu.Lock() to the deferred unlock.
RecordRequest(p) ==
  /\ p \in DOMAIN calls
  /\ LET r == calls[p]
         k == r.key
         s == SlotOf(r.time)
         old == IF k \in DOMAIN counters THEN counters[k] ELSE NewCounter(r.time)
         new == Recorded(old, r.time, r.limit, Threshold(r.limit))
     IN  /\ counters' = Put(counters, k, new)
         /\ IF Allowed(new.WindowCount, r.limit)
              THEN /\ granted' = [granted EXCEPT ![k][s] = @ + 1]
                   /\ UNCHANGED refused
              ELSE /\ refused' = [refused EXCEPT ![k][s] = @ + 1]
                   /\ UNCHANGED granted
         /\ late' = [late EXCEPT ![k] = IF s < SlotOf(now) THEN @ + 1 ELSE @]
  /\ calls' = Without(calls, p)
  /\ UNCHANGED <<now, issued, dropped>>

DeleteNil(k) ==
  /\ k \in DOMAIN counters
  /\ counters' = Put(counters, k, << >>)
  /\ dropped' = [dropped EXCEPT ![k] = @ + 1]
  /\ UNCHANGED <<now, calls, issued, granted, refused, late>>
Delete(k) ==
  /\ k \in DOMAIN counters
  /\ counters' = Without(counters, k)
  /\ dropped' = [dropped EXCEPT ![k] = @ + 1]
  /\ UNCHANGED <<now, calls, issued, granted, refused, late>>

DeleteIfInactive(k, t) ==
  /\ k \in DOMAIN counters
  /\ IsInactive(counters[k], t)
  /\ counters' = Without(counters, k)
  /\ UNCHANGED <<now, calls, issued, granted, refused, late, dropped>>

Next == \/ Tick
        \/ \E p \in Procs, k \in Keys, limit \in Limits : Call(p, k, limit)
        \/ \E p \in Procs : RecordRequest(p)
        \/ \E k \in Keys : Delete(k)
        \/ \E k \in Keys, t \in 0..now : DeleteIfInactive(k, t)

Spec == Init /\ [][Next]_vars
-----------------------------------------------------------------------------
\* Every variable has its type: times never lie in the future, the maps hold
\* known keys and the histories cover every slot of the run.
TypeOK ==
  /\ now \in 0..MaxNow
  /\ DOMAIN counters \subseteq Keys
  /\ \A k \in DOMAIN counters : counters[k] \in Counters
  /\ DOMAIN calls \subseteq Procs
  /\ \A p \in DOMAIN calls : calls[p] \in Requests /\ calls[p].time <= now
  /\ issued \in Nat
  /\ granted \in [Keys -> [Slots -> Nat]]
  /\ refused \in [Keys -> [Slots -> Nat]]
  /\ late \in [Keys -> Nat]
  /\ dropped \in [Keys -> Nat]

\* What really bounds the requests RecordRequest lets through in one slot:
\* limit + burst, once more for every request recorded after its slot ended
\* (its stale clock reading takes the counter back to an earlier slot and
\* zeroes WindowCount) and once more for every unconditional Delete.  In
\* particular DeleteIfInactive, whenever it comes, costs nothing.
SlotBudget ==
  \A k \in Keys, x \in Slots :
    granted[k][x] <= (MaxLimit + Burst) * (1 + late[k] + dropped[k])

\* The documented fixed-window promise: at most limit + burst requests of a
\* slot pass.  Checked without Delete steps having happened.
FixedWindowLimit ==
  \A k \in Keys, x \in Slots :
    dropped[k] = 0 => granted[k][x] <= MaxLimit + Burst

\* RecordRequest never answers 403 in a slot in which the client has not
\* already used up limit + burst, whatever the interleaving.
NoEarlyBlock ==
  \A k \in Keys, x \in Slots :
    refused[k][x] > 0 => seen(k, x) > MinLimit + Burst

\* The counter map is a fixed-window limiter: while no request of a key is
\* recorded after its slot has ended and its counter is not deleted, every
\* decision is the one the number of requests in the slot calls for.  Reset on
\* a slot change and collection of inactive counters, with whatever stale
\* clock reading cleanup uses, are invisible.
Limiter == INSTANCE FixedWindow
             WITH disturbed <- [k \in Keys |-> late[k] + dropped[k] > 0]
FixedWindowSpec == Limiter!Spec

\* The number of violation/abuse hits is the number of closed slots, since
\* the counter exists, whose traffic exceeded the threshold: exact for one
\* limit; with several, a slot is judged against the limit of the request
\* that closes it, so the thresholds bracket the count.
HitsExact ==
  \A k \in DOMAIN counters :
    LET c == counters[k]
        closed == SlotOf(c.FirstRequest)..(c.Slot - 1)
        above(n) == Cardinality({x \in closed : seen(k, x) > n})
    IN  late[k] = 0 /\ dropped[k] = 0 =>
          c.Hits \in above(Threshold(MaxLimit))..above(Threshold(MinLimit))

\* A client none of whose requests was refused has no abuse hit.
AllowedTrafficNotAbusive ==
  \A k \in DOMAIN counters :
    (\A x \in Slots : refused[k][x] = 0) => counters[k].Hits = 0
=============================================================================
