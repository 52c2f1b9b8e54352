----------------------------- MODULE FixedWindow -----------------------------
(***************************************************************************)
(* What a fixed-window limiter promises its clients, without counters,     *)
(* mutexes or cleanup: the n-th request of a key in a slot passes exactly  *)
(* if n <= limit + burst.  A key may become disturbed (its counter was     *)
(* taken back or thrown away); from then on it may be granted more, but    *)
(* still is never refused a request that the rule lets pass.               *)
(***************************************************************************)
EXTENDS Integers

CONSTANTS Keys, Slots, Limits, Burst

VARIABLES
  granted,    \* key -> slot -> requests let through
  refused,    \* key -> slot -> requests refused
  disturbed   \* key -> BOOLEAN

fwVars == <<granted, refused, disturbed>>

Zero == [k \in Keys |-> [x \in Slots |-> 0]]

Init == /\ granted = Zero
        /\ refused = Zero
        /\ disturbed = [k \in Keys |-> FALSE]

Disturbing(k) == disturbed' \in {disturbed, [disturbed EXCEPT ![k] = TRUE]}

Within(k, x, limit) == granted[k][x] + refused[k][x] + 1 <= limit + Burst

Grant(k, x, limit) ==
  /\ Disturbing(k)
  /\ Within(k, x, limit) \/ disturbed'[k]
  /\ granted' = [granted EXCEPT ![k][x] = @ + 1]
  /\ UNCHANGED refused

Refuse(k, x, limit) ==
  /\ Disturbing(k)
  /\ ~Within(k, x, limit)
  /\ refused' = [refused EXCEPT ![k][x] = @ + 1]
  /\ UNCHANGED granted

Disturb(k) ==
  /\ disturbed' = [disturbed EXCEPT ![k] = TRUE]
  /\ UNCHANGED <<granted, refused>>

Next == \/ \E k \in Keys, x \in Slots, limit \in Limits :
             Grant(k, x, limit) \/ Refuse(k, x, limit)
        \/ \E k \in Keys : Disturb(k)

Spec == Init /\ [][Next]_fwVars
=============================================================================
