------------------------------- MODULE Admin -------------------------------
(***************************************************************************)
(* The admin pages over redisDB1..3: a listing (SCAN in batches, HGETALL   *)
(* per key, filter, sort, page), Delete of selected rows, the two-step     *)
(* Purge, and the CSRF token of the process.                               *)
(*                                                                         *)
(* One operator sees a page (tab) or waits for a listing (scan); cleanup,  *)
(* the owners of limits, other operators and Redis' expiry change the      *)
(* databases meanwhile.  Redis is external: SCAN returns every key present *)
(* during the whole iteration at least once, in any number of batches,     *)
(* also empty ones, and may repeat a key.  An entry is reduced to its name *)
(* (a number, ordered as the strings are) and its last_seen.               *)
(***************************************************************************)
EXTENDS Integers, SequencesExt

CONSTANTS
  Dbs,          \* subset of {"limits", "abuse_keys", "abuse_ips"}
  Ids,          \* names of entries, positive numbers
  Times,        \* values of last_seen
  Queries,      \* what a search matches: sets of names; Ids for no search
  Pages,        \* the page numbers an URL may carry
  PageSize,     \* pageSize
  MaxInt,       \* the largest int
  MaxEvents     \* bound: changes of the databases by others, failed Redis
                \* operations, batches that repeat keys and restarts, together

ASSUME AdminAssumption ==
  /\ Dbs \subseteq {"limits", "abuse_keys", "abuse_ips"}
  /\ Ids \subseteq Nat \ {0} /\ Times \subseteq Nat \ {0} /\ Times # {}
  /\ Queries \subseteq SUBSET Ids
  /\ MaxEvents \in Nat /\ MaxInt \in Nat
  /\ PageSize \in 1..MaxInt /\ Pages \subseteq (-MaxInt - 1)..MaxInt

VARIABLES
  db,       \* database -> name -> last_seen
  token,    \* csrfToken of the running process
  scan,     \* the listing being computed
  tab,      \* the page the operator sees
  trail,    \* history: the rows shown since page 1, following "next"
  crashed,  \* history: rendering a page panicked
  events    \* bounded

vars == <<db, token, scan, tab, trail, crashed, events>>

NoScan == [step |-> "none"]
NoTab == [kind |-> "none"]
NoTrail == [db |-> "none", q |-> {}, shown |-> << >>, steady |-> FALSE]

\* last_seen as the admin reads it: a missing or unparseable field is 0.
Missing == 0

\* The values of an entry that count: a limit has no last_seen.
Entries(d) == IF d = "limits" THEN {CHOOSE t \in Times : TRUE} ELSE Times

Init == /\ db \in [Dbs -> UNION {[S -> Times] : S \in SUBSET Ids}]
        /\ \A d \in Dbs : \A id \in DOMAIN db[d] : db[d][id] \in Entries(d)
        /\ token = 0
        /\ scan = NoScan /\ tab = NoTab /\ trail = NoTrail
        /\ crashed = FALSE
        /\ events = 0

Event == events < MaxEvents /\ events' = events + 1
-----------------------------------------------------------------------------
(* Changes of a database, by whomever: a listing on its way knows which     *)
(* keys were there all the time (firm), SCAN guarantees only those.         *)

Changed(d, content) ==
  /\ db' = [db EXCEPT ![d] = content]
  /\ scan' = IF scan.step # "none" /\ scan.db = d
               THEN [scan EXCEPT !.firm = @ \cap DOMAIN content,
                                 !.todo = @ \cap DOMAIN content]
               ELSE scan
  /\ trail' = IF trail.db = d THEN [trail EXCEPT !.steady = FALSE] ELSE trail

\* An upsert by cleanup or a new limit; an expiry or a removal by others.
Upsert(d, id, t) ==
  /\ Event
  /\ Changed(d, [i \in DOMAIN db[d] \cup {id} |-> IF i = id THEN t ELSE db[d][i]])
  /\ UNCHANGED <<token, tab, crashed>>
Expire(d, id) ==
  /\ Event
  /\ Changed(d, [i \in DOMAIN db[d] \ {id} |-> db[d][i]])
  /\ UNCHANGED <<token, tab, crashed>>

\* A restarted process draws a new token; pages in the browser survive.
Restart ==
  /\ Event
  /\ token' = token + 1
  /\ scan' = NoScan
  /\ trail' = IF scan = NoScan THEN trail ELSE NoTrail
  /\ UNCHANGED <<db, tab, crashed>>
-----------------------------------------------------------------------------
(* handleLimits and handleAbuse.                                            *)

StartScan(d, page, q) ==
  /\ scan.step = "none"
  /\ tab' = NoTab
  /\ scan' = [step |-> "scan", db |-> d, page |-> page, q |-> q,
              todo |-> DOMAIN db[d], returned |-> {}, done |-> FALSE, batch |-> {},
              rows |-> {}, firm |-> DOMAIN db[d], unread |-> {}]

\* An address with any page number; what is no positive number means page 1.
Open(d, n, q) ==
  LET page == IF n < 1 THEN 1 ELSE n
  IN  /\ StartScan(d, page, q)
      /\ trail' = [db |-> d, q |-> q, shown |-> << >>, steady |-> page = 1]
      /\ UNCHANGED <<db, token, crashed, events>>

\* The "next" link keeps the search.
Follow ==
  /\ tab.kind = "list" /\ tab.hasNext
  /\ StartScan(tab.db, tab.page + 1, tab.q)
  /\ UNCHANGED <<db, token, trail, crashed, events>>

\* SCAN: the cursor is 0 only when every firm key has been returned.  (Bound: a
\* batch repeats at most one key.)
ScanUntilEmptyBatch(todo, batch) == {batch = {}} \cup {done \in {TRUE} : todo = {}}
ScanDone(todo, batch) == {done \in BOOLEAN : done => todo = {}}

Scan ==
  /\ scan.step = "scan"
  /\ \E batch \in SUBSET DOMAIN db[scan.db] :
       LET again == batch \cap scan.returned
           todo  == scan.todo \ batch
       IN  /\ IF again = {} THEN UNCHANGED <<events, trail>>
              ELSE /\ Event /\ Cardinality(again) = 1
                   /\ trail' = [trail EXCEPT !.steady = FALSE]
           /\ \E done \in ScanDone(todo, batch) :
                scan' = [scan EXCEPT !.todo = todo, !.returned = @ \cup batch,
                           !.done = done, !.batch = batch,
                           !.step = IF batch # {} THEN "read" ELSE IF done THEN "render" ELSE "scan"]
  /\ UNCHANGED <<db, token, tab, crashed>>

\* A failed SCAN is answered 502.
ScanFails ==
  /\ scan.step = "scan"
  /\ Event
  /\ scan' = NoScan /\ trail' = NoTrail
  /\ UNCHANGED <<db, token, tab, crashed>>

\* HGETALL of one key: a key that is gone reads as an empty hash.
Row(id) == [id |-> id, copy |-> Cardinality({r \in scan.rows : r.id = id}),
            seen |-> IF id \in DOMAIN db[scan.db] THEN db[scan.db][id] ELSE Missing]

\* The row of a failed HGETALL: none.
RowsOnErrorZero(id) == {[id |-> id, copy |-> 0, seen |-> Missing]}
RowsOnError(id) == {}

Read ==
  /\ scan.step = "read"
  /\ \E id \in scan.batch :
       LET rest == scan.batch \ {id}
           step == IF rest # {} THEN "read" ELSE IF scan.done THEN "render" ELSE "scan"
       IN  \/ /\ scan' = [scan EXCEPT !.batch = rest, !.step = step,
                                      !.rows = @ \cup {Row(id)}]
              /\ UNCHANGED <<events, trail>>
           \/ /\ Event
              /\ scan' = [scan EXCEPT !.batch = rest, !.step = step,
                            !.rows = @ \cup RowsOnError(id), !.unread = @ \cup {id}]
              /\ trail' = [trail EXCEPT !.steady = FALSE]
  /\ UNCHANGED <<db, token, tab, crashed>>

\* limits by name; abuse records by last_seen, latest first, then by name.
BeforeNoTie(d, r, s) == IF d = "limits" THEN r.id < s.id ELSE r.seen > s.seen
Before(d, r, s) == IF d = "limits" THEN r.id < s.id
                   ELSE r.seen > s.seen \/ (r.seen = s.seen /\ r.id < s.id)

\* sort.Slice is not stable, and SCAN's order is arbitrary: any order that the
\* comparison allows.
Sorted(d, rows) ==
  {s \in SetToSeqs(rows) : \A i, j \in 1..Len(s) : i < j => ~Before(d, s[j], s[i])}

\* int arithmetic
WrapInt(n) == ((n + MaxInt + 1) % (2 * (MaxInt + 1))) - (MaxInt + 1)

PageEndInclusive(first) == WrapInt(first + PageSize + 1)
PageEnd(first) == WrapInt(first + PageSize)
Unclamped(n, total) == n
Clamp(n, total) == IF n > total THEN total ELSE n

\* rows[from:to] panics unless 0 <= from <= to <= len; net/http drops the connection.
Render ==
  /\ scan.step = "render"
  /\ \E s \in Sorted(scan.db, {r \in scan.rows : r.id \in scan.q}) :
       LET first == WrapInt((scan.page - 1) * PageSize)
           last  == PageEnd(first)
           from  == Clamp(first, Len(s))
           to    == Clamp(last, Len(s))
           rows  == [i \in 1..(to - from) |-> s[from + i].id]
       IN  IF 0 <= from /\ from <= to /\ to <= Len(s)
             THEN /\ tab' = [kind |-> "list", db |-> scan.db, q |-> scan.q, token |-> token,
                             page |-> scan.page, rows |-> rows, hasNext |-> to < Len(s)]
                  /\ trail' = [trail EXCEPT !.shown = @ \o rows]
                  /\ UNCHANGED crashed
             ELSE /\ crashed' = TRUE
                  /\ tab' = NoTab /\ trail' = NoTrail
  /\ scan' = NoScan
  /\ UNCHANGED <<db, token, events>>
-----------------------------------------------------------------------------
(* handleDelete and handlePurge.                                            *)

checkCSRFNever == TRUE
checkCSRF == tab.token = token

\* The page is left: for the listing after success, for an error page else.
Refused == /\ tab.kind \in {"list", "confirm"} /\ ~checkCSRF
           /\ tab' = NoTab
           /\ UNCHANGED <<db, token, scan, trail, crashed, events>>

\* DEL or FLUSHDB of S; an error, answered 502, may hide a success.
RemoveEntries(d, S) ==
  LET kept == [i \in DOMAIN db[d] \ S |-> db[d][i]]
  IN  \/ Changed(d, kept) /\ UNCHANGED events
      \/ Event /\ (Changed(d, kept) \/ Changed(d, db[d]))

\* POST of any names, not only of rows shown; none is only redirected.
Delete(S) ==
  /\ tab.kind = "list" /\ checkCSRF
  /\ IF S = {} THEN UNCHANGED <<db, scan, trail, events>> ELSE RemoveEntries(tab.db, S)
  /\ tab' = NoTab
  /\ UNCHANGED <<token, crashed>>

\* POST without confirm=yes: the server's confirmation page.
Purge ==
  /\ tab.kind = "list" /\ checkCSRF
  /\ tab' = [kind |-> "confirm", db |-> tab.db, token |-> token]
  /\ UNCHANGED <<db, token, scan, trail, crashed, events>>

\* With JavaScript the listing itself asks, and keeps its token.
PurgeBanner ==
  /\ tab.kind = "list"
  /\ tab' = [kind |-> "confirm", db |-> tab.db, token |-> tab.token]
  /\ UNCHANGED <<db, token, scan, trail, crashed, events>>

\* POST with confirm=yes.
PurgeConfirmed ==
  /\ tab.kind = "confirm" /\ checkCSRF
  /\ RemoveEntries(tab.db, Ids)
  /\ tab' = NoTab
  /\ UNCHANGED <<token, crashed>>
-----------------------------------------------------------------------------
Next ==
  \/ \E d \in Dbs, id \in Ids : (\E t \in Entries(d) : Upsert(d, id, t)) \/ Expire(d, id)
  \/ Restart
  \/ \E d \in Dbs, n \in Pages, q \in Queries : Open(d, n, q)
  \/ Follow \/ Scan \/ ScanFails \/ Read \/ Render
  \/ Refused \/ Purge \/ PurgeBanner \/ PurgeConfirmed
  \/ \E S \in SUBSET Ids : Delete(S)

Spec == Init /\ [][Next]_vars
-----------------------------------------------------------------------------
\* Type correctness of the admin model.
TypeOK ==
  /\ db \in [Dbs -> UNION {[S -> Times] : S \in SUBSET Ids}]
  /\ scan.step \in {"none", "scan", "read", "render"}
  /\ tab.kind \in {"none", "list", "confirm"}
  /\ tab.kind = "list" => tab.rows \in Seq(Ids) /\ Len(tab.rows) <= PageSize

\* A listing that is about to be rendered has a row for every key that was in
\* the database during the whole scan and whose HGETALL did not fail, however
\* SCAN cut its batches (redis.go:183-210, 228-252).
ListingComplete ==
  scan.step = "render" => scan.firm \ scan.unread \subseteq {r.id : r \in scan.rows}

\* A row of zeros (time "never", listed last) stands only for a key that was
\* removed during the scan, between SCAN and its HGETALL, never for one that is
\* still there, also when an HGETALL failed.
NoGhostOfPresent ==
  scan.step = "render" => \A r \in scan.rows : r.seen = Missing => r.id \notin scan.firm

\* Whoever opens page 1 and follows "next" to the last page sees every matching
\* entry exactly once, although each page is a scan and a sort of its own, if
\* nothing changed, no read failed and SCAN repeated no key meanwhile: the order
\* is total (admin.go:579-587) and hasNext is right.
PagesCoverAll ==
  tab.kind = "list" /\ ~tab.hasNext /\ trail.steady
  => LET wanted == DOMAIN db[tab.db] \cap tab.q
     IN  ToSet(trail.shown) = wanted /\ Len(trail.shown) = Cardinality(wanted)

\* "out-of-range page must not crash" (admin_test.go:733): no page number makes
\* the slice expression panic.
RendersEveryPage == ~crashed

\* Apart from expiry, entries leave a database only through a listing or a
\* confirmation page of that database that this very process produced
\* (admin.go:675, 704): a page from before a restart changes nothing.
RemovalsIntended ==
  [][\A d \in Dbs :
       DOMAIN db[d] \ DOMAIN db'[d] # {} /\ tab' # tab
         => tab.db = d /\ tab.token = token]_vars
=============================================================================
