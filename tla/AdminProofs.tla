---------------------------- MODULE AdminProofs ----------------------------
(***************************************************************************)
(* The admin pages, for every content of the databases and any number of   *)
(* changes, failures and restarts: what a listing contains, which requests *)
(* may remove entries, that a page number that fits an int renders, and    *)
(* that the pages behind the "next" links show every entry once.           *)
(***************************************************************************)
EXTENDS Admin, FiniteSetTheorems, SequenceTheorems, TLAPS

Sets == SUBSET Ids
Contents == UNION {[S -> Times] : S \in SUBSET Ids}
Seens == Times \cup {Missing}
RowRecs == [id : Ids, copy : Nat, seen : Seens]
RowSets == SUBSET RowRecs
PageNos == Nat \ {0}
ScanSteps == {"scan", "read", "render"}
Scans == [step : ScanSteps, db : Dbs, page : PageNos, q : Sets, todo : Sets,
          returned : Sets, done : BOOLEAN, batch : Sets, rows : RowSets,
          firm : Sets, unread : Sets]

DbOK == db \in [Dbs -> Contents]
ScanOK == scan = NoScan \/ (scan \in Scans /\ IsFiniteSet(scan.rows))
TabOK == /\ tab.kind \in {"none", "list", "confirm"}
         /\ tab.kind \in {"list", "confirm"} => tab.db \in Dbs
         /\ tab.kind = "list" =>
              /\ tab.q \in Sets /\ tab.page \in PageNos
              /\ tab.rows \in Seq(Ids) /\ Len(tab.rows) <= PageSize

TypeInv == DbOK /\ ScanOK /\ TabOK
-----------------------------------------------------------------------------
(* Data: contents of a database, int arithmetic, sorted rows, pages.        *)

\* A content is a map from names to times.
LEMMA ContentFacts ==
  ASSUME NEW c
  PROVE  c \in Contents <=> /\ c = [i \in DOMAIN c |-> c[i]]
                            /\ DOMAIN c \subseteq Ids
                            /\ \A i \in DOMAIN c : c[i] \in Times
  BY DEF Contents

\* The time of an upsert is one of the times.
LEMMA EntryFacts == ASSUME NEW d PROVE Entries(d) \subseteq Times
  BY AdminAssumption DEF Entries

\* Wrapping ends in an int.
LEMMA WrapRange ==
  ASSUME NEW n \in Int
  PROVE  WrapInt(n) \in Int /\ WrapInt(n) >= -MaxInt - 1 /\ WrapInt(n) <= MaxInt
  BY AdminAssumption DEF WrapInt

\* A sum of two ints wraps at most once, to below either of them.
LEMMA WrapOnce ==
  ASSUME NEW n \in Int, n >= -MaxInt - 1, n <= 2 * MaxInt + 1
  PROVE  WrapInt(n) = IF n <= MaxInt THEN n ELSE n - 2 * (MaxInt + 1)
  BY AdminAssumption DEF WrapInt

\* The sorted rows are a sequence of exactly the rows.
LEMMA SortedFacts ==
  ASSUME NEW d, NEW R, IsFiniteSet(R), NEW s \in Sorted(d, R)
  PROVE  /\ Cardinality(R) \in Nat /\ Len(s) = Cardinality(R)
         /\ \A i \in 1..Cardinality(R) : s[i] \in R
<1>1. Cardinality(R) \in Nat
  BY FS_CardinalityType
<1>2. s \in [1..Cardinality(R) -> R]
  BY DEF Sorted, SetToSeqs
<1>3. s \in Seq(R) /\ Len(s) = Cardinality(R)
  BY <1>1, <1>2
<1> QED
  BY <1>1, <1>2, <1>3

\* A page has at most PageSize rows, also where the sum wraps.
LEMMA PageFits ==
  ASSUME NEW first \in Int, first >= -MaxInt - 1, first <= MaxInt,
         NEW n \in Nat, NEW last \in Int, last = PageEnd(first),
         Clamp(first, n) <= Clamp(last, n)
  PROVE  Clamp(last, n) - Clamp(first, n) <= PageSize
<1>1. PageSize \in Nat /\ PageSize <= MaxInt /\ MaxInt \in Nat
  BY AdminAssumption
<1>2. last = WrapInt(first + PageSize)
  BY DEF PageEnd
<1>3. last = IF first + PageSize <= MaxInt THEN first + PageSize
             ELSE first + PageSize - 2 * (MaxInt + 1)
  BY <1>1, <1>2, WrapOnce
<1>4. last <= first + PageSize
  BY <1>1, <1>3
<1> QED
  BY <1>1, <1>4 DEF Clamp
-----------------------------------------------------------------------------
(* What each step does.                                                     *)

\* A change of one database leaves the others alone, and a listing on its way
\* as it is but for the keys it owes.
LEMMA ChangedEffect ==
  ASSUME TypeInv, NEW d \in Dbs, NEW c \in Contents, Changed(d, c)
  PROVE  /\ DbOK' /\ ScanOK'
         /\ db'[d] = c /\ \A e \in Dbs : e # d => db'[e] = db[e]
         /\ scan = NoScan => scan' = NoScan
         /\ scan \in Scans =>
              /\ scan' \in Scans
              /\ scan'.step = scan.step /\ scan'.db = scan.db /\ scan'.page = scan.page
              /\ scan'.q = scan.q /\ scan'.returned = scan.returned
              /\ scan'.done = scan.done /\ scan'.batch = scan.batch
              /\ scan'.rows = scan.rows /\ scan'.unread = scan.unread
              /\ scan.db = d => /\ scan'.firm = scan.firm \cap DOMAIN c
                                /\ scan'.todo = scan.todo \cap DOMAIN c
              /\ scan.db # d => scan'.firm = scan.firm /\ scan'.todo = scan.todo
<1>1. db' = [db EXCEPT ![d] = c]
  BY DEF Changed
<1>2. DbOK' /\ db'[d] = c /\ \A e \in Dbs : e # d => db'[e] = db[e]
  BY <1>1 DEF TypeInv, DbOK
<1>3. CASE scan = NoScan
  <2>1. scan.step = "none" /\ scan \notin Scans
    BY <1>3 DEF NoScan, Scans, ScanSteps
  <2>2. scan' = scan
    BY <2>1 DEF Changed
  <2> QED
    BY <1>2, <1>3, <2>1, <2>2 DEF ScanOK
<1>4. CASE scan \in Scans /\ IsFiniteSet(scan.rows)
  <2>1. scan.step # "none" /\ scan # NoScan
    BY <1>4 DEF NoScan, Scans, ScanSteps
  <2>2. CASE scan.db = d
    <3>1. scan' = [scan EXCEPT !.firm = scan.firm \cap DOMAIN c,
                               !.todo = scan.todo \cap DOMAIN c]
      BY <2>1, <2>2 DEF Changed
    <3>2. scan.firm \cap DOMAIN c \in Sets /\ scan.todo \cap DOMAIN c \in Sets
      BY <1>4 DEF Scans, Sets
    <3>3. scan' \in Scans
      BY <1>4, <3>1, <3>2 DEF Scans
    <3>4. /\ scan'.step = scan.step /\ scan'.db = scan.db /\ scan'.page = scan.page
          /\ scan'.q = scan.q /\ scan'.returned = scan.returned
          /\ scan'.done = scan.done /\ scan'.batch = scan.batch
          /\ scan'.rows = scan.rows /\ scan'.unread = scan.unread
          /\ scan'.firm = scan.firm \cap DOMAIN c /\ scan'.todo = scan.todo \cap DOMAIN c
      BY <1>4, <3>1 DEF Scans
    <3> QED
      BY <1>2, <1>4, <2>1, <2>2, <3>3, <3>4 DEF ScanOK
  <2>3. CASE scan.db # d
    <3>1. scan' = scan
      BY <2>3 DEF Changed
    <3> QED
      BY <1>2, <1>4, <2>1, <2>3, <3>1 DEF ScanOK
  <2> QED
    BY <2>2, <2>3
<1> QED
  BY <1>3, <1>4 DEF TypeInv, ScanOK

\* Upserts, expiry and removals by others change one database.
LEMMA OthersChange ==
  ASSUME TypeInv, NEW d \in Dbs, NEW id \in Ids,
         (\E t \in Entries(d) : Upsert(d, id, t)) \/ Expire(d, id)
  PROVE  (\E c \in Contents : Changed(d, c)) /\ tab' = tab /\ token' = token
<1>1. db[d] \in Contents
  BY DEF TypeInv, DbOK
<1>2. ASSUME NEW t \in Entries(d), Upsert(d, id, t)
      PROVE  (\E c \in Contents : Changed(d, c)) /\ tab' = tab /\ token' = token
  <2>1. PICK c : c = [i \in DOMAIN db[d] \cup {id} |-> IF i = id THEN t ELSE db[d][i]]
    OBVIOUS
  <2>2. t \in Times
    BY EntryFacts
  <2>3. c \in Contents
    BY <1>1, <2>1, <2>2, ContentFacts
  <2> QED
    BY <1>2, <2>1, <2>3 DEF Upsert
<1>3. ASSUME Expire(d, id)
      PROVE  (\E c \in Contents : Changed(d, c)) /\ tab' = tab /\ token' = token
  <2>1. PICK c : c = [i \in DOMAIN db[d] \ {id} |-> db[d][i]]
    OBVIOUS
  <2>2. c \in Contents
    BY <1>1, <2>1, ContentFacts
  <2> QED
    BY <1>3, <2>1, <2>2 DEF Expire
<1> QED
  BY <1>2, <1>3

\* A removal takes at most the entries it is about.
LEMMA RemovalChanges ==
  ASSUME TypeInv, NEW d \in Dbs, NEW S \in SUBSET Ids, RemoveEntries(d, S)
  PROVE  \E c \in Contents : Changed(d, c) /\ DOMAIN db[d] \ DOMAIN c \subseteq S
<1>1. db[d] \in Contents
  BY DEF TypeInv, DbOK
<1>2. PICK c : c = [i \in DOMAIN db[d] \ S |-> db[d][i]]
  OBVIOUS
<1>3. c \in Contents /\ DOMAIN db[d] \ DOMAIN c \subseteq S
  BY <1>1, <1>2, ContentFacts
<1>4. Changed(d, c) \/ Changed(d, db[d])
  BY <1>2 DEF RemoveEntries
<1> QED
  BY <1>1, <1>3, <1>4

\* A new listing begins with every key owed and none read.
LEMMA StartEffect ==
  ASSUME TypeInv, NEW d \in Dbs, NEW page \in PageNos, NEW q \in Sets,
         StartScan(d, page, q)
  PROVE  /\ scan = NoScan /\ tab' = NoTab
         /\ scan' \in Scans /\ ScanOK'
         /\ scan'.step = "scan" /\ scan'.db = d /\ scan'.page = page /\ scan'.q = q
         /\ scan'.batch = {}
         /\ scan'.returned = {} /\ scan'.rows = {} /\ scan'.unread = {} /\ scan'.done = FALSE
         /\ scan'.firm = DOMAIN db[d] /\ scan'.todo = DOMAIN db[d]
<1>1. scan = NoScan
  BY DEF StartScan, TypeInv, ScanOK, Scans, ScanSteps
<1>2. DOMAIN db[d] \in Sets /\ {} \in Sets /\ {} \in RowSets /\ "scan" \in ScanSteps
  BY ContentFacts DEF TypeInv, DbOK, Sets, RowSets, ScanSteps
<1>3. scan' = [step |-> "scan", db |-> d, page |-> page, q |-> q,
               todo |-> DOMAIN db[d], returned |-> {}, done |-> FALSE, batch |-> {},
               rows |-> {}, firm |-> DOMAIN db[d], unread |-> {}]
  BY DEF StartScan
<1>4. scan' \in Scans
  BY <1>2, <1>3 DEF Scans
<1>5. IsFiniteSet({})
  BY FS_EmptySet
<1> QED
  BY <1>1, <1>3, <1>4, <1>5 DEF StartScan, ScanOK

\* The listing an address asks for, and the one the "next" link does.
LEMMA OpenEffect ==
  ASSUME TypeInv, NEW d \in Dbs, NEW n \in Pages, NEW q \in Queries, Open(d, n, q)
  PROVE  \E page \in PageNos : /\ StartScan(d, page, q) /\ q \in Sets
                               /\ page = IF n < 1 THEN 1 ELSE n
                               /\ db' = db /\ crashed' = crashed /\ events' = events
                               /\ trail' = [db |-> d, q |-> q, shown |-> << >>,
                                            steady |-> page = 1]
<1>1. n \in Int /\ q \in Sets
  BY AdminAssumption DEF Sets
<1>2. PICK page : page = IF n < 1 THEN 1 ELSE n
  OBVIOUS
<1>3. page \in PageNos
  BY <1>1, <1>2 DEF PageNos
<1> QED
  BY <1>1, <1>2, <1>3 DEF Open

\* The "next" link asks for the page after the one shown.
LEMMA FollowEffect ==
  ASSUME TypeInv, Follow
  PROVE  \E d \in Dbs, page \in PageNos, q \in Sets :
           /\ StartScan(d, page, q) /\ tab.kind = "list" /\ tab.hasNext
           /\ page = tab.page + 1 /\ d = tab.db /\ q = tab.q
           /\ db' = db /\ crashed' = crashed /\ events' = events /\ trail' = trail
<1>1. tab.kind = "list" /\ tab.db \in Dbs /\ tab.q \in Sets /\ tab.page \in PageNos
  BY DEF Follow, TypeInv, TabOK
<1>2. tab.page + 1 \in PageNos
  BY <1>1 DEF PageNos
<1> QED
  BY <1>1, <1>2 DEF Follow

\* SCAN: a batch of keys that are there now; the end only when none is owed.
LEMMA ScanEffect ==
  ASSUME TypeInv, Scan
  PROVE  /\ scan \in Scans /\ scan.step = "scan" /\ scan' \in Scans
         /\ db' = db /\ tab' = tab /\ token' = token /\ crashed' = crashed
         /\ scan'.db = scan.db /\ scan'.page = scan.page /\ scan'.rows = scan.rows
         /\ scan'.q = scan.q
         /\ scan'.firm = scan.firm /\ scan'.unread = scan.unread
         /\ scan'.todo = scan.todo \ scan'.batch
         /\ scan'.batch \subseteq DOMAIN db[scan.db]
         /\ scan'.returned = scan.returned \cup scan'.batch
         /\ scan'.batch \cap scan.returned = {} => events' = events /\ trail' = trail
         /\ scan'.batch \cap scan.returned # {} =>
              /\ Event /\ Cardinality(scan'.batch \cap scan.returned) = 1
              /\ trail' = [trail EXCEPT !.steady = FALSE]
         /\ scan'.done => scan'.todo = {}
         /\ scan'.batch # {} => scan'.step = "read"
         /\ scan'.batch = {} => scan'.step = IF scan'.done THEN "render" ELSE "scan"
<1>1. scan \in Scans /\ scan.step = "scan"
  BY DEF Scan, TypeInv, ScanOK, NoScan
<1>2. PICK batch \in SUBSET DOMAIN db[scan.db] :
       LET again == batch \cap scan.returned
           todo  == scan.todo \ batch
       IN  /\ IF again = {} THEN UNCHANGED <<events, trail>>
              ELSE /\ Event /\ Cardinality(again) = 1
                   /\ trail' = [trail EXCEPT !.steady = FALSE]
           /\ \E done \in ScanDone(todo, batch) :
                scan' = [scan EXCEPT !.todo = todo, !.returned = @ \cup batch,
                           !.done = done, !.batch = batch,
                           !.step = IF batch # {} THEN "read" ELSE IF done THEN "render" ELSE "scan"]
  BY DEF Scan
<1>3. PICK done \in ScanDone(scan.todo \ batch, batch) :
        scan' = [scan EXCEPT !.todo = scan.todo \ batch, !.returned = @ \cup batch,
                   !.done = done, !.batch = batch,
                   !.step = IF batch # {} THEN "read" ELSE IF done THEN "render" ELSE "scan"]
  BY <1>2
<1>4. done \in BOOLEAN /\ (done => scan.todo \ batch = {})
  BY DEF ScanDone
<1>5. PICK step : step = IF batch # {} THEN "read" ELSE IF done THEN "render" ELSE "scan"
  OBVIOUS
<1>6. step \in ScanSteps
  BY <1>5 DEF ScanSteps
<1>7. batch \in Sets /\ scan.todo \ batch \in Sets /\ scan.returned \cup batch \in Sets
  <2>1. db[scan.db] \in Contents
    BY <1>1 DEF TypeInv, DbOK, Scans
  <2> QED
    BY <1>1, <2>1, ContentFacts DEF Scans, Sets
<1>8. scan' = [scan EXCEPT !.todo = scan.todo \ batch, !.returned = scan.returned \cup batch,
                 !.done = done, !.batch = batch, !.step = step]
  BY <1>3, <1>5
<1>9. scan' \in Scans
  BY <1>1, <1>4, <1>6, <1>7, <1>8 DEF Scans
<1>10. /\ scan'.db = scan.db /\ scan'.page = scan.page /\ scan'.rows = scan.rows
       /\ scan'.q = scan.q
       /\ scan'.firm = scan.firm /\ scan'.unread = scan.unread
       /\ scan'.todo = scan.todo \ batch /\ scan'.batch = batch
       /\ scan'.returned = scan.returned \cup batch
       /\ scan'.done = done /\ scan'.step = step
  BY <1>1, <1>8 DEF Scans
<1>11. /\ batch \cap scan.returned = {} => events' = events /\ trail' = trail
       /\ batch \cap scan.returned # {} =>
            /\ Event /\ Cardinality(batch \cap scan.returned) = 1
            /\ trail' = [trail EXCEPT !.steady = FALSE]
  BY <1>2
<1>12. scan'.batch # {} => scan'.step = "read"
  BY <1>5, <1>10
<1>13. scan'.batch = {} => scan'.step = IF scan'.done THEN "render" ELSE "scan"
  BY <1>5, <1>10
<1>14. scan'.done => scan'.todo = {}
  BY <1>4, <1>10
<1>15. db' = db /\ tab' = tab /\ token' = token /\ crashed' = crashed
  BY DEF Scan
<1> QED
  BY <1>1, <1>9, <1>10, <1>11, <1>12, <1>13, <1>14, <1>15

\* A row names its key, and is zero only for a key that is gone.
LEMMA RowFacts ==
  ASSUME TypeInv, scan \in Scans, NEW id \in Ids
  PROVE  /\ Row(id) \in RowRecs /\ Row(id).id = id
         /\ Row(id).seen = Missing => id \notin DOMAIN db[scan.db]
<1>1. IsFiniteSet(scan.rows)
  BY DEF TypeInv, ScanOK, NoScan, Scans, ScanSteps
<1>2. PICK T : T = {r \in scan.rows : r.id = id}
  OBVIOUS
<1>3. IsFiniteSet(T)
  BY <1>1, <1>2, FS_Subset
<1>4. Cardinality(T) \in Nat
  BY <1>3, FS_CardinalityType
<1>5. PICK t : t = IF id \in DOMAIN db[scan.db] THEN db[scan.db][id] ELSE Missing
  OBVIOUS
<1>6. db[scan.db] \in Contents
  BY DEF TypeInv, DbOK, Scans
<1>7. t \in Seens /\ (t = Missing => id \notin DOMAIN db[scan.db])
  BY <1>5, <1>6, ContentFacts, AdminAssumption DEF Seens, Missing
<1>8. Row(id) = [id |-> id, copy |-> Cardinality(T), seen |-> t]
  BY <1>2, <1>5 DEF Row
<1> QED
  BY <1>4, <1>7, <1>8 DEF RowRecs

\* HGETALL of one key of the batch: a row, or a failure that is noted.
LEMMA ReadEffect ==
  ASSUME TypeInv, Read
  PROVE  /\ scan \in Scans /\ scan.step = "read" /\ scan' \in Scans /\ ScanOK'
         /\ db' = db /\ tab' = tab /\ token' = token /\ crashed' = crashed
         /\ scan'.db = scan.db /\ scan'.page = scan.page /\ scan'.firm = scan.firm
         /\ scan'.todo = scan.todo /\ scan'.returned = scan.returned
         /\ scan'.done = scan.done /\ scan'.q = scan.q
         /\ scan'.batch # {} => scan'.step = "read"
         /\ scan'.batch = {} => scan'.step = IF scan'.done THEN "render" ELSE "scan"
         /\ \E id \in scan.batch :
              /\ scan'.batch = scan.batch \ {id}
              /\ \/ /\ scan'.rows = scan.rows \cup {Row(id)}
                    /\ scan'.unread = scan.unread /\ events' = events /\ trail' = trail
                 \/ /\ scan'.rows = scan.rows
                    /\ scan'.unread = scan.unread \cup {id} /\ Event
                    /\ trail' = [trail EXCEPT !.steady = FALSE]
<1>1. scan \in Scans /\ scan.step = "read" /\ IsFiniteSet(scan.rows)
  BY DEF Read, TypeInv, ScanOK, NoScan
<1>2. PICK id \in scan.batch :
       LET rest == scan.batch \ {id}
           step == IF rest # {} THEN "read" ELSE IF scan.done THEN "render" ELSE "scan"
       IN  \/ /\ scan' = [scan EXCEPT !.batch = rest, !.step = step,
                                      !.rows = @ \cup {Row(id)}]
              /\ UNCHANGED <<events, trail>>
           \/ /\ Event
              /\ scan' = [scan EXCEPT !.batch = rest, !.step = step,
                            !.rows = @ \cup RowsOnError(id), !.unread = @ \cup {id}]
              /\ trail' = [trail EXCEPT !.steady = FALSE]
  BY DEF Read
<1>3. PICK rest : rest = scan.batch \ {id}
  OBVIOUS
<1>4. PICK step : step = IF rest # {} THEN "read" ELSE IF scan.done THEN "render" ELSE "scan"
  OBVIOUS
<1>5. id \in Ids /\ rest \in Sets /\ step \in ScanSteps
  BY <1>1, <1>3, <1>4 DEF Scans, Sets, ScanSteps
<1>6. PICK row : row = Row(id)
  OBVIOUS
<1>7. row \in RowRecs
  BY <1>1, <1>5, <1>6, RowFacts
<1>8. \/ /\ scan' = [scan EXCEPT !.batch = rest, !.step = step, !.rows = scan.rows \cup {row}]
         /\ events' = events /\ trail' = trail
      \/ /\ Event /\ trail' = [trail EXCEPT !.steady = FALSE]
         /\ scan' = [scan EXCEPT !.batch = rest, !.step = step,
                       !.rows = scan.rows, !.unread = scan.unread \cup {id}]
  BY <1>2, <1>3, <1>4, <1>6 DEF RowsOnError
<1>9. /\ scan.rows \cup {row} \in RowSets /\ scan.unread \cup {id} \in Sets
      /\ scan.rows \in RowSets
  BY <1>1, <1>5, <1>7 DEF Scans, Sets, RowSets
<1>10. scan' \in Scans
  BY <1>1, <1>5, <1>8, <1>9 DEF Scans
<1>11. /\ scan'.db = scan.db /\ scan'.page = scan.page /\ scan'.firm = scan.firm
       /\ scan'.todo = scan.todo /\ scan'.returned = scan.returned
       /\ scan'.done = scan.done /\ scan'.batch = rest /\ scan'.step = step
       /\ scan'.q = scan.q
  BY <1>1, <1>8 DEF Scans
<1>12. \/ /\ scan'.rows = scan.rows \cup {row}
          /\ scan'.unread = scan.unread /\ events' = events /\ trail' = trail
       \/ /\ scan'.rows = scan.rows
          /\ scan'.unread = scan.unread \cup {id} /\ Event
          /\ trail' = [trail EXCEPT !.steady = FALSE]
  BY <1>1, <1>8 DEF Scans
<1>13. IsFiniteSet(scan.rows \cup {row})
  BY <1>1, FS_AddElement
<1>14. ScanOK'
  BY <1>1, <1>10, <1>12, <1>13 DEF ScanOK
<1>15. scan'.batch # {} => scan'.step = "read"
  BY <1>4, <1>11
<1>16. scan'.batch = {} => scan'.step = IF scan'.done THEN "render" ELSE "scan"
  BY <1>4, <1>11
<1>17. db' = db /\ tab' = tab /\ token' = token /\ crashed' = crashed
  BY DEF Read
<1> QED
  BY <1>1, <1>3, <1>6, <1>10, <1>11, <1>12, <1>14, <1>15, <1>16, <1>17

\* Rendering a page: the slice of the sorted rows, or a panic.
LEMMA RenderEffect ==
  ASSUME TypeInv, Render
  PROVE  /\ scan \in Scans /\ scan.step = "render" /\ scan' = NoScan
         /\ db' = db /\ token' = token /\ events' = events
         /\ \E n \in Nat, first, last \in Int :
              /\ n = Cardinality({r \in scan.rows : r.id \in scan.q})
              /\ first = WrapInt((scan.page - 1) * PageSize) /\ last = PageEnd(first)
              /\ \/ /\ 0 <= Clamp(first, n) /\ Clamp(first, n) <= Clamp(last, n)
                    /\ tab'.kind = "list" /\ tab'.db = scan.db /\ tab'.q = scan.q
                    /\ tab'.page = scan.page
                    /\ tab'.rows \in Seq(Ids) /\ Len(tab'.rows) <= PageSize
                    /\ tab'.hasNext = (Clamp(last, n) < n)
                    /\ crashed' = crashed
                    /\ trail' = [trail EXCEPT !.shown = trail.shown \o tab'.rows]
                 \/ /\ ~(0 <= Clamp(first, n) /\ Clamp(first, n) <= Clamp(last, n))
                    /\ tab' = NoTab /\ trail' = NoTrail
<1>1. scan \in Scans /\ scan.step = "render" /\ IsFiniteSet(scan.rows)
  BY DEF Render, TypeInv, ScanOK, NoScan
<1>2. PICK R : R = {r \in scan.rows : r.id \in scan.q}
  OBVIOUS
<1>3. IsFiniteSet(R)
  BY <1>1, <1>2, FS_Subset
<1>4. R \subseteq RowRecs
  BY <1>1, <1>2 DEF Scans, RowSets
<1>5. PICK s \in Sorted(scan.db, R) :
       LET first == WrapInt((scan.page - 1) * PageSize)
           last  == PageEnd(first)
           from  == Clamp(first, Len(s))
           to    == Clamp(last, Len(s))
           rows  == [i \in 1..(to - from) |-> s[from + i].id]
       IN  IF 0 <= from /\ from <= to /\ to <= Len(s)
             THEN /\ tab' = [kind |-> "list", db |-> scan.db, q |-> scan.q, token |-> token,
                             page |-> scan.page, rows |-> rows, hasNext |-> to < Len(s)]
                  /\ trail' = [trail EXCEPT !.shown = @ \o rows]
                  /\ UNCHANGED crashed
             ELSE /\ crashed' = TRUE
                  /\ tab' = NoTab /\ trail' = NoTrail
  BY <1>2 DEF Render
<1>6. PICK n : n = Cardinality(R)
  OBVIOUS
<1>7. n \in Nat /\ Len(s) = n /\ \A i \in 1..n : s[i] \in R
  BY <1>3, <1>5, <1>6, SortedFacts
<1>8. PICK first : first = WrapInt((scan.page - 1) * PageSize)
  OBVIOUS
<1>9. PICK last : last = PageEnd(first)
  OBVIOUS
<1>10. scan.page \in Nat /\ PageSize \in Nat /\ MaxInt \in Nat
  BY <1>1, AdminAssumption DEF Scans, PageNos
<1>11. (scan.page - 1) * PageSize \in Int
  BY <1>10
<1>12. first \in Int /\ first >= -MaxInt - 1 /\ first <= MaxInt
  BY <1>8, <1>11, WrapRange
<1>13. last \in Int
  <2>1. first + PageSize \in Int
    BY <1>10, <1>12
  <2> QED
    BY <1>9, <2>1, WrapRange DEF PageEnd
<1>14. PICK from : from = Clamp(first, n)
  OBVIOUS
<1>15. PICK to : to = Clamp(last, n)
  OBVIOUS
<1>16. from \in Int /\ to \in Int /\ from <= n /\ to <= n
  BY <1>7, <1>12, <1>13, <1>14, <1>15 DEF Clamp
<1>17. CASE 0 <= from /\ from <= to
  <2>1. PICK rows : rows = [i \in 1..(to - from) |-> s[from + i].id]
    OBVIOUS
  <2>2. /\ tab' = [kind |-> "list", db |-> scan.db, q |-> scan.q, token |-> token,
                   page |-> scan.page, rows |-> rows, hasNext |-> to < n]
        /\ crashed' = crashed /\ trail' = [trail EXCEPT !.shown = trail.shown \o rows]
    BY <1>5, <1>7, <1>8, <1>9, <1>14, <1>15, <1>16, <1>17, <2>1
  <2>3. ASSUME NEW i \in 1..(to - from) PROVE s[from + i].id \in Ids
    <3>1. from + i \in 1..n
      BY <1>7, <1>16, <1>17
    <3>2. s[from + i] \in RowRecs
      BY <1>4, <1>7, <3>1
    <3> QED
      BY <3>2 DEF RowRecs
  <2>4. to - from \in Nat
    BY <1>16, <1>17
  <2>5. rows \in Seq(Ids) /\ Len(rows) = to - from
    BY <2>1, <2>3, <2>4
  <2>6. to - from <= PageSize
    BY <1>7, <1>9, <1>12, <1>13, <1>14, <1>15, <1>17, PageFits
  <2>7. /\ tab'.kind = "list" /\ tab'.db = scan.db /\ tab'.q = scan.q
        /\ tab'.page = scan.page /\ tab'.rows = rows /\ tab'.hasNext = (to < n)
    BY <2>2
  <2>8. scan' = NoScan /\ db' = db /\ token' = token /\ events' = events
    BY DEF Render
  <2> QED
    BY <1>1, <1>2, <1>6, <1>7, <1>8, <1>9, <1>12, <1>13, <1>14, <1>15, <1>17,
       <2>2, <2>5, <2>6, <2>7, <2>8
<1>18. CASE ~(0 <= from /\ from <= to)
  <2>1. tab' = NoTab /\ trail' = NoTrail
    BY <1>5, <1>7, <1>8, <1>9, <1>14, <1>15, <1>18
  <2>2. scan' = NoScan /\ db' = db /\ token' = token /\ events' = events
    BY DEF Render
  <2> QED
    BY <1>1, <1>2, <1>6, <1>7, <1>8, <1>9, <1>12, <1>13, <1>14, <1>15, <1>18, <2>1, <2>2
<1> QED
  BY <1>17, <1>18

\* The steps, by what they do to the databases and to a listing on its way.
LEMMA NextCases ==
  ASSUME TypeInv, [Next]_vars
  PROVE  \/ \E d \in Dbs, c \in Contents :
              /\ Changed(d, c) /\ tab' \in {tab, NoTab} /\ crashed' = crashed
              /\ events' = events \/ Event
         \/ /\ db' = db /\ scan' = scan /\ events' = events /\ crashed' = crashed
            /\ trail' = trail
            /\ tab' \in {tab, NoTab} \/ Purge \/ PurgeBanner
         \/ Restart
         \/ \E d \in Dbs, n \in Pages, q \in Queries : Open(d, n, q)
         \/ Follow \/ Scan \/ ScanFails \/ Read \/ Render
<1>1. ASSUME NEW d \in Dbs, NEW id \in Ids,
             (\E t \in Entries(d) : Upsert(d, id, t)) \/ Expire(d, id)
      PROVE  \E e \in Dbs, c \in Contents :
               /\ Changed(e, c) /\ tab' \in {tab, NoTab} /\ crashed' = crashed
               /\ events' = events \/ Event
  <2>1. crashed' = crashed /\ Event
    BY <1>1 DEF Upsert, Expire
  <2> QED
    BY <1>1, <2>1, OthersChange
<1>2. ASSUME NEW d \in Dbs, NEW S \in SUBSET Ids, RemoveEntries(d, S),
             tab' = NoTab, crashed' = crashed
      PROVE  \E e \in Dbs, c \in Contents :
               /\ Changed(e, c) /\ tab' \in {tab, NoTab} /\ crashed' = crashed
               /\ events' = events \/ Event
  <2>1. events' = events \/ Event
    BY <1>2 DEF RemoveEntries
  <2> QED
    BY <1>2, <2>1, RemovalChanges
<1>3. tab.kind \in {"list", "confirm"} => tab.db \in Dbs
  BY DEF TypeInv, TabOK
<1>4. CASE PurgeConfirmed
  <2>1. tab.db \in Dbs /\ RemoveEntries(tab.db, Ids) /\ tab' = NoTab /\ crashed' = crashed
    BY <1>3, <1>4 DEF PurgeConfirmed
  <2> QED
    BY <1>2, <2>1
<1>5. ASSUME NEW S \in SUBSET Ids, Delete(S)
      PROVE  \/ \E d \in Dbs, c \in Contents :
                  /\ Changed(d, c) /\ tab' \in {tab, NoTab} /\ crashed' = crashed
                  /\ events' = events \/ Event
             \/ /\ db' = db /\ scan' = scan /\ events' = events /\ crashed' = crashed
                /\ trail' = trail /\ tab' \in {tab, NoTab}
  <2>1. tab.db \in Dbs /\ tab' = NoTab /\ crashed' = crashed
    BY <1>3, <1>5 DEF Delete
  <2>2. RemoveEntries(tab.db, S)
        \/ (db' = db /\ scan' = scan /\ events' = events /\ trail' = trail)
    BY <1>5 DEF Delete
  <2> QED
    BY <1>2, <2>1, <2>2
<1>6. CASE Refused
  BY <1>6 DEF Refused
<1>7. CASE Purge \/ PurgeBanner
  BY <1>7 DEF Purge, PurgeBanner
<1>8. CASE UNCHANGED vars
  BY <1>8 DEF vars
<1> QED
  BY <1>1, <1>4, <1>5, <1>6, <1>7, <1>8 DEF Next
-----------------------------------------------------------------------------
(* Type correctness.                                                        *)

\* The type invariant holds initially.
LEMMA TypeInit == Init => TypeInv
<1> SUFFICES ASSUME Init PROVE TypeInv
  OBVIOUS
<1>1. tab.kind = "none"
  BY DEF Init, NoTab
<1> QED
  BY <1>1 DEF Init, TypeInv, DbOK, ScanOK, TabOK, Contents

\* Every step preserves the type invariant.
LEMMA TypeStep == TypeInv /\ [Next]_vars => TypeInv'
<1> SUFFICES ASSUME TypeInv, [Next]_vars PROVE TypeInv'
  OBVIOUS
<1>0. DbOK /\ ScanOK /\ TabOK
  BY DEF TypeInv
<1>a. tab' = NoTab => TabOK'
  <2> SUFFICES ASSUME tab' = NoTab PROVE TabOK'
    OBVIOUS
  <2>1. tab'.kind = "none"
    BY DEF NoTab
  <2> QED
    BY <2>1 DEF TabOK
<1>b. tab' = tab => TabOK'
  BY <1>0 DEF TabOK
<1>c. db' = db => DbOK'
  BY <1>0 DEF DbOK
<1>d. scan' = scan \/ scan' = NoScan => ScanOK'
  BY <1>0 DEF ScanOK
<1>1. ASSUME NEW d \in Dbs, NEW c \in Contents, Changed(d, c), tab' \in {tab, NoTab}
      PROVE  TypeInv'
  BY <1>1, <1>a, <1>b, ChangedEffect DEF TypeInv
<1>2. CASE db' = db /\ scan' = scan /\ tab' \in {tab, NoTab}
  BY <1>2, <1>a, <1>b, <1>c, <1>d DEF TypeInv
<1>3. CASE db' = db /\ scan' = scan /\ (Purge \/ PurgeBanner)
  <2>1. tab'.kind = "confirm" /\ tab'.db = tab.db /\ tab.kind = "list"
    BY <1>3 DEF Purge, PurgeBanner
  <2>2. TabOK'
    BY <1>0, <2>1 DEF TabOK
  <2> QED
    BY <1>3, <2>2, <1>c, <1>d DEF TypeInv
<1>4. CASE Restart
  <2>1. db' = db /\ tab' = tab /\ scan' = NoScan
    BY <1>4 DEF Restart
  <2> QED
    BY <2>1, <1>b, <1>c, <1>d DEF TypeInv
<1>5. ASSUME NEW d \in Dbs, NEW n \in Pages, NEW q \in Queries, Open(d, n, q)
      PROVE  TypeInv'
  <2>1. PICK page \in PageNos : StartScan(d, page, q) /\ q \in Sets /\ db' = db
    BY <1>5, OpenEffect
  <2>2. ScanOK' /\ tab' = NoTab
    BY <2>1, StartEffect
  <2> QED
    BY <2>1, <2>2, <1>a, <1>c DEF TypeInv
<1>6. CASE Follow
  <2>1. PICK d \in Dbs, page \in PageNos, q \in Sets : StartScan(d, page, q) /\ db' = db
    BY <1>6, FollowEffect
  <2>2. ScanOK' /\ tab' = NoTab
    BY <2>1, StartEffect
  <2> QED
    BY <2>1, <2>2, <1>a, <1>c DEF TypeInv
<1>7. CASE Scan
  <2>1. scan' \in Scans /\ scan'.rows = scan.rows /\ scan \in Scans /\ db' = db /\ tab' = tab
    BY <1>7, ScanEffect
  <2>2. IsFiniteSet(scan.rows)
    BY <1>0, <2>1 DEF ScanOK, NoScan, Scans, ScanSteps
  <2>3. ScanOK'
    BY <2>1, <2>2 DEF ScanOK
  <2> QED
    BY <2>1, <2>3, <1>b, <1>c DEF TypeInv
<1>8. CASE ScanFails
  <2>1. db' = db /\ tab' = tab /\ scan' = NoScan
    BY <1>8 DEF ScanFails
  <2> QED
    BY <2>1, <1>b, <1>c, <1>d DEF TypeInv
<1>9. CASE Read
  <2>1. ScanOK' /\ db' = db /\ tab' = tab
    BY <1>9, ReadEffect
  <2> QED
    BY <2>1, <1>b, <1>c DEF TypeInv
<1>10. CASE Render
  <2>1. /\ scan \in Scans /\ scan' = NoScan /\ db' = db
        /\ \/ /\ tab'.kind = "list" /\ tab'.db = scan.db /\ tab'.q = scan.q
              /\ tab'.page = scan.page
              /\ tab'.rows \in Seq(Ids) /\ Len(tab'.rows) <= PageSize
           \/ tab' = NoTab
    BY <1>10, RenderEffect
  <2>2. scan.db \in Dbs /\ scan.q \in Sets /\ scan.page \in PageNos
    BY <2>1 DEF Scans
  <2>3. TabOK'
    BY <2>1, <2>2, <1>a DEF TabOK
  <2> QED
    BY <2>1, <2>3, <1>c, <1>d DEF TypeInv
<1> QED
  BY <1>1, <1>2, <1>3, <1>4, <1>5, <1>6, <1>7, <1>8, <1>9, <1>10, NextCases

\* The databases hold names with times, a listing is in one of its steps, and a
\* page never has more than pageSize rows, also where the page arithmetic wraps
\* (admin.go paginate).
THEOREM TypeCorrect == Spec => []TypeOK
<1>1. TypeInv => TypeOK
  <2> SUFFICES ASSUME TypeInv PROVE TypeOK
    OBVIOUS
  <2>1. scan.step \in {"none", "scan", "read", "render"}
    BY DEF TypeInv, ScanOK, NoScan, Scans, ScanSteps
  <2> QED
    BY <2>1 DEF TypeInv, TypeOK, DbOK, TabOK, Contents
<1> QED
  BY <1>1, TypeInit, TypeStep, PTL DEF Spec
-----------------------------------------------------------------------------
(* What a listing contains.                                                 *)

\* A key that was there all the time has its row, waits in the batch, is still
\* owed by SCAN, or its read failed; the end of the scan leaves none of the
\* middle two; and a row of zeros is never a firm key's.
ListInv ==
  scan \in Scans =>
    /\ scan.firm \subseteq DOMAIN db[scan.db]
    /\ scan.firm \ scan.unread \subseteq {r.id : r \in scan.rows} \cup scan.batch \cup scan.todo
    /\ scan.step = "scan" => scan.batch = {}
    /\ scan.step = "render" => scan.batch = {} /\ scan.done
    /\ scan.done => scan.todo = {}
    /\ \A r \in scan.rows : r.seen = Missing => r.id \notin scan.firm

\* A process without a listing has nothing to keep.
LEMMA ListNone == scan = NoScan => scan \notin Scans
  BY DEF NoScan, Scans, ScanSteps

\* Every step keeps the listing complete.
LEMMA ListStep == TypeInv /\ ListInv /\ [Next]_vars => ListInv'
<1> SUFFICES ASSUME TypeInv, ListInv, [Next]_vars PROVE ListInv'
  OBVIOUS
<1>0. scan' = NoScan => ListInv'
  <2> SUFFICES ASSUME scan' = NoScan PROVE ListInv'
    OBVIOUS
  <2>1. scan' \notin Scans
    BY DEF NoScan, Scans, ScanSteps
  <2> QED
    BY <2>1 DEF ListInv
<1>1. ASSUME NEW d \in Dbs, NEW c \in Contents, Changed(d, c) PROVE ListInv'
  <2>1. CASE scan = NoScan
    BY <1>0, <1>1, <2>1, ChangedEffect
  <2>2. CASE scan \in Scans
    <3>1. scan.db \in Dbs
      BY <2>2 DEF Scans
    <3>2. /\ scan'.step = scan.step /\ scan'.db = scan.db /\ scan'.done = scan.done
          /\ scan'.batch = scan.batch /\ scan'.rows = scan.rows
          /\ scan'.unread = scan.unread /\ scan' \in Scans
          /\ scan'.firm \subseteq scan.firm /\ scan'.todo \subseteq scan.todo
      BY <1>1, <2>2, ChangedEffect
    <3>3. /\ scan'.firm \cap scan.todo \subseteq scan'.todo
          /\ scan'.firm \subseteq DOMAIN db'[scan.db]
      <4>1. CASE scan.db = d
        BY <1>1, <2>2, <4>1, ChangedEffect
      <4>2. CASE scan.db # d
        BY <1>1, <2>2, <3>1, <4>2, ChangedEffect DEF ListInv
      <4> QED
        BY <4>1, <4>2
    <3> QED
      BY <2>2, <3>2, <3>3 DEF ListInv
  <2> QED
    BY <2>1, <2>2 DEF TypeInv, ScanOK
<1>2. CASE db' = db /\ scan' = scan
  BY <1>2 DEF ListInv
<1>3. CASE Restart \/ ScanFails \/ Render
  BY <1>0, <1>3 DEF Restart, ScanFails, Render
<1>4. ASSUME NEW d \in Dbs, NEW page \in PageNos, NEW q \in Sets,
             StartScan(d, page, q), db' = db
      PROVE  ListInv'
  BY <1>4, StartEffect DEF ListInv
<1>5. ASSUME NEW d \in Dbs, NEW n \in Pages, NEW q \in Queries, Open(d, n, q)
      PROVE  ListInv'
  BY <1>4, <1>5, OpenEffect
<1>6. CASE Follow
  BY <1>4, <1>6, FollowEffect
<1>7. CASE Scan
  <2>1. scan \in Scans /\ scan.step = "scan" /\ scan.batch = {}
    BY <1>7, ScanEffect DEF ListInv
  <2>2. /\ db' = db /\ scan' \in Scans
        /\ scan'.db = scan.db /\ scan'.rows = scan.rows
        /\ scan'.firm = scan.firm /\ scan'.unread = scan.unread
        /\ scan'.todo = scan.todo \ scan'.batch
    BY <1>7, ScanEffect
  <2>3. /\ scan'.done => scan'.todo = {}
        /\ scan'.step = "scan" => scan'.batch = {}
        /\ scan'.step = "render" => scan'.batch = {} /\ scan'.done
    BY <1>7, ScanEffect
  <2> QED
    BY <2>1, <2>2, <2>3 DEF ListInv
<1>8. CASE Read
  <2>1. /\ scan \in Scans /\ db' = db /\ scan' \in Scans
        /\ scan'.db = scan.db /\ scan'.firm = scan.firm
        /\ scan'.todo = scan.todo /\ scan'.done = scan.done
    BY <1>8, ReadEffect
  <2>2. /\ scan'.step = "scan" => scan'.batch = {}
        /\ scan'.step = "render" => scan'.batch = {} /\ scan'.done
    BY <1>8, ReadEffect
  <2>3. PICK id \in scan.batch :
          /\ scan'.batch = scan.batch \ {id}
          /\ \/ scan'.rows = scan.rows \cup {Row(id)} /\ scan'.unread = scan.unread
             \/ scan'.rows = scan.rows /\ scan'.unread = scan.unread \cup {id}
    BY <1>8, ReadEffect
  <2>4. id \in Ids
    BY <2>1 DEF Scans, Sets
  <2>5. PICK row : row = Row(id)
    OBVIOUS
  <2>6. row.id = id /\ (row.seen = Missing => id \notin scan.firm)
    BY <2>1, <2>4, <2>5, RowFacts DEF ListInv
  <2>7. CASE scan'.rows = scan.rows \cup {row} /\ scan'.unread = scan.unread
    <3>1. \A r \in scan'.rows : r.seen = Missing => r.id \notin scan'.firm
      BY <2>1, <2>6, <2>7 DEF ListInv
    <3>2. scan'.firm \ scan'.unread
            \subseteq {r.id : r \in scan'.rows} \cup scan'.batch \cup scan'.todo
      BY <2>1, <2>3, <2>6, <2>7 DEF ListInv
    <3> QED
      BY <2>1, <2>2, <3>1, <3>2 DEF ListInv
  <2>8. CASE scan'.rows = scan.rows /\ scan'.unread = scan.unread \cup {id}
    <3>1. scan'.firm \ scan'.unread
            \subseteq {r.id : r \in scan'.rows} \cup scan'.batch \cup scan'.todo
      BY <2>1, <2>3, <2>8 DEF ListInv
    <3> QED
      BY <2>1, <2>2, <2>8, <3>1 DEF ListInv
  <2> QED
    BY <2>3, <2>5, <2>7, <2>8
<1> QED
  BY <1>1, <1>2, <1>3, <1>5, <1>6, <1>7, <1>8, NextCases

\* What the listings show follows from the invariant at their end.
LEMMA ListAlways == Spec => [](TypeInv /\ ListInv)
<1>1. Init => ListInv
  BY ListNone DEF Init, ListInv
<1> QED
  BY <1>1, TypeInit, TypeStep, ListStep, PTL DEF Spec

\* A listing about to be rendered has a row for every key that was in the
\* database during the whole scan and whose HGETALL did not fail (redis.go
\* scanHashes), for any batches and any changes meanwhile.
THEOREM ListingCompleteHolds == Spec => []ListingComplete
<1>1. TypeInv /\ ListInv => ListingComplete
  BY DEF TypeInv, ScanOK, NoScan, ListInv, ListingComplete
<1> QED
  BY <1>1, ListAlways, PTL

\* A row of zeros stands only for a key that was removed during the scan, also
\* when an HGETALL failed (redis.go scanAbuse).
THEOREM NoGhostOfPresentHolds == Spec => []NoGhostOfPresent
<1>1. TypeInv /\ ListInv => NoGhostOfPresent
  BY DEF TypeInv, ScanOK, NoScan, ListInv, NoGhostOfPresent
<1> QED
  BY <1>1, ListAlways, PTL
-----------------------------------------------------------------------------
(* Who removes entries.                                                     *)

\* Apart from expiry, entries leave a database only through a listing or a
\* confirmation page of that database that this very process produced, with any
\* number of restarts (admin.go checkCSRF, handleDelete, handlePurge).
THEOREM RemovalsIntendedHolds == Spec => RemovalsIntended
<1>1. TypeInv /\ [Next]_vars =>
        [\A d \in Dbs :
           DOMAIN db[d] \ DOMAIN db'[d] # {} /\ tab' # tab
             => tab.db = d /\ tab.token = token]_vars
  <2> SUFFICES ASSUME TypeInv, [Next]_vars, NEW d \in Dbs,
                      DOMAIN db[d] \ DOMAIN db'[d] # {}, tab' # tab
               PROVE  tab.db = d /\ tab.token = token
    OBVIOUS
  <2>0. tab.kind \in {"list", "confirm"} => tab.db \in Dbs
    BY DEF TypeInv, TabOK
  <2>1. ASSUME NEW S \in SUBSET Ids, RemoveEntries(tab.db, S), tab.db \in Dbs
        PROVE  tab.db = d
    <3>1. PICK e \in Dbs : e = tab.db
      BY <2>1
    <3>2. PICK c \in Contents : Changed(e, c) /\ DOMAIN db[e] \ DOMAIN c \subseteq S
      BY <2>1, <3>1, RemovalChanges
    <3>3. db'[e] = c /\ \A x \in Dbs : x # e => db'[x] = db[x]
      BY <3>2, ChangedEffect
    <3> QED
      BY <3>1, <3>3
  <2>2. CASE PurgeConfirmed
    BY <2>0, <2>1, <2>2 DEF PurgeConfirmed, checkCSRF
  <2>3. ASSUME NEW S \in SUBSET Ids, Delete(S)
        PROVE  tab.db = d /\ tab.token = token
    <3>1. tab.db \in Dbs /\ tab.token = token
      BY <2>0, <2>3 DEF Delete, checkCSRF
    <3>2. RemoveEntries(tab.db, S)
      BY <2>3 DEF Delete
    <3> QED
      BY <2>1, <2>3, <3>1, <3>2
  <2>4. ASSUME NEW x \in Dbs, NEW id \in Ids,
               (\E t \in Entries(x) : Upsert(x, id, t)) \/ Expire(x, id)
        PROVE  FALSE
    BY <2>4 DEF Upsert, Expire
  <2>5. db' # db
    OBVIOUS
  <2>6. ~(UNCHANGED vars)
    BY <2>5 DEF vars
  <2> QED
    BY <2>2, <2>3, <2>4, <2>5, <2>6 DEF Next, Restart, Open, Follow, Scan, ScanFails, Read,
       Render, Refused, Purge, PurgeBanner
<1> QED
  BY <1>1, TypeInit, TypeStep, PTL DEF Spec, RemovalsIntended
-----------------------------------------------------------------------------
(* Pages that render.                                                       *)

\* The page numbers of addresses, and the number of rows a listing can have,
\* leave room in an int for one more page.
PagesFit == /\ IsFiniteSet(Ids)
            /\ Cardinality(Ids) + MaxEvents + PageSize <= MaxInt
            /\ \A n \in Pages : n * PageSize <= MaxInt

\* A listing has one row per key, and one more per repetition by SCAN.
CountInv ==
  scan \in Scans =>
    Cardinality(scan.rows) + Cardinality(scan.batch) + Cardinality(Ids \ scan.returned)
      <= Cardinality(Ids) + events

\* The page asked for, and the one the "next" link names, fit an int.
PageInv == /\ events \in 0..MaxEvents /\ ~crashed
           /\ scan \in Scans => scan.page * PageSize <= MaxInt
           /\ tab.kind = "list" /\ tab.hasNext => (tab.page + 1) * PageSize <= MaxInt

\* A batch moves its new keys from the unreturned ones, and repeats the others.
LEMMA CountBatch ==
  ASSUME IsFiniteSet(Ids), NEW R \in Sets, NEW B \in Sets
  PROVE  /\ Cardinality(B) \in Nat /\ Cardinality(B \cap R) \in Nat
         /\ Cardinality(Ids \ R) \in Nat /\ Cardinality(Ids \ (R \cup B)) \in Nat
         /\ Cardinality(B) + Cardinality(Ids \ (R \cup B))
              = Cardinality(Ids \ R) + Cardinality(B \cap R)
<1>1. IsFiniteSet(B) /\ IsFiniteSet(R)
  BY FS_Subset DEF Sets
<1>2. IsFiniteSet(Ids \ R) /\ IsFiniteSet(Ids \ (R \cup B)) /\ IsFiniteSet(B \cap R)
      /\ IsFiniteSet(B \ R)
  BY <1>1, FS_Difference, FS_Intersection
<1>3. PICK N : N = Ids \ R
  OBVIOUS
<1>4. IsFiniteSet(N)
  BY <1>2, <1>3
<1>5. N \cap B = B \ R /\ N \ B = Ids \ (R \cup B)
  BY <1>3 DEF Sets
<1>6. Cardinality(N \ B) = Cardinality(N) - Cardinality(N \cap B)
  BY <1>4, FS_Difference
<1>7. Cardinality(B \ R) = Cardinality(B) - Cardinality(B \cap R)
  BY <1>1, FS_Difference
<1>8. /\ Cardinality(B) \in Nat /\ Cardinality(B \cap R) \in Nat
      /\ Cardinality(N) \in Nat /\ Cardinality(N \ B) \in Nat /\ Cardinality(B \ R) \in Nat
  BY <1>1, <1>2, <1>4, <1>5, FS_CardinalityType
<1>9. Cardinality(N \ B) = Cardinality(N) - (Cardinality(B) - Cardinality(B \cap R))
  BY <1>5, <1>6, <1>7
<1>10. Cardinality(B) + Cardinality(N \ B) = Cardinality(N) + Cardinality(B \cap R)
  BY <1>8, <1>9
<1> QED
  BY <1>3, <1>5, <1>8, <1>10

\* The counts of a listing are numbers.
LEMMA CountTypes ==
  ASSUME IsFiniteSet(Ids), ScanOK, scan \in Scans
  PROVE  /\ Cardinality(scan.rows) \in Nat /\ Cardinality(scan.batch) \in Nat
         /\ Cardinality(Ids \ scan.returned) \in Nat /\ Cardinality(Ids) \in Nat
<1>1. IsFiniteSet(scan.rows)
  BY DEF ScanOK, NoScan, Scans, ScanSteps
<1>2. scan.batch \in Sets /\ scan.returned \in Sets
  BY DEF Scans
<1>3. IsFiniteSet(scan.batch) /\ IsFiniteSet(Ids \ scan.returned)
  BY <1>2, FS_Subset, FS_Difference DEF Sets
<1> QED
  BY <1>1, <1>3, FS_CardinalityType

\* Every step keeps the number of rows below the keys and the events.
LEMMA CountStep ==
  ASSUME IsFiniteSet(Ids), TypeInv, CountInv, events \in Nat, [Next]_vars
  PROVE  CountInv'
<1>0. Cardinality(Ids) \in Nat
  BY FS_CardinalityType
<1>a. scan' = NoScan => CountInv'
  <2> SUFFICES ASSUME scan' = NoScan PROVE CountInv'
    OBVIOUS
  <2>1. scan' \notin Scans
    BY DEF NoScan, Scans, ScanSteps
  <2> QED
    BY <2>1 DEF CountInv
<1>b. ScanOK
  BY DEF TypeInv
<1>1. ASSUME NEW d \in Dbs, NEW c \in Contents, Changed(d, c), events' = events \/ Event
      PROVE  CountInv'
  <2>1. CASE scan = NoScan
    BY <1>1, <1>a, <2>1, ChangedEffect
  <2>2. CASE scan \in Scans
    <3>1. scan'.rows = scan.rows /\ scan'.batch = scan.batch
          /\ scan'.returned = scan.returned
      BY <1>1, <2>2, ChangedEffect
    <3>2. events' \in Nat /\ events' >= events
      BY <1>1 DEF Event
    <3>3. Cardinality(scan.rows) + Cardinality(scan.batch) + Cardinality(Ids \ scan.returned)
            <= Cardinality(Ids) + events'
      BY <1>0, <1>b, <2>2, <3>2, CountTypes DEF CountInv
    <3> QED
      BY <3>1, <3>3 DEF CountInv
  <2> QED
    BY <1>b, <2>1, <2>2 DEF ScanOK
<1>2. CASE scan' = scan /\ events' = events
  BY <1>2 DEF CountInv
<1>3. CASE Restart \/ ScanFails \/ Render
  BY <1>a, <1>3 DEF Restart, ScanFails, Render
<1>4. ASSUME NEW d \in Dbs, NEW page \in PageNos, NEW q \in Sets,
             StartScan(d, page, q), events' = events
      PROVE  CountInv'
  <2>1. scan'.rows = {} /\ scan'.batch = {} /\ scan'.returned = {}
    BY <1>4, StartEffect
  <2>2. Cardinality({}) = 0 /\ Ids \ {} = Ids
    BY FS_EmptySet
  <2>3. 0 + 0 + Cardinality(Ids) <= Cardinality(Ids) + events'
    BY <1>0, <1>4
  <2> QED
    BY <2>1, <2>2, <2>3 DEF CountInv
<1>5. ASSUME NEW d \in Dbs, NEW n \in Pages, NEW q \in Queries, Open(d, n, q)
      PROVE  CountInv'
  BY <1>4, <1>5, OpenEffect
<1>6. CASE Follow
  BY <1>4, <1>6, FollowEffect
<1>7. CASE Scan
  <2>1. /\ scan \in Scans /\ scan' \in Scans /\ scan.step = "scan"
        /\ scan'.rows = scan.rows /\ scan'.returned = scan.returned \cup scan'.batch
    BY <1>7, ScanEffect
  <2>2. PICK B \in Sets : B = scan'.batch
    BY <2>1 DEF Scans
  <2>3. PICK R \in Sets : R = scan.returned
    BY <2>1 DEF Scans
  <2>4. /\ B \cap R = {} => events' = events
        /\ B \cap R # {} => Event /\ Cardinality(B \cap R) = 1
    BY <1>7, <2>2, <2>3, ScanEffect
  <2>5. events' \in Nat /\ Cardinality(B \cap R) <= events' - events
    <3>1. CASE B \cap R = {}
      BY <2>4, <3>1, FS_EmptySet
    <3>2. CASE B \cap R # {}
      BY <2>4, <3>2 DEF Event
    <3> QED
      BY <3>1, <3>2
  <2>6. /\ Cardinality(B) \in Nat /\ Cardinality(B \cap R) \in Nat
        /\ Cardinality(Ids \ R) \in Nat /\ Cardinality(Ids \ (R \cup B)) \in Nat
        /\ Cardinality(B) + Cardinality(Ids \ (R \cup B))
             = Cardinality(Ids \ R) + Cardinality(B \cap R)
    BY CountBatch
  <2>7. Cardinality(scan.rows) \in Nat /\ Cardinality(scan.batch) \in Nat
    BY <1>b, <2>1, CountTypes
  <2>8. Cardinality(scan.rows) + Cardinality(scan.batch) + Cardinality(Ids \ R)
          <= Cardinality(Ids) + events
    BY <2>1, <2>3 DEF CountInv
  <2>9. Cardinality(scan.rows) + Cardinality(B) + Cardinality(Ids \ (R \cup B))
          <= Cardinality(Ids) + events'
    BY <1>0, <2>5, <2>6, <2>7, <2>8
  <2> QED
    BY <2>1, <2>2, <2>3, <2>9 DEF CountInv
<1>8. CASE Read
  <2>1. scan \in Scans /\ scan'.returned = scan.returned /\ scan' \in Scans
    BY <1>8, ReadEffect
  <2>2. PICK id \in scan.batch :
          /\ scan'.batch = scan.batch \ {id}
          /\ \/ scan'.rows = scan.rows \cup {Row(id)} /\ events' = events
             \/ scan'.rows = scan.rows /\ Event
    BY <1>8, ReadEffect
  <2>3. IsFiniteSet(scan.batch) /\ IsFiniteSet(scan.rows)
    <3>1. scan.batch \in Sets
      BY <2>1 DEF Scans
    <3> QED
      BY <1>b, <2>1, <3>1, FS_Subset DEF Sets, ScanOK, NoScan, Scans, ScanSteps
  <2>4. Cardinality(scan'.batch) = Cardinality(scan.batch) - 1
    BY <2>2, <2>3, FS_RemoveElement
  <2>5. PICK row : row = Row(id)
    OBVIOUS
  <2>6. /\ Cardinality(scan.rows) \in Nat /\ Cardinality(scan.batch) \in Nat
        /\ Cardinality(Ids \ scan.returned) \in Nat
    BY <1>b, <2>1, CountTypes
  <2>7. Cardinality(scan'.rows) \in Nat /\ Cardinality(scan'.rows) <= Cardinality(scan.rows) + 1
    <3>1. CASE scan'.rows = scan.rows
      BY <2>6, <3>1
    <3>2. CASE scan'.rows = scan.rows \cup {row}
      <4>1. Cardinality(scan.rows \cup {row}) =
              IF row \in scan.rows THEN Cardinality(scan.rows) ELSE Cardinality(scan.rows) + 1
        BY <2>3, FS_AddElement
      <4> QED
        BY <2>6, <3>2, <4>1
    <3> QED
      BY <2>2, <2>5, <3>1, <3>2
  <2>8. events' \in Nat /\ events' >= events
    BY <2>2 DEF Event
  <2>9. Cardinality(scan.rows) + Cardinality(scan.batch) + Cardinality(Ids \ scan.returned)
          <= Cardinality(Ids) + events
    BY <2>1 DEF CountInv
  <2>10. Cardinality(scan'.rows) + Cardinality(scan'.batch) + Cardinality(Ids \ scan.returned)
           <= Cardinality(Ids) + events'
    BY <1>0, <2>4, <2>6, <2>7, <2>8, <2>9
  <2> QED
    BY <2>1, <2>10 DEF CountInv
<1> QED
  BY <1>1, <1>2, <1>3, <1>5, <1>6, <1>7, <1>8, NextCases

\* The rows of a page are not more than the rows of its listing.
LEMMA ShownCount ==
  ASSUME IsFiniteSet(Ids), TypeInv, CountInv, events \in 0..MaxEvents, scan \in Scans,
         NEW n \in Nat, n = Cardinality({r \in scan.rows : r.id \in scan.q})
  PROVE  n <= Cardinality(Ids) + MaxEvents
<1>1. IsFiniteSet(scan.rows) /\ ScanOK
  BY DEF TypeInv, ScanOK, NoScan, Scans, ScanSteps
<1>2. PICK R : R = {r \in scan.rows : r.id \in scan.q}
  OBVIOUS
<1>3. R \in SUBSET scan.rows
  BY <1>2
<1>4. Cardinality(R) <= Cardinality(scan.rows)
  BY <1>1, <1>3, FS_Subset
<1>5. /\ Cardinality(scan.rows) \in Nat /\ Cardinality(scan.batch) \in Nat
      /\ Cardinality(Ids \ scan.returned) \in Nat /\ Cardinality(Ids) \in Nat
  BY <1>1, CountTypes
<1>6. Cardinality(scan.rows) + Cardinality(scan.batch) + Cardinality(Ids \ scan.returned)
        <= Cardinality(Ids) + events
  BY DEF CountInv
<1>7. n <= Cardinality(scan.rows)
  BY <1>2, <1>4
<1> QED
  BY <1>5, <1>6, <1>7, AdminAssumption

\* Every step keeps the page numbers small enough, and none panics.
LEMMA PageStep ==
  ASSUME PagesFit, TypeInv, CountInv, PageInv, [Next]_vars
  PROVE  PageInv'
<1>0. events \in 0..MaxEvents /\ ~crashed /\ MaxEvents \in Nat
  BY AdminAssumption DEF PageInv
<1>a. events' = events \/ Event => events' \in 0..MaxEvents
  BY <1>0 DEF Event
<1>b. tab' = NoTab => tab'.kind # "list"
  BY DEF NoTab
<1>c. scan' = NoScan => scan' \notin Scans
  BY DEF NoScan, Scans, ScanSteps
<1>1. ASSUME NEW d \in Dbs, NEW c \in Contents, Changed(d, c), tab' \in {tab, NoTab},
             crashed' = crashed, events' = events \/ Event
      PROVE  PageInv'
  <2>1. scan' \in Scans => scan \in Scans /\ scan'.page = scan.page
    BY <1>1, <1>c, ChangedEffect DEF TypeInv, ScanOK
  <2> QED
    BY <1>1, <1>a, <1>b, <2>1 DEF PageInv
<1>2. CASE /\ scan' = scan /\ events' = events /\ crashed' = crashed
           /\ tab' \in {tab, NoTab} \/ Purge \/ PurgeBanner
  <2>1. Purge \/ PurgeBanner => tab'.kind # "list"
    BY DEF Purge, PurgeBanner
  <2> QED
    BY <1>2, <1>b, <2>1 DEF PageInv
<1>3. CASE Restart \/ ScanFails
  BY <1>3, <1>a, <1>c DEF Restart, ScanFails, PageInv
<1>4. ASSUME NEW d \in Dbs, NEW page \in PageNos, NEW q \in Sets, StartScan(d, page, q),
             events' = events, crashed' = crashed, page * PageSize <= MaxInt
      PROVE  PageInv'
  <2>1. scan'.page = page /\ tab' = NoTab
    BY <1>4, StartEffect
  <2> QED
    BY <1>4, <1>b, <2>1 DEF PageInv
<1>5. ASSUME NEW d \in Dbs, NEW n \in Pages, NEW q \in Queries, Open(d, n, q)
      PROVE  PageInv'
  <2>1. PICK page \in PageNos : /\ StartScan(d, page, q) /\ q \in Sets
                                /\ page = IF n < 1 THEN 1 ELSE n
                                /\ crashed' = crashed /\ events' = events
    BY <1>5, OpenEffect
  <2>2. page * PageSize <= MaxInt
    <3>1. CASE n < 1
      BY <2>1, <3>1, AdminAssumption
    <3>2. CASE ~(n < 1)
      BY <2>1, <3>2 DEF PagesFit
    <3> QED
      BY <3>1, <3>2
  <2> QED
    BY <1>4, <2>1, <2>2
<1>6. CASE Follow
  <2>1. PICK d \in Dbs, page \in PageNos, q \in Sets :
          /\ StartScan(d, page, q) /\ tab.kind = "list" /\ tab.hasNext
          /\ page = tab.page + 1 /\ crashed' = crashed /\ events' = events
    BY <1>6, FollowEffect
  <2>2. page * PageSize <= MaxInt
    BY <2>1 DEF PageInv
  <2> QED
    BY <1>4, <2>1, <2>2
<1>7. CASE Scan
  <2>1. /\ scan \in Scans /\ scan'.page = scan.page /\ tab' = tab /\ crashed' = crashed
        /\ events' = events \/ Event
    BY <1>7, ScanEffect
  <2> QED
    BY <2>1, <1>a DEF PageInv
<1>8. CASE Read
  <2>1. /\ scan \in Scans /\ scan'.page = scan.page /\ tab' = tab /\ crashed' = crashed
        /\ events' = events \/ Event
    BY <1>8, ReadEffect
  <2> QED
    BY <2>1, <1>a DEF PageInv
<1>9. CASE Render
  <2>1. scan \in Scans /\ scan' = NoScan /\ events' = events
    BY <1>9, RenderEffect
  <2>2. PICK n \in Nat, first \in Int, last \in Int :
              /\ n = Cardinality({r \in scan.rows : r.id \in scan.q})
              /\ first = WrapInt((scan.page - 1) * PageSize) /\ last = PageEnd(first)
              /\ \/ /\ 0 <= Clamp(first, n) /\ Clamp(first, n) <= Clamp(last, n)
                    /\ tab'.kind = "list" /\ tab'.page = scan.page
                    /\ tab'.hasNext = (Clamp(last, n) < n)
                    /\ crashed' = crashed
                 \/ /\ ~(0 <= Clamp(first, n) /\ Clamp(first, n) <= Clamp(last, n))
                    /\ tab' = NoTab
    BY <1>9, RenderEffect
  <2>3. PICK p \in PageNos : p = scan.page
    BY <2>1 DEF Scans
  <2>4. p \in Nat /\ p >= 1 /\ PageSize \in Nat /\ PageSize >= 1 /\ MaxInt \in Nat
        /\ p * PageSize <= MaxInt /\ Cardinality(Ids) \in Nat
    <3>1. Cardinality(Ids) \in Nat
      BY FS_CardinalityType DEF PagesFit
    <3> QED
      BY <2>1, <2>3, <3>1, AdminAssumption DEF PageNos, PageInv
  <2>5. PICK m \in Int : m = (p - 1) * PageSize
    BY <2>4
  <2>6. m >= 0 /\ m + PageSize = p * PageSize
    BY <2>4, <2>5
  <2>7. first = m
    BY <2>2, <2>3, <2>4, <2>5, <2>6, WrapOnce
  <2>8. last = m + PageSize
    BY <2>2, <2>4, <2>6, <2>7, WrapOnce DEF PageEnd
  <2>9. 0 <= Clamp(first, n) /\ Clamp(first, n) <= Clamp(last, n)
    BY <2>4, <2>6, <2>7, <2>8 DEF Clamp
  <2>10. /\ tab'.kind = "list" /\ tab'.page = p /\ crashed' = crashed
         /\ tab'.hasNext = (Clamp(last, n) < n)
    BY <2>2, <2>3, <2>9
  <2>11. Clamp(last, n) < n => (p + 1) * PageSize <= MaxInt
    <3> SUFFICES ASSUME Clamp(last, n) < n PROVE (p + 1) * PageSize <= MaxInt
      OBVIOUS
    <3>1. last < n
      BY DEF Clamp
    <3>2. n <= Cardinality(Ids) + MaxEvents
      BY <1>0, <2>1, <2>2, ShownCount DEF PagesFit
    <3>3. p * PageSize + PageSize <= MaxInt
      BY <1>0, <2>4, <2>6, <2>8, <3>1, <3>2 DEF PagesFit
    <3> QED
      BY <2>4, <3>3
  <2>12. tab'.hasNext => (tab'.page + 1) * PageSize <= MaxInt
    BY <2>10, <2>11
  <2> QED
    BY <1>0, <1>c, <2>1, <2>10, <2>12 DEF PageInv
<1> QED
  BY <1>1, <1>2, <1>3, <1>5, <1>6, <1>7, <1>8, <1>9, NextCases

\* "out-of-range page must not crash" (admin_test.go:733) holds for every page
\* number whose product with pageSize fits an int, through any number of "next"
\* links, if the rows of a listing do too: only a number beyond panics.
THEOREM RendersEveryPageHolds ==
  ASSUME PagesFit
  PROVE  Spec => []RendersEveryPage
<1> DEFINE Inv == TypeInv /\ CountInv /\ PageInv
<1>1. Init => Inv
  <2> SUFFICES ASSUME Init PROVE Inv
    OBVIOUS
  <2>1. scan \notin Scans /\ tab.kind # "list"
    BY ListNone DEF Init, NoTab
  <2>2. events \in 0..MaxEvents /\ ~crashed
    BY AdminAssumption DEF Init
  <2> QED
    BY <2>1, <2>2, TypeInit DEF CountInv, PageInv
<1>2. Inv /\ [Next]_vars => Inv'
  <2> SUFFICES ASSUME Inv, [Next]_vars PROVE Inv'
    OBVIOUS
  <2>1. events \in Nat /\ IsFiniteSet(Ids)
    BY AdminAssumption DEF PageInv, PagesFit
  <2> QED
    BY <2>1, TypeStep, CountStep, PageStep
<1>3. Inv => RendersEveryPage
  BY DEF PageInv, RendersEveryPage
<1> QED
  BY <1>1, <1>2, <1>3, PTL DEF Spec
-----------------------------------------------------------------------------
(* The pages behind the "next" links.                                       *)

\* The rows of the entries of a content that a search matches, each read once.
Entry(content, i) == [id |-> i, copy |-> 0, seen |-> content[i]]
Matching(content, q) == {Entry(content, i) : i \in DOMAIN content \cap q}

\* A listing of a set takes each of its elements exactly once.
LEMMA SeqBijection ==
  ASSUME NEW R, IsFiniteSet(R), NEW s \in SetToSeqs(R)
  PROVE  /\ Cardinality(R) \in Nat /\ s \in [1..Cardinality(R) -> R]
         /\ \A i, j \in 1..Cardinality(R) : s[i] = s[j] => i = j
         /\ \A r \in R : \E i \in 1..Cardinality(R) : s[i] = r
<1>1. PICK n : n = Cardinality(R)
  OBVIOUS
<1>2. n \in Nat
  BY <1>1, FS_CardinalityType
<1>3. s \in [1..n -> R] /\ \A i, j \in 1..n : s[i] = s[j] => i = j
  BY <1>1 DEF SetToSeqs
<1>4. s \in Injection(1..n, R)
  BY <1>3 DEF Injection, IsInjective
<1>5. Cardinality(1..n) = n
  BY <1>2, FS_Interval
<1>6. s \in Surjection(1..n, R)
  BY <1>1, <1>4, <1>5, FS_Injection
<1> QED
  BY <1>1, <1>2, <1>3, <1>6 DEF Surjection

\* The order of a listing decides between any two of its rows.
Total(d, R) == \A r, x \in R : r # x => Before(d, r, x) \/ Before(d, x, r)

\* Rows are compared by numbers.
LEMMA RowNumbers == ASSUME NEW r \in RowRecs PROVE r.id \in Int /\ r.seen \in Int
<1>1. r.id \in Ids /\ r.seen \in Times \cup {0}
  BY DEF RowRecs, Seens, Missing
<1>2. \A i \in Ids : i \in Int
  BY AdminAssumption
<1>3. \A t \in Times \cup {0} : t \in Int
  BY AdminAssumption
<1> QED
  BY <1>1, <1>2, <1>3

\* The place of a row in a sorted sequence is the number of rows before it.
LEMMA PlaceInOrder ==
  ASSUME NEW d, NEW R, IsFiniteSet(R), R \subseteq RowRecs, Total(d, R),
         NEW s \in Sorted(d, R), NEW i \in 1..Cardinality(R)
  PROVE  Cardinality({r \in R : Before(d, r, s[i])}) = i - 1
<1>1. PICK n : n = Cardinality(R)
  OBVIOUS
<1>2. /\ n \in Nat /\ s \in [1..n -> R] /\ i \in 1..n
      /\ \A j, k \in 1..n : s[j] = s[k] => j = k
      /\ \A r \in R : \E j \in 1..n : s[j] = r
  BY <1>1, SeqBijection DEF Sorted
<1>3. \A j, k \in 1..n : j < k => ~Before(d, s[k], s[j])
  <2>1. Len(s) = n
    BY <1>2
  <2> QED
    BY <2>1 DEF Sorted
<1>4. PICK B : B = {r \in R : Before(d, r, s[i])}
  OBVIOUS
<1>5. ~Before(d, s[i], s[i])
  <2>1. s[i] \in RowRecs
    BY <1>2
  <2>2. s[i].id \in Int /\ s[i].seen \in Int
    BY <2>1, RowNumbers
  <2> QED
    BY <2>2 DEF Before
<1>6. ASSUME NEW j \in 1..n PROVE s[j] \in B <=> j < i
  <2>1. CASE j < i
    <3>1. s[j] # s[i] /\ ~Before(d, s[i], s[j])
      BY <1>2, <1>3, <2>1
    <3> QED
      BY <1>2, <1>4, <2>1, <3>1 DEF Total
  <2>2. CASE j = i
    BY <1>4, <1>5, <2>2
  <2>3. CASE i < j
    BY <1>2, <1>3, <1>4, <2>3
  <2> QED
    BY <1>2, <2>1, <2>2, <2>3
<1>7. PICK f : f = [j \in 1..(i - 1) |-> s[j]]
  OBVIOUS
<1>8. i - 1 \in Nat /\ \A j \in 1..(i - 1) : j \in 1..n /\ j < i
  BY <1>2
<1>9. f \in [1..(i - 1) -> B]
  BY <1>6, <1>7, <1>8
<1>10. \A j, k \in 1..(i - 1) : f[j] = f[k] => j = k
  BY <1>2, <1>7, <1>8
<1>11. ASSUME NEW r \in B PROVE \E j \in 1..(i - 1) : f[j] = r
  <2>1. PICK j \in 1..n : s[j] = r
    BY <1>2, <1>4
  <2>2. j \in 1..(i - 1)
    BY <1>2, <1>6, <2>1
  <2> QED
    BY <1>7, <2>1, <2>2
<1>12. f \in Injection(1..(i - 1), B) /\ f \in Surjection(1..(i - 1), B)
  BY <1>9, <1>10, <1>11 DEF Injection, IsInjective, Surjection
<1>13. ExistsBijection(1..(i - 1), B)
  BY <1>12 DEF ExistsBijection, Bijection
<1>14. Cardinality(B) = i - 1
  BY <1>8, <1>13, FS_CountingElements
<1> QED
  BY <1>4, <1>14

\* Where the order is total, two sorts of the same rows agree.
LEMMA SortedUnique ==
  ASSUME NEW d, NEW R, IsFiniteSet(R), R \subseteq RowRecs, Total(d, R),
         NEW s \in Sorted(d, R), NEW t \in Sorted(d, R)
  PROVE  s = t
<1>1. PICK n : n = Cardinality(R)
  OBVIOUS
<1>2. /\ n \in Nat /\ s \in [1..n -> R] /\ t \in [1..n -> R]
      /\ \A r \in R : \E j \in 1..n : s[j] = r
  BY <1>1, SeqBijection DEF Sorted
<1>3. ASSUME NEW i \in 1..n PROVE s[i] = t[i]
  <2>1. PICK j \in 1..n : s[j] = t[i]
    BY <1>2
  <2>2. Cardinality({r \in R : Before(d, r, t[i])}) = i - 1
    BY <1>1, PlaceInOrder
  <2>3. Cardinality({r \in R : Before(d, r, s[j])}) = j - 1
    BY <1>1, PlaceInOrder
  <2>4. i = j
    BY <1>2, <2>1, <2>2, <2>3
  <2> QED
    BY <2>1, <2>4
<1> QED
  BY <1>2, <1>3

\* Entries of one database differ in their names, so their order is total.
LEMMA MatchingFacts ==
  ASSUME NEW d, NEW c \in Contents, NEW q
  PROVE  Matching(c, q) \subseteq RowRecs /\ Total(d, Matching(c, q))
<1>1. ASSUME NEW i \in DOMAIN c \cap q
      PROVE  /\ Entry(c, i) \in RowRecs /\ Entry(c, i).id = i
             /\ Entry(c, i).id \in Int /\ Entry(c, i).seen \in Int
  <2>1. i \in Ids /\ c[i] \in Seens
    BY ContentFacts DEF Seens
  <2>2. Entry(c, i) \in RowRecs /\ Entry(c, i).id = i
    BY <2>1 DEF Entry, RowRecs
  <2> QED
    BY <2>2, RowNumbers
<1>2. ASSUME NEW i \in DOMAIN c \cap q, NEW j \in DOMAIN c \cap q, Entry(c, i) # Entry(c, j)
      PROVE  Before(d, Entry(c, i), Entry(c, j)) \/ Before(d, Entry(c, j), Entry(c, i))
  <2>1. i # j
    BY <1>2
  <2>2. PICK r, x : r = Entry(c, i) /\ x = Entry(c, j)
    OBVIOUS
  <2>3. r.id # x.id /\ r.id \in Int /\ x.id \in Int /\ r.seen \in Int /\ x.seen \in Int
    BY <1>1, <2>1, <2>2
  <2>4. Before(d, r, x) \/ Before(d, x, r)
    BY <2>3 DEF Before
  <2> QED
    BY <2>2, <2>4
<1> QED
  BY <1>1, <1>2 DEF Matching, Total

\* What has been shown is the beginning, k rows long, of the sorted rows.
Begins(shown, d, rows, k) ==
  /\ IsFiniteSet(rows)
  /\ \E s \in Sorted(d, rows) : k <= Len(s) /\ shown = [i \in 1..k |-> s[i].id]

Trails == [db : Dbs \cup {"none"}, q : Sets, shown : Seq(Ids), steady : BOOLEAN]

\* A listing on an undisturbed trail has read every key once, as it is, and
\* continues where the page before ended.
ScanTrail ==
  scan \in Scans /\ trail.steady =>
    LET content == db[scan.db]
        before  == (scan.page - 1) * PageSize
    IN  /\ trail.db = scan.db
        /\ scan.firm = DOMAIN content /\ scan.unread = {}
        /\ scan.batch \subseteq scan.returned \cap DOMAIN content
        /\ \A r \in scan.rows : /\ r.id \in DOMAIN content \cap (scan.returned \ scan.batch)
                                /\ r = Entry(content, r.id)
        /\ \/ scan.page = 1 /\ trail.shown = << >>
           \/ /\ before <= MaxInt
              /\ Begins(trail.shown, scan.db, Matching(content, scan.q), before)

\* The page seen on an undisturbed trail ends where the rows do, or is full.
TabTrail ==
  tab.kind = "list" /\ trail.steady =>
    LET rows == Matching(db[tab.db], tab.q)
        k    == Len(trail.shown)
    IN  /\ trail.db = tab.db
        /\ Begins(trail.shown, tab.db, rows, k)
        /\ tab.hasNext = (k < Cardinality(rows))
        /\ tab.hasNext => k = tab.page * PageSize /\ k <= MaxInt

TrailInv == trail \in Trails /\ ScanTrail /\ TabTrail

\* Appending the next rows of the order to its beginning is a longer beginning.
LEMMA BeginsExtended ==
  ASSUME NEW d, NEW R, IsFiniteSet(R), R \subseteq RowRecs, Total(d, R),
         NEW s \in Sorted(d, R), NEW k \in Nat, NEW to \in Nat,
         k <= to, to <= Cardinality(R), NEW shown, Begins(shown, d, R, k),
         NEW rows, rows \in Seq(Ids), Len(rows) = to - k,
         \A i \in 1..(to - k) : rows[i] = s[k + i].id
  PROVE  /\ shown \o rows \in Seq(Ids) /\ Len(shown \o rows) = to
         /\ Begins(shown \o rows, d, R, to)
<1>1. PICK t \in Sorted(d, R) : shown = [i \in 1..k |-> t[i].id]
  BY DEF Begins
<1>2. t = s
  BY <1>1, SortedUnique
<1>3. PICK n : n = Cardinality(R)
  OBVIOUS
<1>4. n \in Nat /\ Len(s) = n /\ \A i \in 1..n : s[i] \in R
  BY <1>3, SortedFacts
<1>5. \A i \in 1..n : s[i].id \in Ids
  BY <1>4 DEF RowRecs
<1>6. shown \in Seq(Ids) /\ Len(shown) = k
  BY <1>1, <1>2, <1>3, <1>4, <1>5
<1>7. PICK m \in Nat : m = to - k
  OBVIOUS
<1>8. rows \in Seq(Ids) /\ Len(rows) = m
  BY <1>7
<1>9. PICK x : x = shown \o rows
  OBVIOUS
<1>10. /\ x \in Seq(Ids) /\ Len(x) = Len(shown) + Len(rows)
       /\ \A i \in 1..(Len(shown) + Len(rows)) :
            x[i] = IF i <= Len(shown) THEN shown[i] ELSE rows[i - Len(shown)]
  BY <1>6, <1>8, <1>9, ConcatProperties
<1>11. Len(shown) + Len(rows) = to
  BY <1>6, <1>7, <1>8
<1>12. ASSUME NEW i \in 1..to PROVE x[i] = s[i].id
  <2>1. CASE i <= k
    <3>1. x[i] = shown[i]
      BY <1>6, <1>10, <1>11, <2>1
    <3>2. i \in 1..k
      BY <2>1
    <3> QED
      BY <1>1, <1>2, <3>1, <3>2
  <2>2. CASE ~(i <= k)
    <3>1. i - k \in 1..(to - k) /\ k + (i - k) = i
      BY <2>2
    <3>2. x[i] = rows[i - k]
      BY <1>6, <1>10, <1>11, <2>2
    <3> QED
      BY <3>1, <3>2
  <2> QED
    BY <2>1, <2>2
<1>13. x \in [1..to -> Ids]
  BY <1>10, <1>11, LenProperties
<1>14. x = [i \in 1..to |-> s[i].id]
  BY <1>12, <1>13
<1>15. Begins(x, d, R, to)
  BY <1>3, <1>4, <1>14 DEF Begins
<1> QED
  BY <1>9, <1>10, <1>11, <1>15

\* The whole order names every entry once.
LEMMA BeginsAll ==
  ASSUME NEW d, NEW c \in Contents, NEW q, NEW shown,
         Begins(shown, d, Matching(c, q), Cardinality(Matching(c, q)))
  PROVE  /\ ToSet(shown) = DOMAIN c \cap q
         /\ Len(shown) = Cardinality(DOMAIN c \cap q)
<1>1. PICK R : R = Matching(c, q)
  OBVIOUS
<1>2. PICK W : W = DOMAIN c \cap q
  OBVIOUS
<1>3. PICK n : n = Cardinality(R)
  OBVIOUS
<1>4. IsFiniteSet(R)
  BY <1>1 DEF Begins
<1>5. PICK s \in Sorted(d, R) : shown = [i \in 1..n |-> s[i].id]
  BY <1>1, <1>3 DEF Begins
<1>6. /\ n \in Nat /\ s \in [1..n -> R]
      /\ \A i, j \in 1..n : s[i] = s[j] => i = j
      /\ \A r \in R : \E i \in 1..n : s[i] = r
  BY <1>3, <1>4, SeqBijection DEF Sorted
<1>7. \A r \in R : r.id \in W /\ r = Entry(c, r.id)
  BY <1>1, <1>2 DEF Matching, Entry
<1>8. \A i \in W : Entry(c, i) \in R /\ Entry(c, i).id = i
  BY <1>1, <1>2 DEF Matching, Entry
<1>9. shown \in [1..n -> W]
  BY <1>5, <1>6, <1>7
<1>10. ASSUME NEW i \in 1..n, NEW j \in 1..n, shown[i] = shown[j] PROVE i = j
  <2>1. s[i].id = s[j].id
    BY <1>5, <1>10
  <2> QED
    BY <1>6, <1>7, <2>1
<1>11. ASSUME NEW i \in W PROVE \E j \in 1..n : shown[j] = i
  <2>1. PICK j \in 1..n : s[j] = Entry(c, i)
    BY <1>6, <1>8
  <2> QED
    BY <1>5, <1>8, <2>1
<1>12. shown \in Injection(1..n, W) /\ shown \in Surjection(1..n, W)
  BY <1>9, <1>10, <1>11 DEF Injection, IsInjective, Surjection
<1>13. Cardinality(W) = n
  BY <1>6, <1>12, FS_CountingElements DEF ExistsBijection, Bijection
<1>14. Len(shown) = n
  BY <1>6, <1>9
<1>15. ToSet(shown) = W
  BY <1>9, <1>11 DEF ToSet
<1> QED
  BY <1>2, <1>13, <1>14, <1>15

\* At the end of a listing on an undisturbed trail its rows are the entries.
LEMMA RowsAreEntries ==
  ASSUME TypeInv, ListInv, ScanTrail, scan \in Scans, scan.step = "render", trail.steady
  PROVE  {r \in scan.rows : r.id \in scan.q} = Matching(db[scan.db], scan.q)
<1>1. PICK c : c = db[scan.db]
  OBVIOUS
<1>2. \A r \in scan.rows : r.id \in DOMAIN c /\ r = Entry(c, r.id)
  BY <1>1 DEF ScanTrail
<1>3. DOMAIN c \subseteq {r.id : r \in scan.rows}
  BY <1>1 DEF ScanTrail, ListInv
<1>4. ASSUME NEW i \in DOMAIN c \cap scan.q
      PROVE  Entry(c, i) \in scan.rows /\ Entry(c, i).id = i
  <2>1. PICK r \in scan.rows : r.id = i
    BY <1>3
  <2> QED
    BY <1>2, <2>1
<1>5. {r \in scan.rows : r.id \in scan.q} = Matching(c, scan.q)
  BY <1>2, <1>4 DEF Matching
<1> QED
  BY <1>1, <1>5

\* A page rendered on an undisturbed trail continues it up to the end of the
\* rows, or by a full page.
LEMMA RenderShows ==
  ASSUME TypeInv, ListInv, TrailInv, Render, trail'.steady
  PROVE  trail' \in Trails /\ TabTrail'
<1>1. scan \in Scans /\ scan.step = "render" /\ IsFiniteSet(scan.rows)
  BY DEF Render, TypeInv, ScanOK, NoScan
<1>2. PICK R : R = {r \in scan.rows : r.id \in scan.q}
  OBVIOUS
<1>3. IsFiniteSet(R)
  BY <1>1, <1>2, FS_Subset
<1>4. PICK s \in Sorted(scan.db, R) :
       LET first == WrapInt((scan.page - 1) * PageSize)
           last  == PageEnd(first)
           from  == Clamp(first, Len(s))
           to    == Clamp(last, Len(s))
           rows  == [i \in 1..(to - from) |-> s[from + i].id]
       IN  IF 0 <= from /\ from <= to /\ to <= Len(s)
             THEN /\ tab' = [kind |-> "list", db |-> scan.db, q |-> scan.q, token |-> token,
                             page |-> scan.page, rows |-> rows, hasNext |-> to < Len(s)]
                  /\ trail' = [trail EXCEPT !.shown = @ \o rows]
                  /\ UNCHANGED crashed
             ELSE /\ crashed' = TRUE
                  /\ tab' = NoTab /\ trail' = NoTrail
  BY <1>2 DEF Render
<1>5. PICK n : n = Cardinality(R)
  OBVIOUS
<1>6. n \in Nat /\ Len(s) = n
  BY <1>3, <1>5, SortedFacts
<1>7. PICK p \in PageNos : p = scan.page
  BY <1>1 DEF Scans
<1>8. PICK first : first = WrapInt((p - 1) * PageSize)
  OBVIOUS
<1>9. PICK last : last = PageEnd(first)
  OBVIOUS
<1>10. PICK from, to : from = Clamp(first, n) /\ to = Clamp(last, n)
  OBVIOUS
<1>11. PICK rows : rows = [i \in 1..(to - from) |-> s[from + i].id]
  OBVIOUS
<1>12. IF 0 <= from /\ from <= to /\ to <= n
         THEN /\ tab' = [kind |-> "list", db |-> scan.db, q |-> scan.q, token |-> token,
                         page |-> p, rows |-> rows, hasNext |-> to < n]
              /\ trail' = [trail EXCEPT !.shown = trail.shown \o rows]
         ELSE trail' = NoTrail
  BY <1>4, <1>6, <1>7, <1>8, <1>9, <1>10, <1>11
<1>13. /\ 0 <= from /\ from <= to /\ to <= n
       /\ tab' = [kind |-> "list", db |-> scan.db, q |-> scan.q, token |-> token,
                  page |-> p, rows |-> rows, hasNext |-> to < n]
       /\ trail' = [trail EXCEPT !.shown = trail.shown \o rows]
  BY <1>12 DEF NoTrail
<1>14. trail \in Trails /\ trail.steady
  BY <1>13 DEF TrailInv, Trails
<1>15. PICK c \in Contents : c = db[scan.db]
  BY <1>1 DEF TypeInv, DbOK, Scans
<1>16. R = Matching(c, scan.q) /\ R \subseteq RowRecs /\ Total(scan.db, R)
  BY <1>1, <1>2, <1>14, <1>15, RowsAreEntries, MatchingFacts DEF TrailInv
<1>17. p \in Nat /\ p >= 1 /\ PageSize \in Nat /\ PageSize >= 1 /\ PageSize <= MaxInt
       /\ MaxInt \in Nat
  BY AdminAssumption DEF PageNos
<1>18. PICK k \in Int : k = (p - 1) * PageSize
  BY <1>17
<1>19. k \in Nat /\ k + PageSize = p * PageSize
  BY <1>17, <1>18
<1>20. k <= MaxInt /\ Begins(trail.shown, scan.db, R, k)
  <2>1. CASE p = 1 /\ trail.shown = << >>
    <3>1. k = 0
      BY <1>17, <1>18, <2>1
    <3>2. trail.shown = [i \in 1..0 |-> s[i].id]
      BY <2>1
    <3> QED
      BY <1>3, <1>4, <1>6, <1>17, <3>1, <3>2 DEF Begins
  <2>2. CASE /\ (p - 1) * PageSize <= MaxInt
             /\ Begins(trail.shown, scan.db, R, (p - 1) * PageSize)
    BY <1>18, <2>2
  <2> QED
    BY <1>1, <1>7, <1>14, <1>15, <1>16, <2>1, <2>2 DEF TrailInv, ScanTrail
<1>21. k <= n
  <2>1. PICK t \in Sorted(scan.db, R) : k <= Len(t)
    BY <1>20 DEF Begins
  <2> QED
    BY <1>3, <1>5, <2>1, SortedFacts
<1>22. first = k
  BY <1>8, <1>17, <1>18, <1>19, <1>20, WrapOnce
<1>23. from = k
  BY <1>6, <1>10, <1>19, <1>21, <1>22 DEF Clamp
<1>24. last = IF k + PageSize <= MaxInt THEN k + PageSize
              ELSE k + PageSize - 2 * (MaxInt + 1)
  BY <1>9, <1>17, <1>19, <1>20, <1>22, WrapOnce DEF PageEnd
<1>25. to \in Nat /\ (to < n => to = p * PageSize /\ to <= MaxInt)
  <2>1. last \in Int /\ to = IF last > n THEN n ELSE last
    BY <1>10, <1>17, <1>19, <1>24 DEF Clamp
  <2>2. to \in Int /\ 0 <= to
    BY <1>6, <1>13, <1>19, <1>23, <2>1
  <2>3. ASSUME to < n PROVE to = k + PageSize /\ to <= MaxInt
    <3>1. to = last /\ 0 <= last
      BY <1>6, <2>1, <2>2, <2>3
    <3>2. k + PageSize <= MaxInt
      BY <1>17, <1>19, <1>20, <1>24, <3>1
    <3> QED
      BY <1>24, <3>1, <3>2
  <2> QED
    BY <1>19, <2>2, <2>3
<1>26. rows = [i \in 1..(to - k) |-> s[k + i].id]
  BY <1>11, <1>23
<1>27. PICK shown : shown = trail.shown \o rows
  OBVIOUS
<1>28. shown \in Seq(Ids) /\ Len(shown) = to /\ Begins(shown, scan.db, R, to)
  <2>1. PICK d, old : d = scan.db /\ old = trail.shown
    OBVIOUS
  <2>2. /\ IsFiniteSet(R) /\ R \subseteq RowRecs /\ Total(d, R)
        /\ s \in Sorted(d, R) /\ Begins(old, d, R, k)
        /\ k \in Nat /\ to \in Nat /\ k <= to /\ to <= Cardinality(R)
    BY <1>3, <1>4, <1>5, <1>13, <1>16, <1>19, <1>20, <1>23, <1>25, <1>26, <2>1
  <2>3. \A i \in 1..(to - k) : rows[i] = s[k + i].id
    BY <1>26
  <2>4. rows \in Seq(Ids) /\ Len(rows) = to - k
    <3>1. PICK m \in Nat : m = to - k
      BY <2>2
    <3>2. \A i \in 1..m : k + i \in 1..n
      BY <1>5, <1>6, <2>2, <3>1
    <3>3. \A i \in 1..n : s[i].id \in Ids
      BY <1>3, <1>5, <1>16, SortedFacts DEF RowRecs
    <3>4. rows \in [1..m -> Ids]
      BY <1>26, <3>1, <3>2, <3>3
    <3> QED
      BY <3>1, <3>4
  <2>5. /\ old \o rows \in Seq(Ids) /\ Len(old \o rows) = to
        /\ Begins(old \o rows, d, R, to)
    BY <2>2, <2>3, <2>4, BeginsExtended
  <2> QED
    BY <1>27, <2>1, <2>5
<1>29. /\ trail' \in Trails /\ trail'.shown = shown /\ trail'.db = trail.db
  BY <1>13, <1>14, <1>27, <1>28 DEF Trails
<1>30. /\ tab'.db = scan.db /\ tab'.q = scan.q /\ tab'.page = p
       /\ tab'.hasNext = (to < n)
  BY <1>13
<1>31. db' = db
  BY DEF Render
<1>32. trail.db = scan.db
  BY <1>1, <1>14 DEF TrailInv, ScanTrail
<1> QED
  BY <1>5, <1>15, <1>16, <1>25, <1>28, <1>29, <1>30, <1>31, <1>32 DEF TabTrail

\* Rendering appends names to what was shown, or ends the trail.
LEMMA RenderTrail ==
  ASSUME TypeInv, trail \in Trails, Render
  PROVE  trail' \in Trails \/ trail' = NoTrail
<1>1. CASE trail' = [trail EXCEPT !.shown = trail.shown \o tab'.rows] /\ tab'.rows \in Seq(Ids)
  <2>1. trail.shown \in Seq(Ids)
    BY DEF Trails
  <2>2. trail.shown \o tab'.rows \in Seq(Ids)
    BY <1>1, <2>1, ConcatProperties
  <2> QED
    BY <1>1, <2>2 DEF Trails
<1> QED
  BY <1>1, RenderEffect

\* Every step keeps the trail what it says it is.
LEMMA TrailStep ==
  ASSUME TypeInv, ListInv, TrailInv, [Next]_vars
  PROVE  TrailInv'
<1>0. trail \in Trails /\ ScanTrail /\ TabTrail /\ DbOK /\ ScanOK
  BY DEF TrailInv, TypeInv
<1>a. trail' \in Trails /\ ~trail'.steady => TrailInv'
  BY DEF TrailInv, ScanTrail, TabTrail
<1>b. trail' = NoTrail => trail' \in Trails /\ ~trail'.steady
  <2>1. << >> \in Seq(Ids) /\ {} \in Sets
    BY DEF Sets
  <2> QED
    BY <2>1 DEF NoTrail, Trails
<1>c. trail' = [trail EXCEPT !.steady = FALSE] => trail' \in Trails /\ ~trail'.steady
  BY <1>0 DEF Trails
<1>d. scan' = NoScan => ScanTrail'
  <2> SUFFICES ASSUME scan' = NoScan PROVE ScanTrail'
    OBVIOUS
  <2>1. scan' \notin Scans
    BY DEF NoScan, Scans, ScanSteps
  <2> QED
    BY <2>1 DEF ScanTrail
<1>e. tab'.kind # "list" => TabTrail'
  BY DEF TabTrail
<1>f. tab' = NoTab => tab'.kind # "list"
  BY DEF NoTab
<1>g. trail' = trail /\ tab' = tab /\ db' = db => TabTrail'
  BY <1>0 DEF TabTrail
<1>1. ASSUME NEW d \in Dbs, NEW c \in Contents, Changed(d, c), tab' \in {tab, NoTab}
      PROVE  TrailInv'
  <2>1. CASE trail.db = d
    BY <1>1, <1>a, <1>c, <2>1 DEF Changed
  <2>2. CASE trail.db # d
    <3>1. trail' = trail
      BY <1>1, <2>2 DEF Changed
    <3>2. \A e \in Dbs : e # d => db'[e] = db[e]
      BY <1>1, ChangedEffect
    <3>3. TabTrail'
      <4> SUFFICES ASSUME tab'.kind = "list", trail'.steady PROVE TabTrail'
        BY DEF TabTrail
      <4>1. tab' = tab
        BY <1>1, <1>f
      <4>2. tab.db = trail.db /\ tab.db \in Dbs
        BY <1>0, <3>1, <4>1 DEF TabTrail, TypeInv, TabOK
      <4>3. db'[tab.db] = db[tab.db]
        BY <2>2, <3>2, <4>2
      <4> QED
        BY <1>0, <3>1, <4>1, <4>3 DEF TabTrail
    <3>4. ScanTrail'
      <4> SUFFICES ASSUME scan' \in Scans, trail'.steady PROVE ScanTrail'
        BY DEF ScanTrail
      <4>1. scan \in Scans
        BY <1>0, <1>1, ChangedEffect DEF ScanOK, NoScan, Scans, ScanSteps
      <4>2. scan.db = trail.db /\ scan.db \in Dbs
        BY <1>0, <3>1, <4>1 DEF ScanTrail, Scans
      <4>3. db'[scan.db] = db[scan.db]
        BY <2>2, <3>2, <4>2
      <4>4. /\ scan'.db = scan.db /\ scan'.page = scan.page /\ scan'.q = scan.q
            /\ scan'.returned = scan.returned /\ scan'.batch = scan.batch
            /\ scan'.rows = scan.rows /\ scan'.unread = scan.unread
            /\ scan'.firm = scan.firm
        BY <1>1, <2>2, <4>1, <4>2, ChangedEffect
      <4> QED
        BY <1>0, <3>1, <4>1, <4>3, <4>4 DEF ScanTrail
    <3> QED
      BY <1>0, <3>1, <3>3, <3>4 DEF TrailInv
  <2> QED
    BY <2>1, <2>2
<1>2. CASE /\ db' = db /\ scan' = scan /\ trail' = trail
           /\ tab' \in {tab, NoTab} \/ Purge \/ PurgeBanner
  <2>1. ScanTrail'
    BY <1>0, <1>2 DEF ScanTrail
  <2>2. Purge \/ PurgeBanner => tab'.kind # "list"
    BY DEF Purge, PurgeBanner
  <2>3. TabTrail'
    BY <1>2, <1>e, <1>f, <1>g, <2>2
  <2> QED
    BY <1>0, <1>2, <2>1, <2>3 DEF TrailInv
<1>3. CASE Restart
  <2>1. db' = db /\ tab' = tab /\ scan' = NoScan /\ (trail' = trail \/ trail' = NoTrail)
    BY <1>3 DEF Restart
  <2> QED
    BY <1>0, <1>a, <1>b, <1>d, <1>g, <2>1 DEF TrailInv
<1>4. CASE ScanFails
  BY <1>4, <1>a, <1>b DEF ScanFails
<1>5. ASSUME NEW d \in Dbs, NEW n \in Pages, NEW q \in Queries, Open(d, n, q)
      PROVE  TrailInv'
  <2>1. PICK page \in PageNos :
          /\ StartScan(d, page, q) /\ q \in Sets /\ db' = db
          /\ trail' = [db |-> d, q |-> q, shown |-> << >>, steady |-> page = 1]
    BY <1>5, OpenEffect
  <2>2. /\ tab' = NoTab /\ scan'.db = d /\ scan'.page = page /\ scan'.batch = {}
        /\ scan'.rows = {} /\ scan'.unread = {} /\ scan'.firm = DOMAIN db[d]
    BY <2>1, StartEffect
  <2>3. /\ trail' \in Trails /\ trail'.db = d /\ trail'.shown = << >>
        /\ trail'.steady = (page = 1)
    <3>1. << >> \in Seq(Ids)
      OBVIOUS
    <3> QED
      BY <2>1, <3>1 DEF Trails
  <2>4. ScanTrail'
    BY <2>1, <2>2, <2>3 DEF ScanTrail
  <2> QED
    BY <1>e, <1>f, <2>2, <2>3, <2>4 DEF TrailInv
<1>6. CASE Follow
  <2>1. PICK d \in Dbs, page \in PageNos, q \in Sets :
          /\ StartScan(d, page, q) /\ tab.kind = "list" /\ tab.hasNext
          /\ page = tab.page + 1 /\ d = tab.db /\ q = tab.q
          /\ db' = db /\ trail' = trail
    BY <1>6, FollowEffect
  <2>2. /\ tab' = NoTab /\ scan'.db = d /\ scan'.page = page /\ scan'.batch = {}
        /\ scan'.rows = {} /\ scan'.unread = {} /\ scan'.firm = DOMAIN db[d]
        /\ scan'.q = q
    BY <2>1, StartEffect
  <2>3. tab.page \in Nat
    BY <2>1 DEF TypeInv, TabOK, PageNos
  <2>4. page - 1 = tab.page
    BY <2>1, <2>3
  <2>5. ASSUME trail.steady
        PROVE  /\ trail.db = d /\ (page - 1) * PageSize <= MaxInt
               /\ Begins(trail.shown, d, Matching(db[d], q), (page - 1) * PageSize)
    BY <1>0, <2>1, <2>4, <2>5 DEF TabTrail
  <2>6. ScanTrail'
    BY <2>1, <2>2, <2>5 DEF ScanTrail
  <2> QED
    BY <1>0, <1>e, <1>f, <2>1, <2>2, <2>6 DEF TrailInv
<1>7. CASE Scan
  <2>1. CASE scan'.batch \cap scan.returned # {}
    BY <1>7, <1>a, <1>c, <2>1, ScanEffect
  <2>2. CASE scan'.batch \cap scan.returned = {}
    <3>1. /\ scan \in Scans /\ scan.step = "scan" /\ db' = db /\ tab' = tab
          /\ scan'.db = scan.db /\ scan'.page = scan.page /\ scan'.rows = scan.rows
          /\ scan'.q = scan.q /\ scan'.firm = scan.firm /\ scan'.unread = scan.unread
          /\ scan'.batch \subseteq DOMAIN db[scan.db]
          /\ scan'.returned = scan.returned \cup scan'.batch
          /\ trail' = trail
      BY <1>7, <2>2, ScanEffect
    <3>2. ASSUME trail.steady, NEW r \in scan.rows
          PROVE  /\ r.id \in DOMAIN db[scan.db] \cap (scan'.returned \ scan'.batch)
                 /\ r = Entry(db[scan.db], r.id)
      BY <1>0, <2>2, <3>1, <3>2 DEF ScanTrail
    <3>3. ScanTrail'
      BY <1>0, <3>1, <3>2 DEF ScanTrail
    <3> QED
      BY <1>0, <1>g, <3>1, <3>3 DEF TrailInv
  <2> QED
    BY <2>1, <2>2
<1>8. CASE Read
  <2>1. /\ scan \in Scans /\ db' = db /\ tab' = tab
        /\ scan'.db = scan.db /\ scan'.page = scan.page /\ scan'.firm = scan.firm
        /\ scan'.returned = scan.returned /\ scan'.q = scan.q
    BY <1>8, ReadEffect
  <2>2. PICK id \in scan.batch :
          /\ scan'.batch = scan.batch \ {id}
          /\ \/ /\ scan'.rows = scan.rows \cup {Row(id)}
                /\ scan'.unread = scan.unread /\ trail' = trail
             \/ trail' = [trail EXCEPT !.steady = FALSE]
    BY <1>8, ReadEffect
  <2>3. CASE trail' = [trail EXCEPT !.steady = FALSE]
    BY <1>a, <1>c, <2>3
  <2>4. CASE /\ scan'.rows = scan.rows \cup {Row(id)}
             /\ scan'.unread = scan.unread /\ trail' = trail
    <3>1. ASSUME trail.steady
          PROVE  /\ Row(id) = Entry(db[scan.db], id)
                 /\ id \in DOMAIN db[scan.db] /\ id \in scan.returned
      <4>1. id \in DOMAIN db[scan.db] /\ id \in scan.returned
        BY <1>0, <2>1, <3>1 DEF ScanTrail
      <4>2. {r \in scan.rows : r.id = id} = {}
        BY <1>0, <2>1, <3>1 DEF ScanTrail
      <4>3. Cardinality({r \in scan.rows : r.id = id}) = 0
        BY <4>2, FS_EmptySet
      <4> QED
        BY <4>1, <4>3 DEF Row, Entry
    <3>2. ASSUME trail.steady, NEW r \in scan'.rows
          PROVE  /\ r.id \in DOMAIN db[scan.db] \cap (scan.returned \ scan'.batch)
                 /\ r = Entry(db[scan.db], r.id)
      <4>1. CASE r \in scan.rows
        BY <1>0, <2>1, <2>2, <3>2, <4>1 DEF ScanTrail
      <4>2. CASE r = Row(id)
        <5>1. r.id = id
          BY <3>1, <3>2, <4>2 DEF Entry
        <5> QED
          BY <2>2, <3>1, <3>2, <4>2, <5>1
      <4> QED
        BY <2>4, <4>1, <4>2
    <3>3. ScanTrail'
      BY <1>0, <2>1, <2>2, <2>4, <3>2 DEF ScanTrail
    <3> QED
      BY <1>0, <1>g, <2>1, <2>4, <3>3 DEF TrailInv
  <2> QED
    BY <2>2, <2>3, <2>4
<1>9. CASE Render
  <2>1. scan' = NoScan
    BY <1>9, RenderEffect
  <2>2. CASE trail'.steady
    BY <1>9, <1>d, <2>1, <2>2, RenderShows DEF TrailInv
  <2>3. CASE ~trail'.steady
    <3>1. trail' \in Trails
      BY <1>0, <1>9, <1>b, RenderTrail
    <3> QED
      BY <1>a, <2>3, <3>1
  <2> QED
    BY <2>2, <2>3
<1> QED
  BY <1>1, <1>2, <1>3, <1>4, <1>5, <1>6, <1>7, <1>8, <1>9, NextCases

\* Whoever opens page 1 and follows "next" to the last page sees every matching
\* entry exactly once, although each page is a scan and an unstable sort of its
\* own (admin.go paginate, sort.Slice), for any number of entries, any batches
\* and any page size, if nothing changed meanwhile.
THEOREM PagesCoverAllHolds == Spec => []PagesCoverAll
<1>1. Init => TrailInv
  <2> SUFFICES ASSUME Init PROVE TrailInv
    OBVIOUS
  <2>1. scan \notin Scans /\ tab.kind # "list"
    BY ListNone DEF Init, NoTab
  <2>2. << >> \in Seq(Ids) /\ {} \in Sets
    BY DEF Sets
  <2>3. trail \in Trails
    BY <2>2 DEF Init, NoTrail, Trails
  <2> QED
    BY <2>1, <2>3 DEF TrailInv, ScanTrail, TabTrail
<1>2. TypeInv /\ ListInv /\ TrailInv /\ [Next]_vars => TrailInv'
  BY TrailStep
<1>3. TypeInv /\ TrailInv => PagesCoverAll
  <2> SUFFICES ASSUME TypeInv, TrailInv, tab.kind = "list", ~tab.hasNext, trail.steady
               PROVE  /\ ToSet(trail.shown) = DOMAIN db[tab.db] \cap tab.q
                      /\ Len(trail.shown) = Cardinality(DOMAIN db[tab.db] \cap tab.q)
    BY DEF PagesCoverAll
  <2>1. PICK R : R = Matching(db[tab.db], tab.q)
    OBVIOUS
  <2>2. PICK k : k = Len(trail.shown)
    OBVIOUS
  <2>3. Begins(trail.shown, tab.db, R, k) /\ ~(k < Cardinality(R))
    BY <2>1, <2>2 DEF TrailInv, TabTrail
  <2>4. k \in Nat
    BY <2>2 DEF TrailInv, Trails
  <2>5. Cardinality(R) \in Nat /\ k <= Cardinality(R)
    BY <2>3, SortedFacts DEF Begins
  <2>6. k = Cardinality(R)
    BY <2>3, <2>4, <2>5
  <2>7. PICK c \in Contents : c = db[tab.db]
    BY DEF TypeInv, TabOK, DbOK
  <2>8. PICK d, q, shown : d = tab.db /\ q = tab.q /\ shown = trail.shown
    OBVIOUS
  <2>9. Begins(shown, d, Matching(c, q), Cardinality(Matching(c, q)))
    BY <2>1, <2>3, <2>6, <2>7, <2>8
  <2>10. ToSet(shown) = DOMAIN c \cap q /\ Len(shown) = Cardinality(DOMAIN c \cap q)
    BY <2>9, BeginsAll
  <2> QED
    BY <2>7, <2>8, <2>10
<1> QED
  BY <1>1, <1>2, <1>3, ListAlways, PTL DEF Spec
=============================================================================
