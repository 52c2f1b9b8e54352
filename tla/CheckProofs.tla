----------------------------- MODULE CheckProofs -----------------------------
(***************************************************************************)
(* Theorems about the /check handler for every set of keys and addresses.  *)
(***************************************************************************)
EXTENDS Check, TLAPS

Stages == {"extract", "decide", "respond", "done"}

TypeInv == r \in HttpRequest /\ stage \in Stages /\ allowed \in BOOLEAN

\* What extractKey and extractIP found is still what the handler uses.
Extracted == stage \in {"decide", "respond"} => apiKey = extractKey(r) /\ ip = extractIP(r)

\* A request is counted under its key if it has one, else under its address.
CountedAs ==
  counted # << >> =>
    \/ extractKey(r) # Empty /\ counted = <<"key", extractKey(r)>>
    \/ extractKey(r) = Empty /\ extractIP(r) # Empty /\ counted = <<"ip", extractIP(r)>>

\* Decide refuses only what it has counted.
RefusedIsCounted == stage = "respond" /\ ~allowed => counted # << >>

\* The answer comes last.
Unanswered == stage # "done" => status = 0

HandlerInv == TypeInv /\ Extracted /\ CountedAs /\ RefusedIsCounted /\ Unanswered /\ FailOpen

\* Initially and in every step.
LEMMA HandlerInductive == /\ Init => HandlerInv
                          /\ HandlerInv /\ [Next]_vars => HandlerInv'
<1> USE DEF HandlerInv, TypeInv, Stages, Extracted, CountedAs, RefusedIsCounted,
            Unanswered, FailOpen
<1>1. Init => HandlerInv
  BY DEF Init
<1>2. ASSUME HandlerInv, Extract PROVE HandlerInv'
  BY <1>2 DEF Extract
<1>3. ASSUME HandlerInv, Decide PROVE HandlerInv'
  <2>1. /\ stage = "decide" /\ stage' = "respond" /\ status = 0 /\ status' = 0
        /\ r' = r /\ apiKey' = extractKey(r) /\ ip' = extractIP(r)
    BY <1>3 DEF Decide
  <2>2. CASE apiKey = Empty /\ ip = Empty
    <3>1. allowed' /\ allowed' \in BOOLEAN /\ counted' = counted
      BY <1>3, <2>2, Zenon DEF Decide
    <3> QED
      BY <1>3, <2>1, <3>1
  <2>3. CASE ~(apiKey = Empty /\ ip = Empty)
    <3>1. allowed' \in BOOLEAN
      BY <1>3, <2>3 DEF Decide
    <3>2. counted' = IF apiKey # Empty THEN <<"key", apiKey>> ELSE <<"ip", ip>>
      BY <1>3, <2>3, Zenon DEF Decide
    <3>3. counted' # << >>
      BY <3>2
    <3>4. CountedAs'
      BY <1>3, <2>1, <2>3, <3>2
    <3> QED
      BY <1>3, <2>1, <3>1, <3>3, <3>4
  <2> QED
    BY <2>2, <2>3
<1>4. ASSUME HandlerInv, Respond PROVE HandlerInv'
  BY <1>4 DEF Respond
<1>5. ASSUME HandlerInv, Panic PROVE HandlerInv'
  BY <1>5 DEF Panic
<1>6. ASSUME HandlerInv, UNCHANGED vars PROVE HandlerInv'
  BY <1>6 DEF vars
<1> QED
  BY <1>1, <1>2, <1>3, <1>4, <1>5, <1>6 DEF Next

\* nginx never gets anything but 200 and 403, and 403 only for a request that
\* was counted and refused, whatever panics on the way.
THEOREM FailOpenHolds == Spec => []FailOpen
<1>1. HandlerInv => FailOpen
  BY DEF HandlerInv
<1> QED
  BY <1>1, HandlerInductive, PTL DEF Spec

\* The nested conditions of extractKey pick the first non-empty one of the
\* five documented sources.
LEMMA FirstSource ==
  ASSUME r \in HttpRequest
  PROVE  /\ Candidates = {} => extractKey(r) = Empty
         /\ Candidates # {} => \E i \in Candidates : /\ \A j \in Candidates : i <= j
                                                     /\ extractKey(r) = Sources[i]
                                                     /\ Sources[i] # Empty
<1> DEFINE s == Sources
<1>1. /\ DOMAIN s = 1..5
      /\ s[1] = r.xApiKey /\ s[2] = r.query.api_key /\ s[3] = r.query.token
      /\ s[4] = r.xOriginalUri.query.api_key /\ s[5] = r.xOriginalUri.query.token
  BY DEF Sources
<1>2. r.xOriginalUri.kind # "uri" => s[4] = Empty /\ s[5] = Empty
  BY <1>1 DEF HttpRequest, OriginalUri, NoQuery
<1>3. Candidates = {i \in 1..5 : s[i] # Empty}
  BY <1>1 DEF Candidates
<1>4. extractKey(r) = IF s[1] # Empty THEN s[1] ELSE IF s[2] # Empty THEN s[2]
                      ELSE IF s[3] # Empty THEN s[3] ELSE IF s[4] # Empty THEN s[4]
                      ELSE s[5]
  BY <1>1, <1>2 DEF extractKey, QueryKey
<1> HIDE DEF s
<1> QED
  BY <1>3, <1>4 DEF s

\* The identity a request is counted under is the documented one: the first
\* non-empty key source, else a valid address, never anything else.
THEOREM IdentityHolds == Spec => []IdentityAsDocumented
<1>1. HandlerInv => IdentityAsDocumented
  <2> SUFFICES ASSUME HandlerInv, counted # << >> PROVE IdentityAsDocumented
    BY DEF IdentityAsDocumented
  <2>1. r \in HttpRequest
    BY DEF HandlerInv, TypeInv
  <2>2. extractIP(r) # Empty => r.xRealIp.text \in Ips /\ extractIP(r) = r.xRealIp.text
    BY DEF extractIP
  <2> QED
    BY <2>1, <2>2, FirstSource DEF HandlerInv, CountedAs, IdentityAsDocumented
<1> QED
  BY <1>1, HandlerInductive, PTL DEF Spec
=============================================================================
