------------------------------- MODULE Check -------------------------------
(***************************************************************************)
(* The /check handler: how one request is reduced to the identity that is  *)
(* counted, handed to Limiter.Decide and answered, with a panic possible   *)
(* anywhere before the answer.  A header or a query value is a member of a *)
(* small set; Empty stands for "" and for a missing value alike, as        *)
(* Header.Get and Values.Get report them.                                  *)
(***************************************************************************)
EXTENDS Naturals, Sequences

CONSTANTS
  Keys,      \* api keys and tokens
  Ips,       \* texts net.ParseIP accepts
  Garbage,   \* a text it rejects
  Empty      \* ""

ASSUME CheckAssumption == Empty \notin Keys \cup Ips /\ Garbage \notin Ips \cup {Empty}

Query   == [api_key : Keys \cup {Empty}, token : Keys \cup {Empty}]
NoQuery == [api_key |-> Empty, token |-> Empty]

\* X-Original-URI: missing, not parseable by url.Parse, or a URI's query.
OriginalUri == [kind : {"missing", "malformed"}, query : {NoQuery}]
                 \cup [kind : {"uri"}, query : Query]

\* X-Real-IP: a text that may be padded with spaces.
RealIp == [text : Ips \cup {Garbage, Empty}, padded : BOOLEAN]

HttpRequest == [xApiKey : Keys \cup {Empty}, query : Query,
                xOriginalUri : OriginalUri, xRealIp : RealIp]

VARIABLES
  r,         \* the request
  stage,     \* "extract", "decide", "respond", "done"
  apiKey, ip,
  allowed,   \* what Decide returned
  counted,   \* the identity Decide counted the request under, or <<>>
  status     \* the HTTP status, 0 before the answer

vars == <<r, stage, apiKey, ip, allowed, counted, status>>

\* Query.Get("api_key"), else Query.Get("token").
QueryKeyTokenFirst(q) == IF q.token # Empty THEN q.token ELSE q.api_key
QueryKey(q) == IF q.api_key # Empty THEN q.api_key ELSE q.token

extractKey(q) ==
  IF q.xApiKey # Empty THEN q.xApiKey
  ELSE IF QueryKey(q.query) # Empty THEN QueryKey(q.query)
  ELSE IF q.xOriginalUri.kind = "uri" THEN QueryKey(q.xOriginalUri.query)
  ELSE Empty

\* TrimSpace, then net.ParseIP: only a valid address is used.
extractIPUnchecked(q) == q.xRealIp.text
extractIP(q) == IF q.xRealIp.text \in Ips THEN q.xRealIp.text ELSE Empty

Init == /\ r \in HttpRequest
        /\ stage = "extract"
        /\ apiKey = Empty /\ ip = Empty
        /\ allowed = FALSE
        /\ counted = << >>
        /\ status = 0

Extract == /\ stage = "extract"
           /\ apiKey' = extractKey(r)
           /\ ip' = extractIP(r)
           /\ stage' = "decide"
           /\ UNCHANGED <<r, allowed, counted, status>>

\* Limiter.Decide: nothing to count by, or a decision for the key, else the IP.
Decide == /\ stage = "decide"
          /\ stage' = "respond"
          /\ IF apiKey = Empty /\ ip = Empty
               THEN allowed' = TRUE /\ UNCHANGED counted
               ELSE /\ allowed' \in BOOLEAN
                    /\ counted' = IF apiKey # Empty THEN <<"key", apiKey>> ELSE <<"ip", ip>>
          /\ UNCHANGED <<r, apiKey, ip, status>>

Respond == /\ stage = "respond"
           /\ status' = IF allowed THEN 200 ELSE 403
           /\ stage' = "done"
           /\ UNCHANGED <<r, apiKey, ip, allowed, counted>>

\* A panic before the answer is recovered by the deferred function.
PanicClosed == /\ stage # "done"
               /\ status' = IF allowed THEN 200 ELSE 403
               /\ stage' = "done"
               /\ UNCHANGED <<r, apiKey, ip, allowed, counted>>
PanicLost == /\ stage # "done"
             /\ stage' = "done"
             /\ UNCHANGED <<r, apiKey, ip, allowed, counted, status>>
Panic == /\ stage # "done"
         /\ status' = 200
         /\ stage' = "done"
         /\ UNCHANGED <<r, apiKey, ip, allowed, counted>>

Next == Extract \/ Decide \/ Respond \/ Panic

Spec == Init /\ [][Next]_vars /\ WF_vars(Next)
-----------------------------------------------------------------------------
\* The documented sources of an identity, in order of priority.
Sources == <<r.xApiKey, r.query.api_key, r.query.token,
             r.xOriginalUri.query.api_key, r.xOriginalUri.query.token>>

Candidates == {i \in DOMAIN Sources : Sources[i] # Empty}

\* A request is counted under the first non-empty of the five key sources of
\* extractKey; under its address only if it has no key and the address is
\* valid; and it is never counted under a text that is no address.
IdentityAsDocumented ==
  counted # << >> =>
    IF Candidates # {}
      THEN \E i \in Candidates : /\ \A j \in Candidates : i <= j
                                 /\ counted = <<"key", Sources[i]>>
      ELSE counted = <<"ip", r.xRealIp.text>> /\ r.xRealIp.text \in Ips

\* Fail open: nginx gets 200 or 403, and 403 only for a request that Decide
\* counted and refused; in particular never because of a panic on the way.
FailOpen ==
  status # 0 => /\ status \in {200, 403}
                /\ status = 403 => ~allowed /\ counted # << >>

\* Every request is answered, panics included.
Answered == <>(status # 0)
=============================================================================
