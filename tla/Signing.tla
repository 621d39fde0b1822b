------------------------------- MODULE Signing -------------------------------
(***************************************************************************)
(* internal/signing: what a client puts on a request, and what the front   *)
(* door makes of it.  A hash, and a MAC, is here the value it was made of: *)
(* two are equal when what went into them is.  Encodings that lose nothing *)
(* (a date as digits, a path segment with its escapes, a sum in hex) are   *)
(* left out; what loses something is kept: the case of a method, the order *)
(* of a query, a fraction of a second.                                     *)
(*                                                                         *)
(* A request is [method, path, query, body], its query a sequence of       *)
(* key-value pairs in the order they were sent.  Time is in ticks, of      *)
(* which a second has several.                                             *)
(***************************************************************************)
EXTENDS Integers, Sequences, FiniteSets

CONSTANTS
  Second,   \* ticks in a second: the precision of TimeFormat
  Day,      \* ticks in a day: the precision of a scope's date
  MaxSkew,  \* how far a timestamp may be from the verifier's clock
  Lower,    \* methods not written in capitals, and how they would be:
  Capital   \* a function from Lower

ASSUME SigningAssumption ==
  /\ Second \in Nat \ {0} /\ Day \in Nat \ {0} /\ MaxSkew \in Nat
  /\ DOMAIN Capital = Lower

Algorithm == "DARIYA1-HMAC-SHA256"
\* No date header, or one that is no date; no hash header; no signature.
NoDate == -1
BadDate == -2
NoHash == <<>>
NoSignature == <<>>

-----------------------------------------------------------------------------
(* Canonicalisation.                                                        *)

Upper(method) == IF method \in Lower THEN Capital[method] ELSE method

canonicalPath(path) == IF path = "" THEN "/" ELSE path

\* Sorted by key, then by value: what is left is how often each pair occurs.
canonicalQuery(query) ==
  [pair \in {query[i] : i \in DOMAIN query} |->
     Cardinality({i \in DOMAIN query : query[i] = pair})]

HashBody(body) == <<"sha256", body>>

\* Mutation: the timestamp is covered by the scope's date alone.
CanonicalStringUndated(req, scope, timestamp) ==
  <<Algorithm, Upper(req.method), canonicalPath(req.path), canonicalQuery(req.query),
    HashBody(req.body), scope>>

CanonicalString(req, scope, timestamp) ==
  <<Algorithm, Upper(req.method), canonicalPath(req.path), canonicalQuery(req.query),
    timestamp, HashBody(req.body), scope>>

mac(secret, message) == <<secret, message>>

-----------------------------------------------------------------------------
(* Signing.                                                                 *)

Stamp(time) == time - (time % Second)
DateOf(stamp) == stamp \div Day

\* A scope: the access key id, the date, the region and the service.
Scope(key, stamp, region, service) == <<key, DateOf(stamp), region, service>>

\* The Authorization header, X-Dariya-Date and X-Dariya-Content-Sha256.
Sign(req, cred, region, service, now) ==
  LET stamp == Stamp(now)
      scope == Scope(cred.key, stamp, region, service)
  IN [auth |-> [algorithm |-> Algorithm, credential |-> scope,
                signature |-> mac(cred.secret, CanonicalString(req, scope, stamp))],
      date |-> stamp,
      hash |-> HashBody(req.body)]

-----------------------------------------------------------------------------
(* Verification.                                                            *)

\* What ParseAuthorization makes of the header.
ParseAuthorization(auth) ==
  IF auth.algorithm # Algorithm THEN "unknown_algorithm"
  ELSE IF Len(auth.credential) # 4 THEN "malformed_credential_scope"
  ELSE IF auth.signature = NoSignature THEN "malformed_authorization_header"
  ELSE "parsed"

\* Mutation: the scope's date is to be the verifier's own.
VerifyToday(req, headers, secret, region, service, now) ==
  LET scope == headers.auth.credential IN
  IF headers.date = NoDate THEN "missing_date_header"
  ELSE IF headers.date = BadDate THEN "malformed_date_header"
  ELSE IF scope[2] # DateOf(now) THEN "date_header_disagrees_with_credential_scope"
  ELSE IF now - headers.date \notin (0 - MaxSkew) .. MaxSkew
    THEN "timestamp_outside_skew_window"
  ELSE IF scope[3] # region \/ scope[4] # service
    THEN "credential_scope_is_for_a_different_region_or_service"
  ELSE IF headers.hash # NoHash /\ headers.hash # HashBody(req.body)
    THEN "body_hash_does_not_match_body"
  ELSE IF headers.auth.signature # mac(secret, CanonicalString(req, scope, headers.date))
    THEN "signature_does_not_match"
  ELSE "ok"

\* Verify: what is cheap and unambiguous first, then the MAC.
Verify(req, headers, secret, region, service, now) ==
  LET scope == headers.auth.credential IN
  IF headers.date = NoDate THEN "missing_date_header"
  ELSE IF headers.date = BadDate THEN "malformed_date_header"
  ELSE IF scope[2] # DateOf(headers.date) THEN "date_header_disagrees_with_credential_scope"
  ELSE IF now - headers.date \notin (0 - MaxSkew) .. MaxSkew
    THEN "timestamp_outside_skew_window"
  ELSE IF scope[3] # region \/ scope[4] # service
    THEN "credential_scope_is_for_a_different_region_or_service"
  ELSE IF headers.hash # NoHash /\ headers.hash # HashBody(req.body)
    THEN "body_hash_does_not_match_body"
  ELSE IF headers.auth.signature # mac(secret, CanonicalString(req, scope, headers.date))
    THEN "signature_does_not_match"
  ELSE "ok"

=============================================================================
