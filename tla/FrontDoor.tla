------------------------------ MODULE FrontDoor ------------------------------
(***************************************************************************)
(* A request's way through the front door to the service that serves it    *)
(* (internal/authn, session, router, iam, authz, capability, proxy,        *)
(* servicekit): it is authenticated by its signature or by a console       *)
(* session, routed, decided by policies read a while ago, forwarded with a *)
(* capability, and checked again by a service that knows only the          *)
(* capability, its own clock and its own idea of what the path means.      *)
(*                                                                         *)
(* Meanwhile the clock runs, policies change, people sign out, and a       *)
(* forwarded call can arrive long after the proxy gave up on it.           *)
(*                                                                         *)
(* A path, an action, a resource and a pattern are sequences of pieces of  *)
(* text, so that one can be a prefix of another.  There is one principal:  *)
(* the account of every resource is the caller's own, taken from the       *)
(* principal by the front door and from the capability by the service.     *)
(***************************************************************************)
EXTENDS Integers, Sequences, SequencesExt

CONSTANTS
  Requests,    \* requests in flight
  Asks,        \* what can be asked: a method, a path, the CSRF token or not
  Tables,      \* the route tables considered
  Serves,      \* what the services' own handlers serve, written as routes
  Documents,   \* policy documents: sets of statements
  Sessions,    \* console sessions
  PolicyAge,   \* how old an answer of the policy cache can be (TtlCache)
  CapTTL,      \* a capability's lifetime
  Skew,        \* what the verifier allows for
  MaxLag,      \* how far a service's clock can be behind the front door's
  SessionTTL,
  LastSignIn,  \* bound on when people sign in
  MaxNow       \* bound on the clock

ASSUME FrontDoorAssumption ==
  /\ PolicyAge \in Nat /\ CapTTL \in Nat /\ Skew \in Nat
  /\ MaxLag \in Nat /\ SessionTTL \in Nat /\ LastSignIn \in Nat /\ MaxNow \in Nat

\* Route.Method of a route that takes any.
AnyMethod == ""

\* The services' patterns (chala/server.go:106-110, nache/api.go:79-82): each
\* names its method, http.ServeMux takes no pattern twice, a name follows a "/",
\* and no pattern spells out what another leaves to a name.
ASSUME ServesAssumption ==
  /\ \A s \in Serves :
       /\ s.prefix \in Seq(STRING) /\ s.method # AnyMethod /\ s.named \in BOOLEAN
       /\ s.named => Last(s.prefix) = "/"
  /\ \A s, t \in Serves :
       /\ s.method = t.method /\ s.prefix = t.prefix => s = t
       /\ s.named /\ Len(t.prefix) = Len(s.prefix) + 1 => ~IsPrefix(s.prefix, t.prefix)
  /\ \A ask \in Asks : ask.path \in Seq(STRING)

VARIABLES
  now,        \* the front door's clock
  table,      \* the route table
  policies,   \* the documents attached to the principal
  entry,      \* the policy cache: what was read, and when
  sessions,   \* rows: when each session expires
  requests,   \* what each handler, and then its call, has come to
  issued,     \* history: when each session that was ever issued expires
  signedOut,  \* history: the sessions signed out
  permitted   \* history: when each target was last permitted

auth == <<sessions, issued, signedOut>>
deciding == <<policies, entry, permitted>>
vars == <<now, table, auth, deciding, requests>>

-----------------------------------------------------------------------------
(* Routing.                                                                 *)

\* At a segment boundary.
MatchesPrefix(path, prefix) ==
  /\ IsPrefix(prefix, path)
  /\ path = prefix \/ Last(prefix) = "/" \/ path[Len(prefix) + 1] = "/"

Applies(route, ask) ==
  /\ route.method \in {AnyMethod, ask.method}
  /\ MatchesPrefix(ask.path, route.prefix)

\* Mutation: the first route that applies.
MatchFirst(routes, ask) ==
  {routes[i] : i \in {j \in DOMAIN routes :
    /\ Applies(routes[j], ask)
    /\ \A k \in DOMAIN routes : Applies(routes[k], ask) => j <= k}}

\* Table.Match: the longest prefix, and of equally long ones the first.
Match(routes, ask) ==
  {routes[i] : i \in {j \in DOMAIN routes :
    /\ Applies(routes[j], ask)
    /\ \A k \in DOMAIN routes \ {j} : Applies(routes[k], ask) =>
         \/ Len(routes[k].prefix) < Len(routes[j].prefix)
         \/ Len(routes[k].prefix) = Len(routes[j].prefix) /\ j < k}}

\* PathResource: the segment after the prefix, which is nothing special.
Id(prefix, path) ==
  {path[i] : i \in {j \in DOMAIN path : j = Len(prefix) + 1}} \ {"/", ":", "*"}

\* TargetFor: the route's action, on the resource the path names or, for a
\* route that names none, on the account.
TargetOf(route, path) ==
  {[action |-> route.action, resource |-> r] :
    r \in IF route.named
            THEN {<<route.service, route.type, i>> : i \in Id(route.prefix, path)}
            ELSE {<<route.service, "account">>}}

\* What a service's own handlers take the request for (http.ServeMux): a name
\* is one segment, and nothing may follow.
ServedAs(service, ask) ==
  UNION {TargetOf(s, ask.path) : s \in {t \in Serves :
    /\ t.service = service /\ t.method = ask.method
    /\ IsPrefix(t.prefix, ask.path)
    /\ Len(ask.path) = Len(t.prefix) + IF t.named THEN 1 ELSE 0}}

Targets ==
  UNION {TargetOf(route, ask.path) :
    route \in Serves \union UNION {Range(t) : t \in Tables}, ask \in Asks}

-----------------------------------------------------------------------------
Never == -1
Times == 0 .. MaxNow
Signed == "signed"
NoEntry == [docs |-> {}, at |-> Never]
Idle == [at |-> "idle"]

Arriving ==
  [at : {"authn", "clock", "decide"}, ask : Asks, by : {Signed} \union Sessions,
   good : BOOLEAN, expires : {Never} \union 0 .. LastSignIn + SessionTTL]
Forwarded ==
  [at : {"sent", "late"}, ask : Asks, target : Targets, expires : 0 .. MaxNow + CapTTL]
Acted == [at : {"acted"}, did : Targets]
Refused ==
  [at : {"unauthenticated", "denied", "error", "expired", "mismatch", "not found"}]
Request == {Idle} \union Arriving \union Forwarded \union Acted \union Refused

TypeOK ==
  /\ now \in Times
  /\ table \in Tables
  /\ policies \in SUBSET Documents
  /\ entry \in [docs : SUBSET Documents, at : {Never} \union Times]
  /\ sessions \in [Sessions -> {Never} \union 0 .. LastSignIn + SessionTTL]
  /\ issued \in [Sessions -> {Never} \union 0 .. LastSignIn + SessionTTL]
  /\ signedOut \in SUBSET Sessions
  /\ permitted \in [Targets -> {Never} \union Times]
  /\ requests \in [Requests -> Request]

-----------------------------------------------------------------------------
(* Policies.                                                                *)

\* iam.Match: an exact string, or a prefix ending in "*".
Covers(pattern, value) ==
  IF pattern # <<>> /\ Last(pattern) = "*"
    THEN IsPrefix(Front(pattern), value)
    ELSE pattern = value

Matches(statement, t) ==
  /\ \E p \in statement.actions : Covers(p, t.action)
  /\ \E p \in statement.resources : Covers(p, t.resource)

\* A deny wins, then an allow, and nothing else is one.
Evaluate(docs, t) ==
  LET Says(effect) == \E d \in docs : \E s \in d : s.effect = effect /\ Matches(s, t)
  IN IF Says("deny") THEN "deny" ELSE IF Says("allow") THEN "allow" ELSE "implicit"

\* What the rules are to mean, of all that any statement says.
Permits(docs, t) ==
  LET said == {s.effect : s \in {x \in UNION docs : Matches(x, t)}}
  IN "allow" \in said /\ "deny" \notin said

\* The history: a target is permitted at an instant if it was at any time in it.
Note(docs, time) ==
  permitted' = [t \in Targets |-> IF Permits(docs, t) THEN time ELSE permitted[t]]

\* A policy is attached, detached, written or deleted (module Directory).
ChangePolicies ==
  /\ policies' \in SUBSET Documents
  /\ Note(policies', now)
  /\ UNCHANGED <<now, table, auth, entry, requests>>

\* A Get of some other request loads.
Refresh ==
  /\ entry' = [docs |-> policies, at |-> now]
  /\ UNCHANGED <<now, table, auth, policies, permitted, requests>>

Usable(time) == entry.at # Never /\ time <= entry.at + PolicyAge

-----------------------------------------------------------------------------
(* Requests.                                                                *)

Is(r, at) == requests[r].at = at
Working == {"authn", "clock", "decide", "sent"}
Ends(r, how) == requests' = [requests EXCEPT ![r] = [at |-> how]]
Acts(r, t) == requests' = [requests EXCEPT ![r] = [at |-> "acted", did |-> t]]

\* Is the session good?  It was issued, is not signed out, and has not expired.
Good(s) == issued[s] # Never /\ s \notin signedOut /\ now <= issued[s]

\* A client signs a request, or sends the cookie of a session it was given
\* (a signature wins over a cookie); and a page that is not the console cannot
\* send the token.
Send(r, ask, by) ==
  /\ Is(r, "idle")
  /\ by # Signed => issued[by] # Never
  /\ requests' = [requests EXCEPT ![r] =
       [at |-> "authn", ask |-> ask, by |-> by,
        good |-> by # Signed /\ Good(by), expires |-> Never]]
  /\ UNCHANGED <<now, table, auth, deciding>>

\* The signature is good, or it is not, or the key is unknown (TtlCache).
AuthenticateSignature(r) ==
  /\ Is(r, "authn") /\ requests[r].by = Signed
  /\ \/ requests' = [requests EXCEPT ![r].at = "decide"]
     \/ Ends(r, "error")
  /\ UNCHANGED <<now, table, auth, deciding>>

\* The session could not be read: to the client, an authentication failure too.
ResolveFails(r) ==
  /\ Is(r, "authn") /\ requests[r].by # Signed
  /\ Ends(r, "error")
  /\ UNCHANGED <<now, table, auth, deciding>>

\* Resolve: the row, then the clock, then for what changes state the CSRF token.
ResolveRow(r) ==
  /\ Is(r, "authn") /\ requests[r].by # Signed
  /\ LET expires == sessions[requests[r].by] IN
       IF expires = Never
         THEN Ends(r, "unauthenticated")
         ELSE requests' = [requests EXCEPT ![r].at = "clock", ![r].expires = expires]
  /\ UNCHANGED <<now, table, auth, deciding>>

ResolveClock(r) ==
  /\ Is(r, "clock")
  /\ IF now > requests[r].expires THEN Ends(r, "unauthenticated")
     ELSE IF requests[r].ask.method # "GET" /\ ~requests[r].ask.csrf
       THEN Ends(r, "error")
     ELSE requests' = [requests EXCEPT ![r].at = "decide"]
  /\ UNCHANGED <<now, table, auth, deciding>>

\* Mutation: the lifetime of a session.
MintForSession(ask, t) ==
  [at |-> "sent", ask |-> ask, target |-> t, expires |-> now + SessionTTL]

\* Mint, for exactly this request.
Mint(ask, t) == [at |-> "sent", ask |-> ask, target |-> t, expires |-> now + CapTTL]

\* No route, or a path that names nothing: an error, and policies are not asked.
NoTarget(r) ==
  /\ Is(r, "decide")
  /\ \A route \in Match(table, requests[r].ask) : TargetOf(route, requests[r].ask.path) = {}
  /\ Ends(r, "error")
  /\ UNCHANGED <<now, table, auth, deciding>>

\* Authorize, Mint and dispatch: in memory, but for policies no longer cached.
\* What is not allowed is denied; a route with a handler is served right here.
DecideBy(r, docs) ==
  \E route \in Match(table, requests[r].ask) :
    \E t \in TargetOf(route, requests[r].ask.path) :
      IF Evaluate(docs, t) # "allow" THEN Ends(r, "denied")
      ELSE IF route.here THEN Acts(r, t)
      ELSE requests' = [requests EXCEPT ![r] = Mint(requests[r].ask, t)]

Decide(r) ==
  /\ Is(r, "decide")
  /\ \/ Usable(now) /\ DecideBy(r, entry.docs) /\ UNCHANGED entry
     \/ ~Usable(now) /\ DecideBy(r, policies) /\ entry' = [docs |-> policies, at |-> now]
  /\ UNCHANGED <<now, table, auth, policies, permitted>>

\* The policies could not be read: an error, not a denial.
DecideFails(r) ==
  /\ Is(r, "decide")
  /\ Ends(r, "error")
  /\ UNCHANGED <<now, table, auth, deciding>>

\* Mutation: no timeout.
GiveUpNever(r) ==
  /\ Is(r, "sent") /\ FALSE
  /\ UNCHANGED vars

\* The proxy's timeout, or the client hangs up; the call is still on its way.
GiveUp(r) ==
  /\ Is(r, "sent")
  /\ requests' = [requests EXCEPT ![r].at = "late"]
  /\ UNCHANGED <<now, table, auth, deciding>>

\* Verify, by a service's clock.
Expired(r, clock) == clock - Skew > requests[r].expires

\* Mutation: a capability that verifies will do.
ServeUnchecked(r) ==
  /\ requests[r].at \in {"sent", "late"}
  /\ LET intents == ServedAs(requests[r].target.resource[1], requests[r].ask) IN
       \/ intents = {} /\ Ends(r, "not found")
       \/ \E t \in intents, clock \in now - MaxLag .. now + MaxLag :
            IF Expired(r, clock) THEN Ends(r, "expired") ELSE Acts(r, t)
  /\ UNCHANGED <<now, table, auth, deciding>>

\* The service: its route, then Guard.authorize, which takes a capability only
\* for exactly what the service is about to do.
Serve(r) ==
  /\ requests[r].at \in {"sent", "late"}
  /\ LET intents == ServedAs(requests[r].target.resource[1], requests[r].ask) IN
       \/ intents = {} /\ Ends(r, "not found")
       \/ \E t \in intents, clock \in now - MaxLag .. now + MaxLag :
            IF Expired(r, clock) THEN Ends(r, "expired")
            ELSE IF t # requests[r].target THEN Ends(r, "mismatch")
            ELSE Acts(r, t)
  /\ UNCHANGED <<now, table, auth, deciding>>

\* The answer; or a late call is lost.
Return(r) ==
  /\ ~Is(r, "idle") /\ requests[r].at \notin Working
  /\ requests' = [requests EXCEPT ![r] = Idle]
  /\ UNCHANGED <<now, table, auth, deciding>>

-----------------------------------------------------------------------------
(* Sessions, and the clock.                                                 *)

SignIn(s) ==
  /\ issued[s] = Never /\ now <= LastSignIn
  /\ sessions' = [sessions EXCEPT ![s] = now + SessionTTL]
  /\ issued' = [issued EXCEPT ![s] = now + SessionTTL]
  /\ UNCHANGED <<now, table, signedOut, deciding, requests>>

\* Twice is as good as once.
SignOut(s) ==
  /\ issued[s] # Never
  /\ sessions' = [sessions EXCEPT ![s] = Never]
  /\ signedOut' = signedOut \union {s}
  /\ UNCHANGED <<now, table, issued, deciding, requests>>

\* Mutation: sessions that expire now are swept.
SweepExpiredAtOnce ==
  /\ sessions' = [s \in Sessions |-> IF sessions[s] <= now THEN Never ELSE sessions[s]]
  /\ UNCHANGED <<now, table, issued, signedOut, deciding, requests>>

\* DELETE ... WHERE expires_at_ms < now.
SweepExpired ==
  /\ sessions' = [s \in Sessions |-> IF sessions[s] < now THEN Never ELSE sessions[s]]
  /\ UNCHANGED <<now, table, issued, signedOut, deciding, requests>>

\* What is answered is answered at once.  An entry that is too old is none.
Tick ==
  /\ now < MaxNow
  /\ \A r \in Requests : requests[r].at \in Working \union {"idle", "late"}
  /\ now' = now + 1
  /\ Note(policies, now')
  /\ entry' = IF Usable(now') THEN entry ELSE NoEntry
  /\ UNCHANGED <<table, auth, policies, requests>>

-----------------------------------------------------------------------------
Init ==
  /\ now = 0
  /\ table \in Tables
  /\ policies = {}
  /\ entry = NoEntry
  /\ sessions = [s \in Sessions |-> Never]
  /\ requests = [r \in Requests |-> Idle]
  /\ issued = [s \in Sessions |-> Never]
  /\ signedOut = {}
  /\ permitted = [t \in Targets |-> Never]

\* What the front door does of its own accord.
Handle(r) ==
  \/ AuthenticateSignature(r) \/ ResolveRow(r) \/ ResolveFails(r) \/ ResolveClock(r)
  \/ NoTarget(r) \/ Decide(r) \/ DecideFails(r) \/ GiveUp(r)

Next ==
  \/ \E r \in Requests :
       \/ \E ask \in Asks, by \in {Signed} \union Sessions : Send(r, ask, by)
       \/ Handle(r) \/ Serve(r) \/ Return(r)
  \/ \E s \in Sessions : SignIn(s) \/ SignOut(s)
  \/ SweepExpired \/ ChangePolicies \/ Refresh \/ Tick

Spec == Init /\ [][Next]_vars

\* A handler runs on, and the proxy's timeout passes.  A service need not answer.
FairSpec == Spec /\ \A r \in Requests : WF_vars(Handle(r))

-----------------------------------------------------------------------------
\* What is done was permitted a bounded time before: the age of the cached
\* policies, the capability's lifetime, and what the clocks allow, together
\* (DESIGN.md:221, capability.go:43-44), however late the call arrives and
\* whatever the route table says the request is.
RevocationIsBounded ==
  \A r \in Requests :
    Is(r, "acted") =>
      LET t == permitted[requests[r].did] IN
        t # Never /\ now - t <= PolicyAge + CapTTL + Skew + MaxLag

\* A session is taken until the last instant of its lifetime and never after
\* a sign-out, sweeper or not (session.go:160-211): who is let in had a good
\* session when the request was sent, who is turned away has none any more.
LetIn(r) == Is(r, "clock") /\ requests'[r].at = "decide"
TurnedAway(r) ==
  /\ requests[r].at \in {"authn", "clock"}
  /\ requests'[r].at = "unauthenticated"
SessionsAreExact ==
  [][\A r \in Requests :
       /\ LetIn(r) => requests[r].good
       /\ TurnedAway(r) => ~Good(requests[r].by)]_vars

\* A table in which each route is declared as its service serves it, in any
\* order, decides each request as what the service takes it for
\* (main.go:137-139, routes.go:58-59): only a wrong declaration is refused.
Declared == {route \in Range(table) : ~route.here} = Serves
DecidedAsServed == \A r \in Requests : Is(r, "mismatch") => ~Declared

\* The client is answered, even if the service never is heard of again
\* (proxy.go:126-139).
Answered == \A r \in Requests : requests[r].at \in Working ~> requests[r].at \notin Working
=============================================================================
