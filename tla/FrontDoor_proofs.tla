-------------------------- MODULE FrontDoor_proofs --------------------------
(***************************************************************************)
(* Theorems about module FrontDoor, for every set of requests, routes,     *)
(* policies and sessions and every lifetime, skew and lag.                 *)
(***************************************************************************)
EXTENDS FrontDoor, TLAPS

-----------------------------------------------------------------------------
(* Type correctness.                                                        *)

LEMMA Constants ==
  /\ PolicyAge \in Nat /\ CapTTL \in Nat /\ Skew \in Nat /\ MaxLag \in Nat
  /\ SessionTTL \in Nat /\ LastSignIn \in Nat /\ MaxNow \in Nat
BY FrontDoorAssumption

Expiries == {Never} \union 0 .. LastSignIn + SessionTTL

LEMMA Types ==
  ASSUME TypeOK
  PROVE  /\ now \in 0 .. MaxNow /\ now \in Nat /\ table \in Tables
         /\ policies \in SUBSET Documents
         /\ entry \in [docs : SUBSET Documents, at : {Never} \union Times]
         /\ sessions \in [Sessions -> Expiries] /\ issued \in [Sessions -> Expiries]
         /\ signedOut \in SUBSET Sessions
         /\ permitted \in [Targets -> {Never} \union Times]
         /\ requests \in [Requests -> Request]
BY Constants DEF TypeOK, Times, Expiries

\* Which record a request is, by where it is.
LEMMA Shape ==
  ASSUME NEW q \in Request
  PROVE  /\ q.at \in {"authn", "clock", "decide"} => q \in Arriving
         /\ q.at \in {"sent", "late"} => q \in Forwarded
         /\ q.at = "acted" => q \in Acted
<1>1. q = Idle => q.at = "idle"
  BY DEF Idle
<1>2. q \in Arriving => q.at \in {"authn", "clock", "decide"}
  BY DEF Arriving
<1>3. q \in Forwarded => q.at \in {"sent", "late"}
  BY DEF Forwarded
<1>4. q \in Acted => q.at = "acted"
  BY DEF Acted
<1>5. q \in Refused =>
        q.at \in {"unauthenticated", "denied", "error", "expired", "mismatch", "not found"}
  BY DEF Refused
<1>6. q = Idle \/ q \in Arriving \/ q \in Forwarded \/ q \in Acted \/ q \in Refused
  BY DEF Request
<1> QED
  BY <1>1, <1>2, <1>3, <1>4, <1>5, <1>6

Becomes(r, q) == requests' = [requests EXCEPT ![r] = q]

LEMMA Becoming ==
  ASSUME TypeOK, NEW r \in Requests, NEW q \in Request, Becomes(r, q)
  PROVE  /\ requests' \in [Requests -> Request]
         /\ requests'[r] = q
         /\ \A p \in Requests \ {r} : requests'[p] = requests[p]
BY DEF TypeOK, Becomes

\* Where a request is taken is a target.
LEMMA RoutedIsTarget ==
  ASSUME TypeOK, NEW ask \in Asks, NEW route \in Match(table, ask),
         NEW t \in TargetOf(route, ask.path)
  PROVE  t \in Targets
<1>1. route \in Range(table)
  BY DEF Match, Range
<1>2. table \in Tables
  BY DEF TypeOK
<1>3. route \in UNION {Range(u) : u \in Tables}
  BY <1>1, <1>2, Zenon
<1>4. route \in Serves \union UNION {Range(u) : u \in Tables}
  BY <1>3, Zenon
<1> DEFINE All == Serves \union UNION {Range(u) : u \in Tables}
           Sets == {TargetOf(rt, a.path) : rt \in All, a \in Asks}
<1>5. TargetOf(route, ask.path) \in Sets
  <2> HIDE DEF All
  <2>1. route \in All
    BY <1>4 DEF All
  <2> QED
    BY <2>1
<1>6. Targets = UNION Sets
  BY DEF Targets
<1> HIDE DEF Sets, All
<1> QED
  BY <1>5, <1>6

\* The steps of one request, each by what becomes of it.
Sends(r, q) == \E ask \in Asks, by \in {Signed} \union Sessions :
  /\ by # Signed => issued[by] # Never
  /\ q = [at |-> "authn", ask |-> ask, by |-> by,
          good |-> by # Signed /\ Good(by), expires |-> Never]
Reads(r, q) ==
  /\ Is(r, "authn") /\ requests[r].by # Signed
  /\ sessions[requests[r].by] # Never
  /\ q = [requests[r] EXCEPT !.at = "clock", !.expires = sessions[requests[r].by]]
Authenticates(r, q) ==
  /\ q = [requests[r] EXCEPT !.at = "decide"]
  /\ \/ Is(r, "authn") /\ requests[r].by = Signed
     \/ Is(r, "clock") /\ ~(now > requests[r].expires)
Allows(r, q) == \E docs \in SUBSET Documents, t \in Targets :
  /\ docs = policies \/ (docs = entry.docs /\ Usable(now))
  /\ Evaluate(docs, t) = "allow"
  /\ Is(r, "decide")
  /\ \/ q = Mint(requests[r].ask, t)
     \/ q = [at |-> "acted", did |-> t]
Waits(r, q) == Is(r, "sent") /\ q = [requests[r] EXCEPT !.at = "late"]
Performs(r, q) ==
  /\ requests[r].at \in {"sent", "late"}
  /\ \E clock \in now - MaxLag .. now + MaxLag : ~Expired(r, clock)
  /\ q = [at |-> "acted", did |-> requests[r].target]
TurnsAway(r, q) ==
  /\ q = [at |-> "unauthenticated"]
  /\ \/ /\ Is(r, "authn") /\ requests[r].by # Signed
        /\ sessions[requests[r].by] = Never
     \/ Is(r, "clock") /\ now > requests[r].expires
Drops(r, q) ==
  \/ q = Idle
  \/ q \in Refused /\ q.at # "unauthenticated"

Moves(r, q) ==
  \/ Sends(r, q) \/ Reads(r, q) \/ Authenticates(r, q) \/ Allows(r, q)
  \/ Waits(r, q) \/ Performs(r, q) \/ TurnsAway(r, q) \/ Drops(r, q)

Moving(r) == \E q \in Request : Becomes(r, q) /\ Moves(r, q)

LEMMA EndMoves ==
  ASSUME TypeOK, NEW r \in Requests,
         NEW how \in {"denied", "error", "expired", "mismatch", "not found"}, Ends(r, how)
  PROVE  Moving(r)
<1>1. [at |-> how] \in Refused /\ [at |-> how].at # "unauthenticated"
  BY DEF Refused
<1> QED
  BY <1>1 DEF Moving, Moves, Drops, Becomes, Ends, Request

LEMMA SendMoves ==
  ASSUME TypeOK, NEW r \in Requests, NEW ask \in Asks,
         NEW by \in {Signed} \union Sessions, Send(r, ask, by)
  PROVE  Moving(r)
<1> DEFINE q == [at |-> "authn", ask |-> ask, by |-> by,
                 good |-> by # Signed /\ Good(by), expires |-> Never]
<1>1. (by # Signed /\ Good(by)) \in BOOLEAN
  BY Zenon
<1>2. q \in Arriving
  BY <1>1 DEF Arriving, Never
<1>3. Becomes(r, q) /\ Sends(r, q)
  BY DEF Send, Becomes, Sends
<1> QED
  BY <1>2, <1>3, Zenon DEF Moving, Moves, Request

LEMMA AuthenticateSignatureMoves ==
  ASSUME TypeOK, NEW r \in Requests, AuthenticateSignature(r)
  PROVE  Moving(r)
<1>1. CASE Ends(r, "error")
  BY <1>1, EndMoves
<1>2. CASE requests' = [requests EXCEPT ![r].at = "decide"]
  <2> DEFINE q == [requests[r] EXCEPT !.at = "decide"]
  <2>1. requests[r] \in Arriving
    BY Types, Shape DEF AuthenticateSignature, Is
  <2>2. q \in Arriving
    BY <2>1 DEF Arriving
  <2>3. Becomes(r, q) /\ Authenticates(r, q)
    BY <1>2, Types DEF Becomes, Authenticates, AuthenticateSignature
  <2> QED
    BY <2>2, <2>3, Zenon DEF Moving, Moves, Request
<1> QED
  BY <1>1, <1>2 DEF AuthenticateSignature

LEMMA ResolveRowMoves ==
  ASSUME TypeOK, NEW r \in Requests, ResolveRow(r)
  PROVE  Moving(r)
<1>1. requests[r] \in Arriving
  BY Types, Shape DEF ResolveRow, Is
<1>2. requests[r].by \in Sessions
  BY <1>1 DEF Arriving, ResolveRow
<1> DEFINE e == sessions[requests[r].by]
           q == [requests[r] EXCEPT !.at = "clock", !.expires = e]
<1>3. CASE e = Never
  <2>1. Ends(r, "unauthenticated")
    BY <1>3 DEF ResolveRow
  <2>2. [at |-> "unauthenticated"] \in Refused
    BY DEF Refused
  <2>3. TurnsAway(r, [at |-> "unauthenticated"])
    BY <1>3 DEF TurnsAway, ResolveRow
  <2> QED
    BY <2>1, <2>2, <2>3 DEF Moving, Moves, Request, Becomes, Ends
<1>4. CASE e # Never
  <2>1. e \in Expiries
    BY <1>2, Types
  <2>2. q \in Arriving
    BY <1>1, <2>1 DEF Arriving, Expiries
  <2>3. requests' = [requests EXCEPT ![r].at = "clock", ![r].expires = e]
    BY <1>4 DEF ResolveRow
  <2>4. Becomes(r, q)
    BY <2>3, Types DEF Becomes
  <2>5. Reads(r, q)
    BY <1>4 DEF Reads, ResolveRow
  <2> QED
    BY <2>2, <2>4, <2>5, Zenon DEF Moving, Moves, Request
<1> QED
  BY <1>3, <1>4

LEMMA ResolveClockMoves ==
  ASSUME TypeOK, NEW r \in Requests, ResolveClock(r)
  PROVE  Moving(r)
<1>1. requests[r] \in Arriving
  BY Types, Shape DEF ResolveClock, Is
<1>2. CASE now > requests[r].expires
  <2>1. Ends(r, "unauthenticated")
    BY <1>2 DEF ResolveClock
  <2>2. [at |-> "unauthenticated"] \in Refused
    BY DEF Refused
  <2>3. TurnsAway(r, [at |-> "unauthenticated"])
    BY <1>2 DEF TurnsAway, ResolveClock
  <2> QED
    BY <2>1, <2>2, <2>3 DEF Moving, Moves, Request, Becomes, Ends
<1>3. CASE Ends(r, "error")
  BY <1>3, EndMoves
<1>4. CASE ~(now > requests[r].expires) /\ requests' = [requests EXCEPT ![r].at = "decide"]
  <2> DEFINE q == [requests[r] EXCEPT !.at = "decide"]
  <2>1. q \in Arriving
    BY <1>1 DEF Arriving
  <2>2. Becomes(r, q)
    BY <1>4, Types DEF Becomes
  <2>3. Authenticates(r, q)
    BY <1>4 DEF Authenticates, ResolveClock
  <2> QED
    BY <2>1, <2>2, <2>3, Zenon DEF Moving, Moves, Request
<1> QED
  BY <1>2, <1>3, <1>4, Zenon DEF ResolveClock

LEMMA DecideMoves ==
  ASSUME TypeOK, NEW r \in Requests, Decide(r)
  PROVE  Moving(r)
<1>1. requests[r] \in Arriving /\ requests[r].ask \in Asks
  BY Types, Shape DEF Decide, Is, Arriving
<1>2. PICK docs \in SUBSET Documents :
        /\ docs = policies \/ (docs = entry.docs /\ Usable(now))
        /\ DecideBy(r, docs)
  BY Types DEF Decide
<1>3. PICK route \in Match(table, requests[r].ask) :
        \E t \in TargetOf(route, requests[r].ask.path) :
          IF Evaluate(docs, t) # "allow" THEN Ends(r, "denied")
          ELSE IF route.here THEN Acts(r, t)
          ELSE requests' = [requests EXCEPT ![r] = Mint(requests[r].ask, t)]
  BY <1>2 DEF DecideBy
<1>4. PICK t \in TargetOf(route, requests[r].ask.path) :
          IF Evaluate(docs, t) # "allow" THEN Ends(r, "denied")
          ELSE IF route.here THEN Acts(r, t)
          ELSE requests' = [requests EXCEPT ![r] = Mint(requests[r].ask, t)]
  BY <1>3
<1>5. t \in Targets
  BY <1>1, RoutedIsTarget
<1>6. CASE Ends(r, "denied")
  BY <1>6, EndMoves
<1>7. CASE Evaluate(docs, t) = "allow" /\ Acts(r, t)
  <2> DEFINE q == [at |-> "acted", did |-> t]
  <2>1. q \in Acted
    BY <1>5 DEF Acted
  <2>2. Becomes(r, q) /\ Allows(r, q)
    BY <1>7, <1>2, <1>5 DEF Becomes, Acts, Allows, Decide
  <2> QED
    BY <2>1, <2>2, Zenon DEF Moving, Moves, Request
<1>8. CASE /\ Evaluate(docs, t) = "allow"
           /\ requests' = [requests EXCEPT ![r] = Mint(requests[r].ask, t)]
  <2> DEFINE q == Mint(requests[r].ask, t)
  <2>1. now + CapTTL \in 0 .. MaxNow + CapTTL
    BY Types, Constants
  <2>2. q \in Forwarded
    BY <1>1, <1>5, <2>1 DEF Forwarded, Mint
  <2>3. Becomes(r, q) /\ Allows(r, q)
    BY <1>8, <1>2, <1>5 DEF Becomes, Allows, Decide
  <2> QED
    BY <2>2, <2>3, Zenon DEF Moving, Moves, Request
<1> QED
  BY <1>4, <1>6, <1>7, <1>8

LEMMA GiveUpMoves ==
  ASSUME TypeOK, NEW r \in Requests, GiveUp(r)
  PROVE  Moving(r)
<1> DEFINE q == [requests[r] EXCEPT !.at = "late"]
<1>1. requests[r] \in Forwarded
  BY Types, Shape DEF GiveUp, Is
<1>2. q \in Forwarded
  BY <1>1 DEF Forwarded
<1>3. Becomes(r, q) /\ Waits(r, q)
  BY Types DEF Becomes, Waits, GiveUp
<1> QED
  BY <1>2, <1>3, Zenon DEF Moving, Moves, Request

LEMMA ServeMoves ==
  ASSUME TypeOK, NEW r \in Requests, Serve(r)
  PROVE  Moving(r)
<1>1. requests[r] \in Forwarded
  BY Types, Shape DEF Serve
<1>2. CASE Ends(r, "not found")
  BY <1>2, EndMoves
<1>3. CASE \E t \in ServedAs(requests[r].target.resource[1], requests[r].ask),
              clock \in now - MaxLag .. now + MaxLag :
            IF Expired(r, clock) THEN Ends(r, "expired")
            ELSE IF t # requests[r].target THEN Ends(r, "mismatch")
            ELSE Acts(r, t)
  <2>1. PICK t \in ServedAs(requests[r].target.resource[1], requests[r].ask),
              clock \in now - MaxLag .. now + MaxLag :
            IF Expired(r, clock) THEN Ends(r, "expired")
            ELSE IF t # requests[r].target THEN Ends(r, "mismatch")
            ELSE Acts(r, t)
    BY <1>3
  <2>2. CASE Ends(r, "expired") \/ Ends(r, "mismatch")
    BY <2>2, EndMoves
  <2>3. CASE ~Expired(r, clock) /\ t = requests[r].target /\ Acts(r, t)
    <3> DEFINE q == [at |-> "acted", did |-> requests[r].target]
    <3>1. q \in Acted
      BY <1>1 DEF Forwarded, Acted
    <3>2. Becomes(r, q) /\ Performs(r, q)
      BY <2>3, <2>1 DEF Becomes, Acts, Performs, Serve
    <3> QED
      BY <3>1, <3>2, Zenon DEF Moving, Moves, Request
  <2> QED
    BY <2>1, <2>2, <2>3
<1> QED
  BY <1>2, <1>3 DEF Serve

LEMMA ReturnMoves ==
  ASSUME TypeOK, NEW r \in Requests, Return(r)
  PROVE  Moving(r)
BY DEF Return, Moving, Moves, Drops, Becomes, Request

\* The steps that are no request's.
Reloads == entry' = [docs |-> policies, at |-> now]
Elsewhere ==
  \/ \E s \in Sessions : SignIn(s) \/ SignOut(s)
  \/ SweepExpired \/ ChangePolicies \/ Refresh \/ Tick \/ UNCHANGED vars

\* Every step is one request's, which at most reloads the policies besides, or none's.
LEMMA Steps ==
  ASSUME TypeOK, [Next]_vars
  PROVE  \/ \E r \in Requests :
              /\ Moving(r)
              /\ UNCHANGED <<now, table, auth, policies, permitted>>
              /\ UNCHANGED entry \/ Reloads
         \/ Elsewhere
<1>1. CASE Elsewhere
  BY <1>1
<1>2. ASSUME NEW r \in Requests, NEW ask \in Asks, NEW by \in {Signed} \union Sessions,
             Send(r, ask, by)
      PROVE  Moving(r) /\ UNCHANGED <<now, table, auth, policies, permitted, entry>>
  BY <1>2, SendMoves DEF Send, deciding
<1>3. ASSUME NEW r \in Requests, Handle(r)
      PROVE  /\ Moving(r)
             /\ UNCHANGED <<now, table, auth, policies, permitted>>
             /\ UNCHANGED entry \/ Reloads
  <2>1. CASE AuthenticateSignature(r)
    BY <2>1, AuthenticateSignatureMoves DEF AuthenticateSignature, deciding
  <2>2. CASE ResolveRow(r)
    BY <2>2, ResolveRowMoves DEF ResolveRow, deciding
  <2>3. CASE ResolveFails(r)
    BY <2>3, EndMoves DEF ResolveFails, deciding
  <2>4. CASE ResolveClock(r)
    BY <2>4, ResolveClockMoves DEF ResolveClock, deciding
  <2>5. CASE NoTarget(r)
    BY <2>5, EndMoves DEF NoTarget, deciding
  <2>6. CASE Decide(r)
    BY <2>6, DecideMoves DEF Decide, Reloads
  <2>7. CASE DecideFails(r)
    BY <2>7, EndMoves DEF DecideFails, deciding
  <2>8. CASE GiveUp(r)
    BY <2>8, GiveUpMoves DEF GiveUp, deciding
  <2> QED
    BY <1>3, <2>1, <2>2, <2>3, <2>4, <2>5, <2>6, <2>7, <2>8 DEF Handle
<1>4. ASSUME NEW r \in Requests, Serve(r)
      PROVE  Moving(r) /\ UNCHANGED <<now, table, auth, policies, permitted, entry>>
  BY <1>4, ServeMoves DEF Serve, deciding
<1>5. ASSUME NEW r \in Requests, Return(r)
      PROVE  Moving(r) /\ UNCHANGED <<now, table, auth, policies, permitted, entry>>
  BY <1>5, ReturnMoves DEF Return, deciding
<1> QED
  BY <1>1, <1>2, <1>3, <1>4, <1>5, Zenon DEF Next, Elsewhere

LEMMA TypeIsKept ==
  ASSUME TypeOK, [Next]_vars
  PROVE  TypeOK'
<1>1. ASSUME NEW r \in Requests, Moving(r),
             UNCHANGED <<now, table, auth, policies, permitted>>, UNCHANGED entry \/ Reloads
      PROVE  TypeOK'
  <2>1. requests' \in [Requests -> Request]
    BY <1>1, Becoming DEF Moving
  <2>2. entry' \in [docs : SUBSET Documents, at : {Never} \union Times]
    BY <1>1, Types DEF Reloads, Times
  <2> QED
    BY <1>1, <2>1, <2>2 DEF TypeOK, auth
<1>2. ASSUME NEW s \in Sessions, SignIn(s)
      PROVE  TypeOK'
  <2>1. now + SessionTTL \in Expiries
    BY <1>2, Types, Constants DEF SignIn, Expiries
  <2>2. sessions' \in [Sessions -> Expiries] /\ issued' \in [Sessions -> Expiries]
    BY <1>2, <2>1, Types DEF SignIn
  <2> QED
    BY <1>2, <2>2 DEF TypeOK, SignIn, deciding, Expiries
<1>3. ASSUME NEW s \in Sessions, SignOut(s)
      PROVE  TypeOK'
  <2>1. sessions' \in [Sessions -> Expiries]
    BY <1>3, Types DEF SignOut, Expiries
  <2> QED
    BY <1>3, <2>1 DEF TypeOK, SignOut, deciding, Expiries
<1>4. CASE SweepExpired
  <2>1. sessions' \in [Sessions -> Expiries]
    BY <1>4, Types DEF SweepExpired, Expiries
  <2> QED
    BY <1>4, <2>1 DEF TypeOK, SweepExpired, deciding, Expiries
<1>5. CASE ChangePolicies
  <2>1. permitted' \in [Targets -> {Never} \union Times]
    BY <1>5, Types DEF ChangePolicies, Note, Times
  <2> QED
    BY <1>5, <2>1 DEF TypeOK, ChangePolicies, auth
<1>6. CASE Refresh
  BY <1>6 DEF TypeOK, Refresh, auth
<1>7. CASE Tick
  <2>1. now' \in Times
    BY <1>7, Types, Constants DEF Tick, Times
  <2>2. permitted' \in [Targets -> {Never} \union Times]
    BY <1>7, <2>1, Types DEF Tick, Note
  <2>3. entry' \in [docs : SUBSET Documents, at : {Never} \union Times]
    BY <1>7, Types DEF Tick, NoEntry
  <2> QED
    BY <1>7, <2>1, <2>2, <2>3 DEF TypeOK, Tick, auth
<1>8. CASE UNCHANGED vars
  BY <1>8 DEF TypeOK, vars, auth, deciding
<1> QED
  BY Steps, <1>1, <1>2, <1>3, <1>4, <1>5, <1>6, <1>7, <1>8 DEF Elsewhere

\* Every variable keeps its type: in particular a request has what its place
\* on the way needs, and no expiry lies beyond what the lifetimes allow.
THEOREM TypeCorrect == Spec => []TypeOK
<1>1. Init => TypeOK
  <2> SUFFICES ASSUME Init PROVE TypeOK
    OBVIOUS
  <2>1. 0 \in Times
    BY Constants DEF Times
  <2> QED
    BY <2>1 DEF Init, TypeOK, NoEntry, Request, Never
<1>2. TypeOK /\ [Next]_vars => TypeOK'
  BY TypeIsKept
<1> QED
  BY <1>1, <1>2, PTL DEF Spec

-----------------------------------------------------------------------------
(* Revocation.                                                              *)

\* What is permitted now is noted as such, and nothing is noted in the future.
PermittedNow ==
  \A t \in Targets :
    /\ permitted[t] <= now
    /\ Permits(policies, t) => permitted[t] = now

\* What the cached policies permit was permitted when they were read.
ReadingsArePast ==
  entry.at # Never =>
    \A t \in Targets : Permits(entry.docs, t) => entry.at <= permitted[t]

\* A call on its way expires a bounded time after it was permitted, and what is
\* done was permitted a bounded time before.
CallsAreBounded(r) ==
  /\ requests[r].at \in {"sent", "late"} =>
       /\ permitted[requests[r].target] # Never
       /\ requests[r].expires <= permitted[requests[r].target] + PolicyAge + CapTTL
  /\ requests[r].at = "acted" =>
       /\ permitted[requests[r].did] # Never
       /\ now - permitted[requests[r].did] <= PolicyAge + CapTTL + Skew + MaxLag

Bounded ==
  /\ PermittedNow
  /\ ReadingsArePast
  /\ \A r \in Requests : CallsAreBounded(r)

\* Only what is permitted is allowed.
LEMMA AllowedIsPermitted ==
  ASSUME NEW docs, NEW t, Evaluate(docs, t) = "allow"
  PROVE  Permits(docs, t)
<1> DEFINE Says(effect) == \E d \in docs : \E s \in d : s.effect = effect /\ Matches(s, t)
<1>1. Says("allow") /\ ~Says("deny")
  BY DEF Evaluate
<1> QED
  BY <1>1 DEF Permits

\* An allowed target was permitted at most the cache's age before.
LEMMA AllowedWasPermitted ==
  ASSUME TypeOK, PermittedNow, ReadingsArePast, NEW t \in Targets,
         NEW docs, docs = policies \/ (docs = entry.docs /\ Usable(now)),
         Evaluate(docs, t) = "allow"
  PROVE  permitted[t] # Never /\ now <= permitted[t] + PolicyAge
<1>1. Permits(docs, t)
  BY AllowedIsPermitted
<1>2. permitted[t] \in {Never} \union Times /\ now \in Nat
  BY Types
<1>3. CASE docs = policies
  <2>1. permitted[t] = now
    BY <1>1, <1>3 DEF PermittedNow
  <2> QED
    BY <1>2, <2>1, Constants DEF Never
<1>4. CASE docs = entry.docs /\ Usable(now)
  <2>1. entry.at # Never /\ now <= entry.at + PolicyAge
    BY <1>4 DEF Usable
  <2>2. entry.at <= permitted[t]
    BY <1>1, <1>4, <2>1 DEF ReadingsArePast
  <2>3. entry.at \in {Never} \union Times
    BY Types
  <2> QED
    BY <1>2, <2>1, <2>2, <2>3, Constants DEF Never, Times
<1> QED
  BY <1>3, <1>4

\* One request's step, by what becomes of it.
LEMMA MoveIsBounded ==
  ASSUME TypeOK, TypeOK', Bounded, NEW r \in Requests, Moving(r),
         UNCHANGED <<now, table, auth, policies, permitted>>
  PROVE  \A p \in Requests : CallsAreBounded(p)'
<1>1. PICK q \in Request : Becomes(r, q) /\ Moves(r, q)
  BY DEF Moving
<1>2. requests'[r] = q /\ \A p \in Requests \ {r} : requests'[p] = requests[p]
  BY <1>1, Becoming
<1>3. ASSUME NEW p \in Requests \ {r}
      PROVE  CallsAreBounded(p)'
  BY <1>2, <1>3 DEF Bounded, CallsAreBounded
<1>4. CallsAreBounded(r)
  BY DEF Bounded
<1> SUFFICES CallsAreBounded(r)'
  BY <1>3
<1>5. CASE q.at \notin {"sent", "late", "acted"}
  BY <1>2, <1>5 DEF CallsAreBounded
<1>6. CASE Allows(r, q)
  <2>1. PICK docs \in SUBSET Documents, t \in Targets :
          /\ docs = policies \/ (docs = entry.docs /\ Usable(now))
          /\ Evaluate(docs, t) = "allow"
          /\ \/ q = Mint(requests[r].ask, t)
             \/ q = [at |-> "acted", did |-> t]
    BY <1>6 DEF Allows
  <2>2. permitted[t] # Never /\ now <= permitted[t] + PolicyAge
    BY <2>1, AllowedWasPermitted DEF Bounded
  <2>3. permitted[t] \in {Never} \union Times /\ now \in Nat
    BY Types
  <2>4. CASE q = Mint(requests[r].ask, t)
    <3>1. q.at = "sent" /\ q.target = t /\ q.expires = now + CapTTL
      BY <2>4 DEF Mint
    <3> QED
      BY <1>2, <2>2, <2>3, <3>1, Constants DEF CallsAreBounded, Times, Never
  <2>5. CASE q = [at |-> "acted", did |-> t]
    <3>1. q.at = "acted" /\ q.did = t
      BY <2>5
    <3> QED
      BY <1>2, <2>2, <2>3, <3>1, Constants DEF CallsAreBounded, Times, Never
  <2> QED
    BY <2>1, <2>4, <2>5
<1>7. CASE Waits(r, q)
  <2>1. requests[r] \in Forwarded
    BY <1>7, Types, Shape DEF Waits, Is
  <2>2. q.at = "late" /\ q.target = requests[r].target /\ q.expires = requests[r].expires
    BY <1>7, <2>1 DEF Waits, Forwarded
  <2> QED
    BY <1>2, <1>4, <1>7, <2>2 DEF CallsAreBounded, Waits, Is
<1>8. CASE Performs(r, q)
  <2>1. requests[r] \in Forwarded
    BY <1>8, Types, Shape DEF Performs
  <2>2. PICK clock \in now - MaxLag .. now + MaxLag : ~Expired(r, clock)
    BY <1>8 DEF Performs
  <2>3. q.at = "acted" /\ q.did = requests[r].target
    BY <1>8 DEF Performs
  <2> DEFINE e == requests[r].expires
             t == requests[r].target
  <2>4. e \in Nat /\ t \in Targets
    BY <2>1, Types, Constants DEF Forwarded
  <2>5. permitted[t] \in {Never} \union Times /\ now \in Nat
    BY <2>4, Types
  <2>6. permitted[t] # Never /\ e <= permitted[t] + PolicyAge + CapTTL
    BY <1>4, <1>8 DEF CallsAreBounded, Performs
  <2>7. clock \in Int /\ now - MaxLag <= clock /\ clock - Skew <= e
    BY <2>2, <2>4, <2>5, Constants DEF Expired
  <2>8. now - permitted[t] <= PolicyAge + CapTTL + Skew + MaxLag
    <3> HIDE DEF e, t
    <3> QED
      BY <2>4, <2>5, <2>6, <2>7, Constants DEF Times, Never
  <2> QED
    BY <1>2, <2>3, <2>6, <2>8 DEF CallsAreBounded
<1>9. CASE Sends(r, q) \/ TurnsAway(r, q)
  BY <1>5, <1>9 DEF Sends, TurnsAway
<1>10. CASE Reads(r, q) \/ Authenticates(r, q)
  <2>1. requests[r] \in Arriving
    BY <1>10, Types, Shape DEF Reads, Authenticates, Is
  <2>2. q.at \in {"clock", "decide"}
    BY <1>10, <2>1 DEF Reads, Authenticates, Arriving
  <2> QED
    BY <1>5, <2>2
<1>11. CASE Drops(r, q)
  <2>1. q = Idle => q.at = "idle"
    BY DEF Idle
  <2>2. q \in Refused =>
          q.at \in {"unauthenticated", "denied", "error", "expired", "mismatch", "not found"}
    BY DEF Refused
  <2> QED
    BY <1>5, <1>11, <2>1, <2>2 DEF Drops
<1> QED
  BY <1>1, <1>6, <1>7, <1>8, <1>9, <1>10, <1>11, Zenon DEF Moves

LEMMA BoundedIsKept ==
  ASSUME TypeOK, TypeOK', Bounded, [Next]_vars
  PROVE  Bounded'
<1>1. ASSUME NEW r \in Requests, Moving(r),
             UNCHANGED <<now, table, auth, policies, permitted>>, UNCHANGED entry \/ Reloads
      PROVE  Bounded'
  <2>1. PermittedNow'
    BY <1>1 DEF Bounded, PermittedNow
  <2>2. ASSUME UNCHANGED entry
        PROVE  ReadingsArePast'
    BY <1>1, <2>2 DEF Bounded, ReadingsArePast
  <2>3. ASSUME Reloads
        PROVE  ReadingsArePast'
    <3>1. entry'.docs = policies /\ entry'.at = now
      BY <2>3 DEF Reloads
    <3>2. ASSUME NEW t \in Targets, Permits(policies, t)
          PROVE  now <= permitted[t]
      BY <3>2, Types DEF Bounded, PermittedNow
    <3> QED
      BY <1>1, <3>1, <3>2 DEF ReadingsArePast
  <2> QED
    BY <1>1, <2>1, <2>2, <2>3, MoveIsBounded DEF Bounded
<1>2. CASE UNCHANGED <<now, policies, permitted, entry, requests>>
  BY <1>2 DEF Bounded, PermittedNow, ReadingsArePast, CallsAreBounded
<1>3. CASE Refresh
  <2>1. entry'.docs = policies /\ entry'.at = now
    BY <1>3 DEF Refresh
  <2>2. ASSUME NEW t \in Targets, Permits(policies, t)
        PROVE  now <= permitted[t]
    BY <2>2, Types DEF Bounded, PermittedNow
  <2>3. ReadingsArePast'
    BY <1>3, <2>1, <2>2 DEF ReadingsArePast, Refresh
  <2> QED
    BY <1>3, <2>3 DEF Refresh, Bounded, PermittedNow, CallsAreBounded
<1>4. ASSUME Note(policies', now'), now' \in Times, now <= now', UNCHANGED requests,
             \/ UNCHANGED entry
             \/ entry' = NoEntry,
             \A r \in Requests : requests[r].at = "acted" => now' = now
      PROVE  Bounded'
  <2>1. ASSUME NEW t \in Targets
        PROVE  /\ permitted'[t] <= now'
               /\ Permits(policies', t) => permitted'[t] = now'
               /\ permitted[t] <= permitted'[t]
               /\ permitted[t] # Never => permitted'[t] # Never
    <3>1. permitted[t] \in {Never} \union Times /\ now \in Nat /\ permitted[t] <= now
      BY Types DEF Bounded, PermittedNow
    <3>2. permitted'[t] = IF Permits(policies', t) THEN now' ELSE permitted[t]
      BY <1>4, Zenon DEF Note
    <3>3. CASE Permits(policies', t)
      BY <1>4, <3>1, <3>2, <3>3, Constants DEF Times, Never
    <3>4. CASE ~Permits(policies', t)
      BY <1>4, <3>1, <3>2, <3>4, Constants DEF Times, Never
    <3> QED
      BY <3>3, <3>4
  <2>2. PermittedNow'
    BY <2>1 DEF PermittedNow
  <2>3. ASSUME NEW t \in Targets
        PROVE  permitted[t] \in Int /\ permitted'[t] \in Int
    BY TypeOK' DEF Times, Never, TypeOK
  <2>4. ReadingsArePast'
    <3>1. CASE UNCHANGED entry
      <4>1. SUFFICES ASSUME entry.at # Never, NEW t \in Targets, Permits(entry.docs, t)
                     PROVE  entry.at <= permitted'[t]
        BY <3>1 DEF ReadingsArePast
      <4>2. entry.at <= permitted[t] /\ entry.at \in Int
        BY <4>1, Types DEF Bounded, ReadingsArePast, Times, Never
      <4> QED
        BY <2>1, <2>3, <4>2
    <3>2. CASE entry' = NoEntry
      BY <3>2 DEF ReadingsArePast, NoEntry
    <3> QED
      BY <1>4, <3>1, <3>2
  <2>5. ASSUME NEW r \in Requests
        PROVE  CallsAreBounded(r)'
    <3>1. CallsAreBounded(r) /\ requests'[r] = requests[r]
      BY <1>4 DEF Bounded
    <3>2. CASE requests[r].at \in {"sent", "late"}
      <4>1. requests[r] \in Forwarded
        BY <3>2, Types, Shape
      <4> DEFINE t == requests[r].target
                 e == requests[r].expires
      <4>2. t \in Targets /\ e \in Nat
        BY <4>1, Constants DEF Forwarded
      <4>3. permitted[t] # Never /\ e <= permitted[t] + PolicyAge + CapTTL
        BY <3>1, <3>2 DEF CallsAreBounded
      <4>4. /\ permitted[t] <= permitted'[t] /\ permitted'[t] # Never
            /\ permitted[t] \in Int /\ permitted'[t] \in Int
        BY <2>1, <2>3, <4>2, <4>3
      <4>5. e <= permitted'[t] + PolicyAge + CapTTL
        <5> HIDE DEF e, t
        <5> QED
          BY <4>2, <4>3, <4>4, Constants
      <4> QED
        BY <3>1, <3>2, <4>4, <4>5 DEF CallsAreBounded
    <3>3. CASE requests[r].at = "acted"
      <4>1. requests[r] \in Acted
        BY <3>3, Types, Shape
      <4> DEFINE t == requests[r].did
      <4>2. t \in Targets
        BY <4>1 DEF Acted
      <4>3. /\ permitted[t] # Never
            /\ now - permitted[t] <= PolicyAge + CapTTL + Skew + MaxLag
        BY <3>1, <3>3 DEF CallsAreBounded
      <4>4. /\ permitted[t] <= permitted'[t] /\ permitted'[t] # Never
            /\ permitted[t] \in Int /\ permitted'[t] \in Int
        BY <2>1, <2>3, <4>2, <4>3
      <4>5. now' = now /\ now \in Int
        BY <1>4, <3>3, Types
      <4>6. now' - permitted'[t] <= PolicyAge + CapTTL + Skew + MaxLag
        <5> HIDE DEF t
        <5> QED
          BY <4>3, <4>4, <4>5, Constants
      <4> QED
        BY <3>1, <3>3, <4>4, <4>6 DEF CallsAreBounded
    <3>4. CASE requests[r].at \notin {"sent", "late", "acted"}
      BY <3>1, <3>4 DEF CallsAreBounded
    <3> QED
      BY <3>2, <3>3, <3>4
  <2> QED
    BY <2>2, <2>4, <2>5 DEF Bounded
<1>5. CASE ChangePolicies
  BY <1>5, <1>4, Types DEF ChangePolicies, Note, Times
<1>6. CASE Tick
  <2>1. now' \in Times /\ now <= now'
    BY <1>6, Types, Constants DEF Tick, Times
  <2>2. Note(policies', now')
    BY <1>6 DEF Tick, Note
  <2>3. \A r \in Requests : requests[r].at # "acted"
    BY <1>6 DEF Tick, Working
  <2> QED
    BY <1>4, <1>6, <2>1, <2>2, <2>3 DEF Tick
<1>7. CASE Elsewhere
  BY <1>2, <1>3, <1>5, <1>6, <1>7
     DEF Elsewhere, SignIn, SignOut, SweepExpired, deciding, vars
<1> QED
  BY Steps, <1>1, <1>7

\* Whatever a service does was permitted a bounded time before: by the age of
\* the cached policies, the capability's lifetime, the skew its verifier allows
\* and the lag of its clock, together, however late the call arrives.
THEOREM RevocationBounded == Spec => []RevocationIsBounded
<1>1. Init => Bounded
  <2> SUFFICES ASSUME Init PROVE Bounded
    OBVIOUS
  <2>1. ASSUME NEW t \in Targets
        PROVE  permitted[t] <= now /\ ~Permits(policies, t)
    BY DEF Init, Never, Permits
  <2>2. PermittedNow
    BY <2>1 DEF PermittedNow
  <2>3. ReadingsArePast
    BY DEF Init, ReadingsArePast, NoEntry
  <2>4. \A r \in Requests : CallsAreBounded(r)
    BY DEF Init, CallsAreBounded, Idle
  <2> QED
    BY <2>2, <2>3, <2>4 DEF Bounded
<1>2. TypeOK /\ TypeOK' /\ Bounded /\ [Next]_vars => Bounded'
  BY BoundedIsKept
<1>3. Bounded => RevocationIsBounded
  BY DEF Bounded, CallsAreBounded, RevocationIsBounded, Is
<1> QED
  BY TypeCorrect, <1>1, <1>2, <1>3, PTL DEF Spec

-----------------------------------------------------------------------------
(* Sessions.                                                                *)

\* A row is that of a session issued and not signed out, and a good session
\* still has its row.
Rows ==
  \A s \in Sessions :
    /\ sessions[s] # Never => sessions[s] = issued[s] /\ s \notin signedOut
    /\ s \in signedOut => issued[s] # Never
    /\ Good(s) => sessions[s] # Never

\* A session that was not good when the request was sent is not good since,
\* and once its row has been read it has expired.
SeenFrom(r) ==
  /\ requests[r].at \in {"authn", "clock"} /\ requests[r].by # Signed =>
       /\ issued[requests[r].by] # Never
       /\ ~requests[r].good => ~Good(requests[r].by)
  /\ requests[r].at = "clock" =>
       /\ requests[r].by # Signed
       /\ requests[r].expires = issued[requests[r].by]
       /\ ~requests[r].good => now > requests[r].expires

Known ==
  /\ Rows
  /\ \A r \in Requests : SeenFrom(r)

LEMMA MoveKeepsKnown ==
  ASSUME TypeOK, Known, NEW r \in Requests, Moving(r),
         UNCHANGED <<now, table, auth, policies, permitted>>
  PROVE  Known'
<1>1. PICK q \in Request : Becomes(r, q) /\ Moves(r, q)
  BY DEF Moving
<1>2. requests'[r] = q /\ \A p \in Requests \ {r} : requests'[p] = requests[p]
  BY <1>1, Becoming
<1>3. UNCHANGED <<now, sessions, issued, signedOut>>
  BY DEF auth
<1>4. Rows'
  BY <1>3 DEF Known, Rows, Good
<1>5. ASSUME NEW p \in Requests \ {r}
      PROVE  SeenFrom(p)'
  BY <1>2, <1>3, <1>5 DEF Known, SeenFrom, Good
<1> SUFFICES SeenFrom(r)'
  BY <1>4, <1>5 DEF Known
<1>6. CASE q.at \notin {"authn", "clock"}
  BY <1>2, <1>6 DEF SeenFrom
<1>7. CASE Sends(r, q)
  <2>1. PICK ask \in Asks, by \in {Signed} \union Sessions :
          /\ by # Signed => issued[by] # Never
          /\ q = [at |-> "authn", ask |-> ask, by |-> by,
                  good |-> by # Signed /\ Good(by), expires |-> Never]
    BY <1>7 DEF Sends
  <2>2. q.at = "authn" /\ q.by = by
    BY <2>1
  <2>3. q.good = (by # Signed /\ Good(by))
    BY <2>1, Zenon
  <2>4. by # Signed /\ ~q.good => ~Good(by)
    BY <2>3, Zenon
  <2> QED
    BY <1>2, <1>3, <2>1, <2>2, <2>4 DEF SeenFrom, Good
<1>8. CASE Reads(r, q)
  <2> DEFINE b == requests[r].by
  <2>1. requests[r] \in Arriving
    BY <1>8, Types, Shape DEF Reads, Is
  <2>2. /\ q.at = "clock" /\ q.by = b /\ q.expires = sessions[b]
        /\ q.good = requests[r].good
    BY <1>8, <2>1 DEF Reads, Arriving
  <2>3. b \in Sessions /\ b # Signed /\ sessions[b] # Never
    BY <1>8, <2>1 DEF Reads, Arriving
  <2>4. sessions[b] = issued[b] /\ b \notin signedOut
    BY <2>3 DEF Known, Rows
  <2>5. /\ issued[b] # Never
        /\ ~requests[r].good => ~Good(b)
    BY <1>8, <2>3 DEF Known, SeenFrom, Reads, Is
  <2>6. ~requests[r].good => now > issued[b]
    <3>1. issued[b] \in Int /\ now \in Int
      BY <2>3, Types, Constants DEF Expiries, Never
    <3> QED
      BY <2>4, <2>5, <3>1 DEF Good
  <2> QED
    BY <1>2, <1>3, <2>2, <2>3, <2>4, <2>5, <2>6 DEF SeenFrom, Good
<1>9. CASE Authenticates(r, q)
  <2>1. requests[r] \in Arriving
    BY <1>9, Types, Shape DEF Authenticates, Is
  <2>2. q.at = "decide"
    BY <1>9, <2>1 DEF Authenticates, Arriving
  <2> QED
    BY <1>6, <2>2
<1>10. CASE Allows(r, q)
  BY <1>6, <1>10 DEF Allows, Mint
<1>11. CASE Waits(r, q)
  <2>1. requests[r] \in Forwarded
    BY <1>11, Types, Shape DEF Waits, Is
  <2>2. q.at = "late"
    BY <1>11, <2>1 DEF Waits, Forwarded
  <2> QED
    BY <1>6, <2>2
<1>12. CASE Performs(r, q) \/ TurnsAway(r, q)
  BY <1>6, <1>12 DEF Performs, TurnsAway
<1>13. CASE Drops(r, q)
  <2>1. q = Idle => q.at = "idle"
    BY DEF Idle
  <2>2. q \in Refused =>
          q.at \in {"unauthenticated", "denied", "error", "expired", "mismatch", "not found"}
    BY DEF Refused
  <2> QED
    BY <1>6, <1>13, <2>1, <2>2 DEF Drops
<1> QED
  BY <1>1, <1>7, <1>8, <1>9, <1>10, <1>11, <1>12, <1>13, Zenon DEF Moves

LEMMA KnownIsKept ==
  ASSUME TypeOK, TypeOK', Known, [Next]_vars
  PROVE  Known'
<1>1. ASSUME UNCHANGED requests, now <= now', Rows',
             \A s \in Sessions : issued[s] # Never =>
               /\ issued'[s] = issued[s]
               /\ s \in signedOut => s \in signedOut'
      PROVE  Known'
  <2> SUFFICES ASSUME NEW r \in Requests
               PROVE  SeenFrom(r)'
    BY <1>1 DEF Known
  <2>1. SeenFrom(r) /\ requests'[r] = requests[r]
    BY <1>1 DEF Known
  <2>2. CASE requests[r].at \notin {"authn", "clock"} \/ requests[r].by = Signed
    BY <2>1, <2>2 DEF SeenFrom
  <2>3. CASE requests[r].at \in {"authn", "clock"} /\ requests[r].by # Signed
    <3> DEFINE b == requests[r].by
    <3>1. requests[r] \in Arriving
      BY <2>3, Types, Shape
    <3>2. b \in Sessions
      BY <2>3, <3>1 DEF Arriving
    <3>3. issued[b] # Never /\ issued'[b] = issued[b] /\ issued[b] \in Int
      BY <1>1, <2>1, <2>3, <3>2, Types, Constants DEF SeenFrom, Expiries, Never
    <3>4. now \in Int /\ now' \in Int /\ now <= now'
      BY <1>1, TypeOK' DEF TypeOK, Times
    <3>5. Good(b)' => Good(b)
      BY <1>1, <3>2, <3>3, <3>4 DEF Good
    <3>6. requests[r].at = "clock" => requests[r].expires = issued[b]
      BY <2>1 DEF SeenFrom
    <3> QED
      BY <2>1, <2>3, <3>3, <3>4, <3>5, <3>6 DEF SeenFrom
  <2> QED
    BY <2>2, <2>3
<1>2. now \in Int /\ \A s \in Sessions : sessions[s] \in Int /\ issued[s] \in Int
  BY Types, Constants DEF Expiries, Never
<1>3. ASSUME NEW s \in Sessions, SignIn(s)
      PROVE  Known'
  <2>1. /\ sessions' = [sessions EXCEPT ![s] = now + SessionTTL]
        /\ issued' = [issued EXCEPT ![s] = now + SessionTTL]
        /\ issued[s] = Never /\ UNCHANGED <<now, signedOut, requests>>
    BY <1>3 DEF SignIn
  <2>2. now + SessionTTL # Never
    BY Types, Constants DEF Never
  <2>3. Rows'
    BY <2>1, <2>2, Types DEF Known, Rows, Good
  <2> QED
    BY <1>1, <1>2, <2>1, <2>3, Types
<1>4. ASSUME NEW s \in Sessions, SignOut(s)
      PROVE  Known'
  <2>1. /\ sessions' = [sessions EXCEPT ![s] = Never]
        /\ signedOut' = signedOut \union {s}
        /\ issued[s] # Never /\ UNCHANGED <<now, issued, requests>>
    BY <1>4 DEF SignOut
  <2>2. Rows'
    BY <2>1, Types DEF Known, Rows, Good
  <2> QED
    BY <1>1, <1>2, <2>1, <2>2
<1>5. CASE SweepExpired
  <2>1. /\ sessions' = [s \in Sessions |-> IF sessions[s] < now THEN Never ELSE sessions[s]]
        /\ UNCHANGED <<now, issued, signedOut, requests>>
    BY <1>5 DEF SweepExpired
  <2>2. ASSUME NEW s \in Sessions
        PROVE  /\ sessions'[s] # Never => sessions'[s] = sessions[s]
               /\ Good(s) /\ sessions[s] = issued[s] => sessions'[s] # Never
    BY <1>2, <2>1, Types DEF Good
  <2>3. Rows'
    BY <2>1, <2>2 DEF Known, Rows, Good
  <2> QED
    BY <1>1, <1>2, <2>1, <2>3
<1>6. CASE Tick
  <2>1. now' = now + 1 /\ UNCHANGED <<sessions, issued, signedOut, requests>>
    BY <1>6 DEF Tick, auth
  <2>2. Rows'
    BY <1>2, <2>1 DEF Known, Rows, Good
  <2> QED
    BY <1>1, <1>2, <2>1, <2>2
<1>7. CASE UNCHANGED <<now, sessions, issued, signedOut, requests>>
  BY <1>7 DEF Known, Rows, SeenFrom, Good
<1>8. CASE Elsewhere
  BY <1>3, <1>4, <1>5, <1>6, <1>7, <1>8
     DEF Elsewhere, ChangePolicies, Refresh, auth, vars
<1> QED
  BY Steps, MoveKeepsKnown, <1>8

\* Only what authenticates is decided, and only who is turned away is
\* unauthenticated.
LEMMA MoveFromArriving ==
  ASSUME NEW r \in Requests, NEW q, Moves(r, q), requests[r] \in Arriving
  PROVE  /\ q.at = "decide" => Authenticates(r, q)
         /\ q.at = "unauthenticated" => TurnsAway(r, q)
<1>1. Sends(r, q) => q.at = "authn"
  BY DEF Sends
<1>2. Reads(r, q) => q.at = "clock"
  BY DEF Reads, Arriving
<1>3. Authenticates(r, q) => q.at = "decide"
  BY DEF Authenticates, Arriving
<1>4. Allows(r, q) => q.at \in {"sent", "acted"}
  BY DEF Allows, Mint
<1>5. ~Waits(r, q) /\ ~Performs(r, q)
  BY DEF Waits, Performs, Is, Arriving
<1>6. TurnsAway(r, q) => q.at = "unauthenticated"
  BY DEF TurnsAway
<1>7. q = Idle => q.at = "idle"
  BY DEF Idle
<1>8. q \in Refused =>
        q.at \in {"unauthenticated", "denied", "error", "expired", "mismatch", "not found"}
  BY DEF Refused
<1>9. Drops(r, q) => q.at \notin {"decide", "unauthenticated"}
  BY <1>7, <1>8 DEF Drops
<1> QED
  BY <1>1, <1>2, <1>3, <1>4, <1>5, <1>6, <1>9 DEF Moves

LEMMA StepIsExact ==
  ASSUME TypeOK, Known, [Next]_vars, NEW p \in Requests
  PROVE  /\ LetIn(p) => requests[p].good
         /\ TurnedAway(p) => ~Good(requests[p].by)
<1>1. CASE requests'[p] = requests[p]
  BY <1>1 DEF LetIn, TurnedAway, Is
<1>2. ASSUME Moving(p)
      PROVE  /\ LetIn(p) => requests[p].good
             /\ TurnedAway(p) => ~Good(requests[p].by)
  <2>1. PICK q \in Request : Becomes(p, q) /\ Moves(p, q)
    BY <1>2 DEF Moving
  <2>2. requests'[p] = q
    BY <2>1, Becoming
  <2>3. SeenFrom(p)
    BY DEF Known
  <2>4. ASSUME LetIn(p)
        PROVE  requests[p].good
    <3>1. requests[p].at = "clock" /\ q.at = "decide"
      BY <2>2, <2>4 DEF LetIn, Is
    <3>2. requests[p] \in Arriving
      BY <3>1, Types, Shape
    <3>3. ~(now > requests[p].expires)
      BY <2>1, <3>1, <3>2, MoveFromArriving DEF Authenticates, Is
    <3> QED
      BY <2>3, <3>1, <3>3 DEF SeenFrom
  <2>5. ASSUME TurnedAway(p)
        PROVE  ~Good(requests[p].by)
    <3>1. requests[p].at \in {"authn", "clock"} /\ q.at = "unauthenticated"
      BY <2>2, <2>5 DEF TurnedAway
    <3>2. requests[p] \in Arriving
      BY <3>1, Types, Shape
    <3>3. TurnsAway(p, q)
      BY <2>1, <3>1, <3>2, MoveFromArriving
    <3>4. CASE Is(p, "authn")
      <4>1. requests[p].by \in Sessions /\ sessions[requests[p].by] = Never
        BY <3>2, <3>3, <3>4 DEF TurnsAway, Is, Arriving
      <4> QED
        BY <4>1 DEF Known, Rows
    <3>5. CASE Is(p, "clock")
      <4>1. now > issued[requests[p].by] /\ requests[p].by \in Sessions
        BY <2>3, <3>2, <3>3, <3>5 DEF TurnsAway, Is, Arriving, SeenFrom
      <4>2. issued[requests[p].by] \in Int /\ now \in Int
        BY <4>1, Types, Constants DEF Expiries, Never
      <4> QED
        BY <4>1, <4>2 DEF Good
    <3> QED
      BY <3>1, <3>4, <3>5 DEF Is
  <2> QED
    BY <2>4, <2>5
<1>3. ASSUME NEW r \in Requests \ {p}, Moving(r)
      PROVE  requests'[p] = requests[p]
  BY <1>3, Becoming DEF Moving
<1>4. CASE Elsewhere
  BY <1>1, <1>4
     DEF Elsewhere, SignIn, SignOut, SweepExpired, ChangePolicies, Refresh, Tick, vars
<1> QED
  BY Steps, <1>1, <1>2, <1>3, <1>4

\* Whoever is let in by a session had a good one when the request was sent, and
\* whoever is turned away has none any more, wherever the clock, a sign-out or
\* the sweeper come between the row and the clock that are read.
THEOREM SessionsExact == Spec => SessionsAreExact
<1>1. Init => Known
  <2> SUFFICES ASSUME Init PROVE Known
    OBVIOUS
  <2>1. Rows
    BY DEF Init, Rows, Good
  <2>2. \A r \in Requests : SeenFrom(r)
    BY DEF Init, SeenFrom, Idle
  <2> QED
    BY <2>1, <2>2 DEF Known
<1>2. TypeOK /\ TypeOK' /\ Known /\ [Next]_vars => Known'
  BY KnownIsKept
<1>3. TypeOK /\ Known /\ [Next]_vars =>
        [\A r \in Requests :
           /\ LetIn(r) => requests[r].good
           /\ TurnedAway(r) => ~Good(requests[r].by)]_vars
  BY StepIsExact
<1> QED
  BY TypeCorrect, <1>1, <1>2, <1>3, PTL DEF Spec, SessionsAreExact

-----------------------------------------------------------------------------
(* Routing.                                                                 *)

\* Of two prefixes of one path the shorter is a prefix of the longer.
LEMMA PrefixesOfOnePath ==
  ASSUME NEW p \in Seq(STRING), NEW a \in Seq(STRING), NEW b \in Seq(STRING),
         IsPrefix(a, p), IsPrefix(b, p), Len(a) <= Len(b)
  PROVE  IsPrefix(a, b) /\ (Len(a) = Len(b) => a = b)
<1>1. \A i \in 1 .. Len(a) : a[i] = p[i]
  <2>1. SubSeq(a, 1, Len(a)) = SubSeq(p, 1, Len(a)) /\ Len(a) <= Len(p)
    BY DEF IsPrefix
  <2> QED
    BY <2>1
<1>2. \A i \in 1 .. Len(b) : b[i] = p[i]
  <2>1. SubSeq(b, 1, Len(b)) = SubSeq(p, 1, Len(b)) /\ Len(b) <= Len(p)
    BY DEF IsPrefix
  <2> QED
    BY <2>1
<1>3. \A i \in 1 .. Len(a) : a[i] = b[i]
  BY <1>1, <1>2
<1>4. SubSeq(a, 1, Len(a)) = SubSeq(b, 1, Len(a))
  BY <1>3
<1> QED
  BY <1>3, <1>4 DEF IsPrefix

\* A service's pattern that a request fits applies to it as a route.
LEMMA FittingApplies ==
  ASSUME NEW ask \in Asks, NEW s \in Serves, s.method = ask.method,
         IsPrefix(s.prefix, ask.path),
         Len(ask.path) = Len(s.prefix) + IF s.named THEN 1 ELSE 0
  PROVE  Applies(s, ask)
<1>1. /\ s.prefix \in Seq(STRING) /\ ask.path \in Seq(STRING)
      /\ s.named => Last(s.prefix) = "/"
  BY ServesAssumption
<1>2. ~s.named => ask.path = s.prefix
  <2>1. IsPrefix(ask.path, ask.path)
    BY <1>1 DEF IsPrefix
  <2> QED
    BY <1>1, <2>1, PrefixesOfOnePath
<1> QED
  BY <1>1, <1>2 DEF Applies, MatchesPrefix

\* What a path names is one thing at most.
LEMMA OneTarget ==
  ASSUME NEW route, NEW path, NEW t \in TargetOf(route, path), NEW u \in TargetOf(route, path)
  PROVE  t = u
<1>1. \A i, j \in Id(route.prefix, path) : i = j
  BY DEF Id
<1>2. CASE route.named
  BY <1>1, <1>2, Zenon DEF TargetOf
<1>3. CASE ~route.named
  BY <1>3, Zenon DEF TargetOf
<1> QED
  BY <1>2, <1>3

\* The route a request is matched to is, of those declared as they are served,
\* the one its service will serve it as: the longest prefix is the only one that
\* fits, for whatever fits besides would be longer, or the same.
LEMMA MatchedAsServed ==
  ASSUME Declared, NEW ask \in Asks, NEW route \in Match(table, ask), ~route.here,
         NEW t \in TargetOf(route, ask.path), NEW service,
         NEW u \in ServedAs(service, ask)
  PROVE  u = t
<1>1. PICK j \in DOMAIN table :
        /\ route = table[j] /\ Applies(table[j], ask)
        /\ \A k \in DOMAIN table \ {j} : Applies(table[k], ask) =>
             \/ Len(table[k].prefix) < Len(table[j].prefix)
             \/ Len(table[k].prefix) = Len(table[j].prefix) /\ j < k
  BY Zenon DEF Match
<1>2. route \in Serves
  BY <1>1, Zenon DEF Declared, Range
<1>3. PICK s \in Serves :
        /\ s.service = service /\ s.method = ask.method
        /\ IsPrefix(s.prefix, ask.path)
        /\ Len(ask.path) = Len(s.prefix) + IF s.named THEN 1 ELSE 0
        /\ u \in TargetOf(s, ask.path)
  BY Zenon DEF ServedAs
<1>4. Applies(s, ask)
  BY <1>3, FittingApplies
<1>5. PICK k \in DOMAIN table : s = table[k]
  <2>1. s \in Range(table)
    BY Zenon DEF Declared
  <2> QED
    BY <2>1, Zenon DEF Range
<1>6. /\ s.prefix \in Seq(STRING) /\ route.prefix \in Seq(STRING) /\ ask.path \in Seq(STRING)
      /\ route.method # AnyMethod /\ s.named \in BOOLEAN
  BY <1>2, ServesAssumption
<1>7. s = route \/ Len(s.prefix) <= Len(route.prefix)
  <2>1. CASE k = j
    BY <1>1, <1>5, <2>1
  <2>2. CASE k # j
    <3>1. \/ Len(s.prefix) < Len(route.prefix)
          \/ Len(s.prefix) = Len(route.prefix) /\ j < k
      BY <1>1, <1>4, <1>5, <2>2
    <3> QED
      BY <1>6, <3>1
  <2> QED
    BY <2>1, <2>2
<1>8. IsPrefix(route.prefix, ask.path) /\ route.method = ask.method
  BY <1>1, <1>6 DEF Applies, MatchesPrefix
<1>9. CASE s = route
  BY <1>3, <1>9, OneTarget
<1>10. CASE Len(s.prefix) <= Len(route.prefix)
  <2>1. /\ IsPrefix(s.prefix, route.prefix)
        /\ Len(s.prefix) = Len(route.prefix) => s.prefix = route.prefix
    BY <1>3, <1>6, <1>8, <1>10, PrefixesOfOnePath
  <2>2. Len(route.prefix) <= Len(ask.path)
    BY <1>8 DEF IsPrefix
  <2>3. CASE Len(s.prefix) = Len(route.prefix)
    <3>1. s = route
      BY <1>2, <1>3, <1>8, <2>1, <2>3, ServesAssumption
    <3> QED
      BY <3>1, <1>9
  <2>4. CASE Len(s.prefix) # Len(route.prefix)
    <3>1. s.named /\ Len(route.prefix) = Len(s.prefix) + 1
      <4>1. /\ Len(s.prefix) \in Nat /\ Len(route.prefix) \in Nat /\ Len(ask.path) \in Nat
            /\ Len(s.prefix) < Len(route.prefix)
        BY <1>6, <1>10, <2>4
      <4>2. CASE s.named
        <5>1. Len(ask.path) = Len(s.prefix) + 1
          BY <1>3, <4>2
        <5> QED
          BY <2>2, <4>1, <4>2, <5>1
      <4>3. CASE ~s.named
        <5>1. Len(ask.path) = Len(s.prefix) + 0
          BY <1>3, <4>3
        <5> QED
          BY <2>2, <4>1, <5>1
      <4> QED
        BY <4>2, <4>3
    <3> QED
      BY <1>2, <2>1, <3>1, ServesAssumption
  <2> QED
    BY <2>3, <2>4
<1> QED
  BY <1>7, <1>9, <1>10

\* A call on its way is for what a route of the table said, and has only been
\* refused as another if the table is declared wrongly.
Routed(r) ==
  /\ requests[r].at \in {"sent", "late"} =>
       \E route \in Match(table, requests[r].ask) :
         ~route.here /\ requests[r].target \in TargetOf(route, requests[r].ask.path)
  /\ requests[r].at = "mismatch" => ~Declared
AllRouted == \A r \in Requests : Routed(r)

LEMMA RoutedElsewhere ==
  ASSUME TypeOK, AllRouted, NEW r \in Requests, NEW q \in Request, Becomes(r, q),
         UNCHANGED table, q.at \notin {"sent", "late", "mismatch"}
  PROVE  AllRouted'
BY Becoming DEF AllRouted, Routed, Declared

Ending(how) == how \notin {"sent", "late", "mismatch"} /\ [at |-> how] \in Request

LEMMA Endings ==
  \A how \in {"unauthenticated", "denied", "error", "expired", "not found"} : Ending(how)
<1> SUFFICES ASSUME NEW how \in {"unauthenticated", "denied", "error", "expired", "not found"}
             PROVE  Ending(how)
  BY Zenon
<1>1. how \notin {"sent", "late", "mismatch"}
  BY Zenon
<1>2. [at |-> how] \in Refused
  BY Zenon DEF Refused
<1> QED
  BY <1>1, <1>2, Zenon DEF Ending, Request

LEMMA RoutedEnds ==
  ASSUME TypeOK, AllRouted, NEW r \in Requests, NEW how, Ending(how),
         Ends(r, how), UNCHANGED table
  PROVE  AllRouted'
BY RoutedElsewhere DEF Ends, Becomes, Ending

LEMMA RoutedDecide ==
  ASSUME TypeOK, AllRouted, NEW r \in Requests, Decide(r)
  PROVE  AllRouted'
<1>1. requests[r] \in Arriving /\ requests[r].ask \in Asks /\ UNCHANGED table
  BY Types, Shape DEF Decide, Is, Arriving
<1>2. PICK docs : DecideBy(r, docs)
  BY DEF Decide
<1>3. PICK route \in Match(table, requests[r].ask) :
        \E t \in TargetOf(route, requests[r].ask.path) :
          IF Evaluate(docs, t) # "allow" THEN Ends(r, "denied")
          ELSE IF route.here THEN Acts(r, t)
          ELSE requests' = [requests EXCEPT ![r] = Mint(requests[r].ask, t)]
  BY <1>2 DEF DecideBy
<1>8. PICK t \in TargetOf(route, requests[r].ask.path) :
        IF Evaluate(docs, t) # "allow" THEN Ends(r, "denied")
        ELSE IF route.here THEN Acts(r, t)
        ELSE requests' = [requests EXCEPT ![r] = Mint(requests[r].ask, t)]
  BY <1>3
<1>4. t \in Targets
  BY <1>1, RoutedIsTarget
<1>5. CASE Ends(r, "denied")
  <2>1. Ending("denied")
    BY Endings, Zenon
  <2> QED
    BY <1>1, <1>5, <2>1, RoutedEnds
<1>6. CASE Acts(r, t)
  <2>1. [at |-> "acted", did |-> t] \in Request
    BY <1>4 DEF Request, Acted
  <2> QED
    BY <1>1, <1>6, <2>1, RoutedElsewhere DEF Acts, Becomes
<1>7. CASE ~route.here /\ requests' = [requests EXCEPT ![r] = Mint(requests[r].ask, t)]
  <2>1. Becomes(r, Mint(requests[r].ask, t))
    BY <1>7 DEF Becomes
  <2>2. now + CapTTL \in 0 .. MaxNow + CapTTL
    BY Types, Constants
  <2>3. Mint(requests[r].ask, t) \in Forwarded
    BY <1>1, <1>4, <2>2 DEF Mint, Forwarded
  <2>4. Mint(requests[r].ask, t) \in Request
    BY <2>3, Zenon DEF Request
  <2>5. /\ requests'[r] = Mint(requests[r].ask, t)
        /\ \A p \in Requests \ {r} : requests'[p] = requests[p]
    BY <2>1, <2>4, Becoming
  <2>6. /\ requests'[r].at = "sent" /\ requests'[r].target = t
        /\ requests'[r].ask = requests[r].ask
    BY <2>5 DEF Mint
  <2> QED
    BY <1>1, <1>7, <2>5, <2>6 DEF AllRouted, Routed, Declared
<1> QED
  BY <1>8, <1>5, <1>6, <1>7

LEMMA RoutedServe ==
  ASSUME TypeOK, AllRouted, NEW r \in Requests, Serve(r)
  PROVE  AllRouted'
<1> DEFINE at == requests[r].at
<1>6. at \in {"sent", "late"} /\ UNCHANGED table
  BY Zenon DEF Serve
<1>1. requests[r] \in Forwarded /\ UNCHANGED table
  BY <1>6, Types, Shape
<1>2. requests[r].ask \in Asks /\ requests[r].target \in Targets
  BY <1>1 DEF Forwarded
<1>3. CASE Ends(r, "not found") \/ Ends(r, "expired")
  <2>1. Ending("not found") /\ Ending("expired")
    BY Endings, Zenon
  <2> QED
    BY <1>1, <1>3, <2>1, RoutedEnds, Zenon
<1>4. CASE Acts(r, requests[r].target)
  <2>1. [at |-> "acted", did |-> requests[r].target] \in Request
    BY <1>2 DEF Request, Acted
  <2> QED
    BY <1>1, <1>4, <2>1, RoutedElsewhere DEF Acts, Becomes
<1>5. CASE \E t \in ServedAs(requests[r].target.resource[1], requests[r].ask) :
             t # requests[r].target /\ Ends(r, "mismatch")
  <2>1. PICK t \in ServedAs(requests[r].target.resource[1], requests[r].ask) :
          t # requests[r].target /\ Ends(r, "mismatch")
    BY <1>5
  <2>2. PICK route \in Match(table, requests[r].ask) :
          ~route.here /\ requests[r].target \in TargetOf(route, requests[r].ask.path)
    BY <1>6 DEF AllRouted, Routed
  <2>3. ~Declared
    BY <1>2, <2>1, <2>2, MatchedAsServed
  <2>4. [at |-> "mismatch"] \in Request
    BY Zenon DEF Request, Refused
  <2>5. /\ requests'[r] = [at |-> "mismatch"]
        /\ \A p \in Requests \ {r} : requests'[p] = requests[p]
    BY <2>1, <2>4, Becoming DEF Ends, Becomes
  <2> QED
    BY <1>1, <2>3, <2>5 DEF AllRouted, Routed, Declared
<1> QED
  BY <1>3, <1>4, <1>5, Zenon DEF Serve

LEMMA RoutedStep ==
  ASSUME TypeOK, AllRouted, [Next]_vars
  PROVE  AllRouted'
<1>1. ASSUME UNCHANGED <<table, requests>>
      PROVE  AllRouted'
  BY <1>1 DEF AllRouted, Routed, Declared
<1>2. ASSUME NEW r \in Requests, NEW ask \in Asks, NEW by \in {Signed} \union Sessions,
             Send(r, ask, by)
      PROVE  AllRouted'
  <2> DEFINE q == [at |-> "authn", ask |-> ask, by |-> by,
                   good |-> by # Signed /\ Good(by), expires |-> Never]
  <2>1. (by # Signed /\ Good(by)) \in BOOLEAN
    BY Zenon
  <2>2. q \in Arriving
    BY <2>1 DEF Arriving, Never
  <2>3. q \in Request /\ q.at = "authn"
    BY <2>2, Zenon DEF Request
  <2>4. Becomes(r, q) /\ UNCHANGED table
    BY <1>2 DEF Send, Becomes
  <2> HIDE DEF q
  <2> QED
    BY <2>3, <2>4, RoutedElsewhere
<1>3. ASSUME NEW r \in Requests, requests[r].at \in {"authn", "clock"}, UNCHANGED table,
             NEW at \in {"clock", "decide"}, NEW e \in Expiries,
             requests' = [requests EXCEPT ![r].at = at, ![r].expires = e]
      PROVE  AllRouted'
  <2> DEFINE q == [requests[r] EXCEPT !.at = at, !.expires = e]
  <2>1. requests[r] \in Arriving
    BY <1>3, Types, Shape
  <2>2. q \in Arriving /\ q.at = at
    BY <2>1 DEF Arriving, Expiries
  <2>3. Becomes(r, q)
    BY <1>3, Types DEF Becomes
  <2>4. q \in Request
    BY <2>2, Zenon DEF Request
  <2> HIDE DEF q
  <2> QED
    BY <1>3, <2>2, <2>3, <2>4, RoutedElsewhere
<1>4. ASSUME NEW r \in Requests, requests[r].at \in {"authn", "clock"}, UNCHANGED table,
             requests' = [requests EXCEPT ![r].at = "decide"]
      PROVE  AllRouted'
  <2> DEFINE q == [requests[r] EXCEPT !.at = "decide"]
  <2>1. requests[r] \in Arriving
    BY <1>4, Types, Shape
  <2>2. q \in Arriving /\ q.at = "decide"
    BY <2>1 DEF Arriving
  <2>3. Becomes(r, q)
    BY <1>4, Types DEF Becomes
  <2>4. q \in Request
    BY <2>2, Zenon DEF Request
  <2> HIDE DEF q
  <2> QED
    BY <1>4, <2>2, <2>3, <2>4, RoutedElsewhere
<1>5. ASSUME NEW r \in Requests, GiveUp(r)
      PROVE  AllRouted'
  <2> DEFINE q == [requests[r] EXCEPT !.at = "late"]
  <2>1. requests[r] \in Forwarded /\ UNCHANGED table
    BY <1>5, Types, Shape DEF GiveUp, Is
  <2>2. /\ q \in Forwarded /\ q.at = "late"
        /\ q.ask = requests[r].ask /\ q.target = requests[r].target
    BY <2>1 DEF Forwarded
  <2>3. Becomes(r, q) /\ q \in Request
    BY <1>5, <2>2, Types, Zenon DEF GiveUp, Becomes, Request
  <2>4. requests'[r] = q /\ \A p \in Requests \ {r} : requests'[p] = requests[p]
    BY <2>3, Becoming
  <2>5. requests[r].at = "sent"
    BY <1>5 DEF GiveUp, Is
  <2> HIDE DEF q
  <2> QED
    BY <2>1, <2>2, <2>4, <2>5 DEF AllRouted, Routed, Declared
<1>6. ASSUME NEW r \in Requests, Return(r)
      PROVE  AllRouted'
  <2>1. Becomes(r, Idle) /\ Idle \in Request /\ Idle.at = "idle" /\ UNCHANGED table
    BY <1>6 DEF Return, Becomes, Request, Idle
  <2> QED
    BY <2>1, RoutedElsewhere
<1>7. ASSUME NEW r \in Requests, Handle(r)
      PROVE  AllRouted'
  <2>7. Ending("error") /\ Ending("unauthenticated")
    BY Endings, Zenon
  <2>1. CASE AuthenticateSignature(r)
    BY <1>4, <2>1, <2>7, RoutedEnds DEF AuthenticateSignature, Is
  <2>2. CASE ResolveRow(r)
    <3>1. requests[r] \in Arriving /\ requests[r].by \in Sessions
      BY <2>2, Types, Shape DEF ResolveRow, Is, Arriving
    <3>2. sessions[requests[r].by] \in Expiries
      BY <3>1, Types
    <3> QED
      BY <1>3, <2>2, <2>7, <3>2, RoutedEnds DEF ResolveRow, Is
  <2>3. CASE ResolveFails(r) \/ NoTarget(r) \/ DecideFails(r)
    BY <2>3, <2>7, RoutedEnds DEF ResolveFails, NoTarget, DecideFails
  <2>4. CASE ResolveClock(r)
    BY <1>4, <2>4, <2>7, RoutedEnds, Zenon DEF ResolveClock, Is
  <2>5. CASE Decide(r)
    BY <2>5, RoutedDecide
  <2>6. CASE GiveUp(r)
    BY <1>5, <2>6
  <2> QED
    BY <1>7, <2>1, <2>2, <2>3, <2>4, <2>5, <2>6, Zenon DEF Handle
<1>8. CASE Elsewhere
  BY <1>1, <1>8
     DEF Elsewhere, SignIn, SignOut, SweepExpired, ChangePolicies, Refresh, Tick, vars
<1>9. ASSUME NEW r \in Requests, Serve(r)
      PROVE  AllRouted'
  BY <1>9, RoutedServe
<1> QED
  BY <1>2, <1>6, <1>7, <1>8, <1>9, Zenon DEF Next, Elsewhere

\* A table that declares each of the services' routes as it is served, in any
\* order and among any routes of the front door's own, decides no request as
\* something else than its service takes it for.
THEOREM RoutesAgree == Spec => []DecidedAsServed
<1>1. Init => AllRouted
  BY DEF Init, AllRouted, Routed, Idle
<1>2. TypeOK /\ AllRouted /\ [Next]_vars => AllRouted'
  BY RoutedStep
<1>3. AllRouted => DecidedAsServed
  BY DEF AllRouted, Routed, DecidedAsServed, Is
<1> QED
  BY TypeCorrect, <1>1, <1>2, <1>3, PTL DEF Spec
=============================================================================
