--------------------------------- MODULE Edge ---------------------------------
(***************************************************************************)
(* The front door as a process (cmd/frontdoor/main.go): it connects, makes *)
(* the schema what its code expects (internal/store), listens, verifies    *)
(* the signed calls that arrive (internal/authn, with module Signing),     *)
(* drains when it is told to stop, and can die at any step.  Several       *)
(* processes share one database: other front doors, of this version or an  *)
(* older one, and dariyactl, which migrates too before it does anything.   *)
(*                                                                         *)
(* A call is signed once and may be sent many times.  On its way something *)
(* may change one thing about it.                                          *)
(***************************************************************************)
EXTENDS Signing

CONSTANTS
  Processes,   \* what shares the database
  Embedded,    \* how many migrations each process's binary has
  Calls,       \* the calls a client has on its hands
  Asks,        \* the requests clients sign
  Variants,    \* the requests that may arrive instead
  Creds,       \* what clients sign with: an access key id and a secret
  Stored,      \* the secret of each access key there is: a function
  Regions, Services,  \* what a signature may be for
  Region,      \* this front door's
  ServiceOf,   \* the service the route table gives each path: a function
  Ahead,       \* how far a client's clock may be ahead of the server's: one
               \* that is behind is one whose calls are late
  MaxNow       \* BOUND: the clock

ASSUME EdgeAssumption ==
  /\ Embedded \in [Processes -> Nat]
  /\ Asks \subseteq Variants
  /\ \A r \in Variants : Len(r.query) \in Nat /\ DOMAIN r.query = 1 .. Len(r.query)
  /\ Ahead \subseteq Nat /\ MaxNow \in Nat

VARIABLES
  table,     \* is there a table schema_migrations?
  recorded,  \* its rows
  applied,   \* history: the migrations whose changes were committed, in order
  procs,     \* where each process is, and in which migration
  now,       \* the server's clock
  calls,     \* what each call has come to
  querying   \* the calls whose handler holds a connection of the pool

schema == <<table, recorded, applied>>
vars == <<schema, procs, now, calls, querying>>

-----------------------------------------------------------------------------
InMigration == {"insert", "apply", "commit"}
Booting == {"table", "create", "keys"} \union InMigration
Down == [at |-> "down", i |-> 0]
Process(p) ==
  [at : {"down", "table", "create", "keys", "serving", "draining", "closing"}, i : {0}]
  \union [at : InMigration, i : 1 .. Embedded[p]]

\* What a client meant, when, and by how much its clock was ahead.
Meant == [req : Asks, cred : Creds, region : Regions, service : Services,
          sent : 0 .. MaxNow, ahead : Ahead]

AsSigned(m) ==
  [req |-> m.req, headers |-> Sign(m.req, m.cred, m.region, m.service, m.sent + m.ahead)]

\* What arrives: what was sent, but for one thing at most.
OnItsWay(m) ==
  LET w == AsSigned(m) IN
  {w} \union {[w EXCEPT !.req = r] : r \in Variants}
  \union {[w EXCEPT !.headers.date = d] :
            d \in {NoDate, BadDate, w.headers.date + Second, w.headers.date + Day}}
  \union {[w EXCEPT !.headers.hash = h] :
            h \in {NoHash} \union {HashBody(r.body) : r \in Variants}}
  \union {[w EXCEPT !.headers.auth.algorithm = "HMAC"]}
  \union {[w EXCEPT !.headers.auth.credential = c] :
            c \in {<<w.headers.auth.credential[1]>>} \union
                  {[w.headers.auth.credential EXCEPT ![4] = s] : s \in Services}}
  \union {[w EXCEPT !.headers.auth.signature = NoSignature]}

Failure ==
  {"unknown_algorithm", "malformed_credential_scope", "malformed_authorization_header",
   "missing_date_header", "malformed_date_header",
   "date_header_disagrees_with_credential_scope",
   "timestamp_outside_skew_window", "credential_scope_is_for_a_different_region_or_service",
   "body_hash_does_not_match_body", "signature_does_not_match",
   "unknown_or_unusable_credentials", "unreadable"}

\* A call in hand is with a process, as it arrived.
Idle == [at |-> "idle"]
Elsewhere ==
  {Idle} \union [at : {"away", "answered", "cut"}, meant : Meant]
  \union [at : {"refused"}, meant : Meant, why : Failure]
Taken(m) == [at : {"in", "let in"}, meant : {m}, by : Processes, got : OnItsWay(m)]

TypeOK ==
  /\ table \in BOOLEAN
  /\ recorded \subseteq Nat
  /\ applied \in Seq(Nat)
  /\ procs \in [Processes -> UNION {Process(p) : p \in Processes}]
  /\ \A p \in Processes : procs[p] \in Process(p)
  /\ now \in 0 .. MaxNow
  /\ calls = [c \in Calls |-> calls[c]]
  /\ \A c \in Calls :
       IF calls[c].at \in {"in", "let in"}
         THEN calls[c].meant \in Meant /\ calls[c] \in Taken(calls[c].meant)
         ELSE calls[c] \in Elsewhere
  /\ querying \subseteq {c \in Calls : calls[c].at \in {"in", "let in"}}

Init ==
  /\ table = FALSE
  /\ recorded = {}
  /\ applied = <<>>
  /\ procs = [p \in Processes |-> Down]
  /\ now = 0
  /\ calls = [c \in Calls |-> Idle]
  /\ querying = {}

-----------------------------------------------------------------------------
(* Starting (main.go, store.go).  Each statement is a step; a transaction's *)
(* row lock is held by whoever is between its insert and its commit.        *)

At(p, at) == procs[p].at = at
Goto(p, at) == procs' = [procs EXCEPT ![p] = [at |-> at, i |-> 0]]

\* Mutation: the last migration is looked for past the end.
MigrationOffByOne(p, i) ==
  procs' = [procs EXCEPT ![p] = IF i <= Embedded[p] + 1 THEN [at |-> "insert", i |-> i]
                                ELSE [at |-> "keys", i |-> 0]]

\* The next migration there is, or on past them.
Migration(p, i) ==
  procs' = [procs EXCEPT ![p] = IF i <= Embedded[p] THEN [at |-> "insert", i |-> i]
                                ELSE [at |-> "keys", i |-> 0]]

\* The database answers the ping.
Open(p) ==
  /\ At(p, "down")
  /\ Goto(p, "table")
  /\ UNCHANGED <<schema, now, calls, querying>>

\* CREATE TABLE IF NOT EXISTS looks, and then creates: of two that saw none,
\* the second finds the catalog's unique index in its way, which is an error.
LookForTable(p) ==
  /\ At(p, "table")
  /\ IF table THEN Migration(p, 1) ELSE Goto(p, "create")
  /\ UNCHANGED <<schema, now, calls, querying>>

CreateTable(p) ==
  /\ At(p, "create")
  /\ IF table THEN Goto(p, "down") ELSE Migration(p, 1)
  /\ table' = TRUE
  /\ UNCHANGED <<recorded, applied, now, calls, querying>>

Locked == {procs[p].i : p \in {q \in Processes : procs[q].at \in {"apply", "commit"}}}

\* Mutation: a SELECT decides whether the migration is pending.
InsertSelects(p) ==
  /\ At(p, "insert")
  /\ LET i == procs[p].i IN
       IF i \in recorded THEN Migration(p, i + 1)
       ELSE procs' = [procs EXCEPT ![p].at = "apply"]
  /\ UNCHANGED <<schema, now, calls, querying>>

\* INSERT ... ON CONFLICT DO NOTHING: it waits for whoever has inserted the
\* name and not yet ended, and then the name is there or it is not.
Insert(p) ==
  /\ At(p, "insert") /\ procs[p].i \notin Locked
  /\ LET i == procs[p].i IN
       IF i \in recorded THEN Migration(p, i + 1)
       ELSE procs' = [procs EXCEPT ![p].at = "apply"]
  /\ UNCHANGED <<schema, now, calls, querying>>

\* The migration itself, in the same transaction.
Apply(p) ==
  /\ At(p, "apply")
  /\ procs' = [procs EXCEPT ![p].at = "commit"]
  /\ UNCHANGED <<schema, now, calls, querying>>

\* Both are there, or neither; and the reply can be lost.
Commit(p) ==
  /\ At(p, "commit")
  /\ LET i == procs[p].i IN
       /\ recorded' = recorded \union {i}
       /\ applied' = Append(applied, i)
       /\ Migration(p, i + 1) \/ Goto(p, "down")
  /\ UNCHANGED <<table, now, calls, querying>>

\* The keys, the handler, the port: a front door serves; a run of dariyactl does
\* what it was run for, and ends.
Listen(p) ==
  /\ At(p, "keys")
  /\ Goto(p, "serving") \/ Goto(p, "down")
  /\ UNCHANGED <<schema, now, calls, querying>>

\* A step of the start fails, or its context ends with a signal: what is not
\* committed is rolled back, and the process exits.
BootFails(p) ==
  /\ procs[p].at \in Booting
  /\ Goto(p, "down")
  /\ UNCHANGED <<schema, now, calls, querying>>

Boot(p) ==
  LookForTable(p) \/ CreateTable(p) \/ Insert(p) \/ Apply(p) \/ Commit(p) \/ Listen(p)

-----------------------------------------------------------------------------
(* Stopping (server.go, main.go).                                           *)

InHand(p) == {c \in Calls : calls[c].at \in {"in", "let in"} /\ calls[c].by = p}
InQuery(p) == querying \cap InHand(p)

\* Whatever p has in hand gets no answer.
Cut(p) ==
  /\ calls' = [c \in Calls |-> IF c \in InHand(p) THEN [at |-> "cut", meant |-> calls[c].meant]
                               ELSE calls[c]]
  /\ querying' = querying \ InHand(p)

\* SIGTERM: no new connections.
Signal(p) ==
  /\ At(p, "serving")
  /\ Goto(p, "draining")
  /\ UNCHANGED <<schema, now, calls, querying>>

\* The port is taken, or the listener breaks: Serve returns without a drain.
ListenFails(p) ==
  /\ At(p, "serving")
  /\ Goto(p, "closing")
  /\ UNCHANGED <<schema, now, calls, querying>>

\* Shutdown returns: what was in flight is finished.
Drained(p) ==
  /\ At(p, "draining") /\ InHand(p) = {}
  /\ Goto(p, "closing")
  /\ UNCHANGED <<schema, now, calls, querying>>

\* Mutation: the drain has no bound.
DrainNeverTimesOut(p) ==
  /\ At(p, "draining") /\ InHand(p) = {}
  /\ Goto(p, "closing")
  /\ UNCHANGED <<schema, now, calls, querying>>

\* Shutdown returns: ten seconds have passed.  It cancels nothing: the handlers
\* run on.
DrainTimesOut(p) ==
  /\ At(p, "draining")
  /\ Goto(p, "closing")
  /\ UNCHANGED <<schema, now, calls, querying>>

\* run's deferred st.Close waits for every connection that is in use, and then
\* the process ends.
Exit(p) ==
  /\ At(p, "closing") /\ InQuery(p) = {}
  /\ Cut(p)
  /\ Goto(p, "down")
  /\ UNCHANGED <<schema, now>>

Crash(p) ==
  /\ procs[p].at \in {"serving", "draining", "closing"}
  /\ Cut(p)
  /\ Goto(p, "down")
  /\ UNCHANGED <<schema, now>>

-----------------------------------------------------------------------------
(* Calls (authn.go).                                                        *)

Over == {"answered", "refused", "cut"}
Ends(c, how) == calls' = [calls EXCEPT ![c] = [at |-> how, meant |-> calls[c].meant]]
Refuse(c, why) ==
  calls' = [calls EXCEPT ![c] = [at |-> "refused", meant |-> calls[c].meant, why |-> why]]

\* BOUND: clients sign when there is somebody to send it to.
ClientSigns(c, m) ==
  /\ calls[c] = Idle /\ m.sent = now
  /\ \E p \in Processes : At(p, "serving")
  /\ calls' = [calls EXCEPT ![c] = [at |-> "away", meant |-> m]]
  /\ UNCHANGED <<schema, procs, now, querying>>

\* The very same bytes once more (dariyactl sign prints them for curl).
SendAgain(c) ==
  /\ calls[c].at \in Over
  /\ Ends(c, "away")
  /\ UNCHANGED <<schema, procs, now, querying>>

Forget(c) ==
  /\ calls[c].at \in Over
  /\ calls' = [calls EXCEPT ![c] = Idle]
  /\ UNCHANGED <<schema, procs, now, querying>>

\* A connection, to a process that still takes them.
Arrive(c, p) ==
  /\ calls[c].at = "away" /\ At(p, "serving")
  /\ \E w \in OnItsWay(calls[c].meant) :
       calls' = [calls EXCEPT ![c] =
                   [at |-> "in", meant |-> calls[c].meant, by |-> p, got |-> w]]
  /\ UNCHANGED <<schema, procs, now, querying>>

\* Its handler takes a connection from the pool and sends a statement: for the
\* signing key, or for what was asked.  Once Close is called none is given out.
Query(c) ==
  /\ \E p \in Processes : c \in InHand(p) /\ procs[p].at \in {"serving", "draining"}
  /\ querying' = querying \union {c}
  /\ UNCHANGED <<schema, procs, now, calls>>

\* The database answers, or the client hangs up and its request's context with
\* it; neither need ever happen.
QueryEnds(c) ==
  /\ c \in querying
  /\ querying' = querying \ {c}
  /\ UNCHANGED <<schema, procs, now, calls>>

\* What authenticateSignature comes to, at the time it looks at the clock.
Verdict(w) ==
  LET parsed == ParseAuthorization(w.headers.auth)
      key == w.headers.auth.credential[1]
  IN IF parsed # "parsed" THEN parsed
     ELSE IF key \notin DOMAIN Stored THEN "unknown_or_unusable_credentials"
     ELSE Verify(w.req, w.headers, Stored[key], Region, ServiceOf[w.req.path], now)

\* The body is read, the key resolved, the signature verified.
Authenticate(c) ==
  /\ calls[c].at = "in" /\ c \notin querying
  /\ LET verdict == Verdict(calls[c].got) IN
       IF verdict = "ok" THEN calls' = [calls EXCEPT ![c].at = "let in"]
       ELSE Refuse(c, verdict)
  /\ UNCHANGED <<schema, procs, now, querying>>

\* The body is too long or cut short, or the key could not be read.
AuthenticateFails(c) ==
  /\ calls[c].at = "in" /\ c \notin querying
  /\ Refuse(c, "unreadable") \/ Refuse(c, "unknown_or_unusable_credentials")
  /\ UNCHANGED <<schema, procs, now, querying>>

\* The handler is done, which it need not ever be; its answer can come too late
\* for WriteTimeout, or for the client.
Answer(c) ==
  /\ calls[c].at = "let in" /\ c \notin querying
  /\ Ends(c, "answered") \/ Ends(c, "cut")
  /\ UNCHANGED <<schema, procs, now, querying>>

Tick ==
  /\ now < MaxNow
  /\ now' = now + 1
  /\ UNCHANGED <<schema, procs, calls, querying>>

Next ==
  \/ \E p \in Processes : \/ Open(p) \/ Boot(p) \/ BootFails(p)
                          \/ Signal(p) \/ ListenFails(p) \/ Drained(p)
                          \/ DrainTimesOut(p) \/ Exit(p) \/ Crash(p)
  \/ \E c \in Calls : \/ \E m \in Meant : ClientSigns(c, m)
                      \/ SendAgain(c) \/ Forget(c)
                      \/ \E p \in Processes : Arrive(c, p)
                      \/ Query(c) \/ QueryEnds(c)
                      \/ Authenticate(c) \/ AuthenticateFails(c) \/ Answer(c)
  \/ Tick

Spec == Init /\ [][Next]_vars

\* A process runs on, its timer fires, and Postgres hands a freed lock to who
\* waits for it.  No handler and no query need come to an end.
FairSpec ==
  /\ Spec
  /\ \A p \in Processes : /\ WF_vars(Boot(p)) /\ SF_vars(Insert(p))
                          /\ WF_vars(DrainTimesOut(p)) /\ WF_vars(Exit(p))

-----------------------------------------------------------------------------
(* Properties.                                                              *)

\* However many processes start at once, fail half way or lose the reply to a
\* commit, and whichever version they are: each migration is applied once and
\* in order, is recorded exactly if it was applied (store.go:58-62, 90-93),
\* and a process that serves has all that its code expects.
SchemaIsMigrated ==
  /\ applied = [i \in 1 .. Len(applied) |-> i]
  /\ recorded = 1 .. Len(applied)
  /\ \A p \in Processes :
       procs[p].at \in {"keys", "serving", "draining", "closing"}
         => Embedded[p] <= Len(applied)

\* Methods are compared without regard to case, an empty path is "/", and the
\* order of a query does not count.
SameRequest(a, b) ==
  /\ Upper(a.method) = Upper(b.method)
  /\ canonicalPath(a.path) = canonicalPath(b.path)
  /\ Len(a.query) = Len(b.query)
  /\ \E f \in [DOMAIN a.query -> DOMAIN b.query] :
       \A i, j \in DOMAIN a.query :
         /\ a.query[i] = b.query[f[i]]
         /\ i # j => f[i] # f[j]
  /\ a.body = b.body

\* Who gets in sent exactly what is served: the request was signed with the
\* key's own secret, for this region and the service that serves it, no more
\* than MaxSkew ago by the client's clock nor ahead by more than that and the
\* second a timestamp leaves out; whatever changed on the way, however often
\* it is sent, and to whichever front door (signing.go:6-12, 72-79).
LetIn(c) == calls[c].at = "in" /\ calls'[c].at = "let in"
AcceptedAsSigned ==
  [][\A c \in Calls : LetIn(c) =>
       LET m == calls[c].meant
           w == calls[c].got
           age == now - (m.sent + m.ahead)
       IN /\ SameRequest(m.req, w.req)
          /\ m.cred.key \in DOMAIN Stored /\ m.cred.secret = Stored[m.cred.key]
          /\ m.region = Region /\ m.service = ServiceOf[w.req.path]
          /\ -MaxSkew - Second < age /\ age <= MaxSkew]_vars

\* A call that arrives as it was sent or with no more than its query in another
\* order, signed with the right key for where it is going, in time, is never
\* turned away; and one that is turned away for its signature was: there is no
\* better name for what is wrong (signing.go:350-352).
InOrder(c) ==
  LET m == calls[c].meant
      w == calls[c].got
      age == now - (m.sent + m.ahead)
  IN /\ w.headers = AsSigned(m).headers /\ SameRequest(m.req, w.req)
     /\ m.cred.key \in DOMAIN Stored /\ m.cred.secret = Stored[m.cred.key]
     /\ m.region = Region /\ m.service = ServiceOf[w.req.path]
     /\ -MaxSkew <= age /\ age <= MaxSkew - (Second - 1)

NoBetterName(c) ==
  LET m == calls[c].meant
      w == calls[c].got
      age == now - (m.sent + m.ahead)
  IN /\ w.headers.date # AsSigned(m).headers.date \/
        (-MaxSkew - Second < age /\ age <= MaxSkew)
     /\ m.region = Region
     /\ w.req.body = m.req.body \/ w.headers.hash = NoHash

TurnedAway(c) == calls[c].at = "in" /\ calls'[c].at = "refused"
RefusalsAreExplained ==
  [][\A c \in Calls : TurnedAway(c) =>
       LET why == calls'[c].why IN
         /\ why \in {"unreadable", "unknown_or_unusable_credentials"} \/ ~InOrder(c)
         /\ why = "signature_does_not_match" => NoBetterName(c)]_vars

\* Nobody who starts waits for ever for a lock; and of those who were told to
\* stop, whatever their handlers do, only one that closes its pool under a query
\* that never ends (server.go:310-318, main.go:68).
Moving == Booting \union {"draining", "closing"}
ProcessesMoveOn ==
  \A p \in Processes :
    <>[](procs[p].at \in Moving) => <>[](At(p, "closing") /\ InQuery(p) # {})
=============================================================================
