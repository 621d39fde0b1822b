# dariyanWS in TLA+

dariyanWS is a small cloud on one machine: a front door that authenticates and
authorizes, an identity and policy service, a compute service (**chala**) that runs
containers on a docker daemon, and a managed cache service (**nache**) that runs its
nodes on chala. This directory holds TLA+ modules of its control planes, the TLC
configurations that check them on small instances, and proofs, checked by TLAPS, of
what they promise on any instance. Paths below are relative to the repository; `x.go:n`
is a line of it.

| File | What it is |
|---|---|
| `CacheService.tla` | what nache promises a customer, abstractly |
| `Nache.tla`, `MCNache*` | nache's table, handlers and reconciler; implements `CacheService` |
| `InstanceService.tla` | what chala promises its callers, abstractly |
| `Chala.tla`, `MCChala*` | chala's instance service, call by call on a docker daemon; implements `InstanceService` |
| `TtlCache.tla`, `MCTtlCache*` | the read-through cache of access keys and policies |
| `DirectoryService.tla` | what creates, deletes and attachments promise, abstractly |
| `Directory.tla`, `MCDirectory*` | accounts, access keys and policies: tokens, deletes, attachments, listings; implements `DirectoryService` |
| `FrontDoor.tla`, `MCFrontDoor*` | a request from its credentials to the service that acts on it |
| `Signing.tla` | signing and verifying a request |
| `Edge.tla`, `MCEdge*` | the front door as a process: start, migrations, signed calls, drain |
| `*_proofs.tla` | the theorems about each, and their proofs |
| `PROJECT.json` | components, runs, mutants, source map, findings, hazards, theorems |

Run `tlc -config MCNache_safety.cfg MCNache` for a check and `tlapm Nache_proofs.tla`
for a proof; both from this directory.

## 1. Inventory

State, operations, interactions and what makes each part hard. *M* marks the parts that
are modelled.

| Component | State | Operations | Hard because | Correct when |
|---|---|---|---|---|
| nache API and store *M* (`internal/nache`) | the table `clusters` | create (get, count, insert, reread), delete (mark, reread), describe, list | statements are not in a transaction; the reconciler writes the same rows | deletion is final; a name is free only when its node is gone; the quota is overshot by a bounded amount |
| nache reconciler *M* | none between passes | one loop: list rows, list nodes, close the gap, sweep orphans | acts on what it read earlier; any call can fail, be half done, or happen late; the process can die anywhere | active means the cluster's own node answered; rows and nodes converge |
| chala *M* (`internal/chala`) | the daemon's containers and networks | run (a PUT), terminate, describe, list | a handler is up to eight daemon calls; handlers of one name interleave; no lock but the container name | running means attached; the answer is the request's own instance; listings are whole |
| ttlcache *M* (`internal/ttlcache`) | entries, loads in flight | get, invalidate | loads overlap changes and invalidations; full cache; expiry | answers are recent; within its bound; nothing live is evicted |
| accounts, access keys *M* (`internal/control`) | tables `accounts`, `access_keys`, `idempotency` | create with a client token, list by page, delete with a callback into the cache | retries that race; id collisions; lost replies | one result per token; no page skips a row |
| iam *M* (`internal/iam`) | tables `policies`, `policy_attachments`, the policy cache | create, delete with cascade, attach, detach, load, evaluate | who is affected is read before the cascade; cached decisions | what is cached is right, about to be dropped, or could not be known to be wrong; deny wins |
| authn, signing *M* (`internal/authn`, `signing`) | none | pick a scheme, sign, verify, resolve | order of checks, clock windows, what changes on the way or is sent again | who is let in signed what is served, in time; who is not is told the right reason |
| sessions *M* (`internal/session`) | table `sessions` | sign in, resolve, sign out, sweep | row and clock are read one after the other; expiry boundary | an expired or signed-out session is none, any other is one |
| front door, router, proxy *M* (`internal/frontdoor`, `router`, `proxy`) | route table | match, decide, mint, forward, give up | overlapping prefixes; a call outlives its timeout | decided as what it is served as; always answered |
| authz, capability, servicekit *M* | keys in memory | decide, mint, verify, compare | lifetimes, skew and lag add up | what is done was permitted a bounded time before |
| store *M* (`internal/store`) | `schema_migrations` | migrate | several processes of several versions start at once; lost commits | each migration once and in order, before anybody serves |
| front door's process, dariyactl *M* (`cmd`) | where it is between start and exit | boot, listen, drain, sign | a drain with calls in hand; a pool that closes under queries | whoever starts or is told to stop gets there, unless a query of its own never ends |
| page *M* (in Directory) | none | cursor, limit | pages of a table that changes | no page skips a row |
| secrets, arn, apierr, httpx | none | formats, crypto, middleware | - | - |
| clients/cpp, console, proto, deploy | none of the control planes' | - | - | - |

**How they interact.** A client calls the front door; it resolves the access key through
a ttlcache over `access_keys`, decides with policies through a ttlcache over
`policy_attachments`, mints a capability and forwards. nache's handlers write its table;
its reconciler, one goroutine, reads the table and calls chala *through the front door*;
chala calls the docker daemon. Writers of keys and policies call back into the cache of
their own process (`Invalidate`). So: calls between services can time out and still
happen; tables are shared by handlers and reconciler; callbacks follow commits.

## 2. The models

### Nache

One step is one SQL statement or one call to chala. `rows` is the table, with `inc`, the
incarnation of a name, standing for `created_at`; `requests` are the handlers' program
counters; `phase`, `seen`, `listed`, `write` are the locals of `Pass` and `reconcile`;
`nodes` is what chala has; `late` are calls nache gave up on.

| Action | Code |
|---|---|
| `Ask`, `CreateGet`, `CreateCount`, `CreateInsert`, `Render` | `API.create`, `Store.Create` |
| `DeleteMark` | `API.delete`, `Store.MarkDeleting` |
| `PassBegin`, `PassList`, `PassListFails`, `PassEnd` | `Reconciler.Run`, `Pass` |
| `ReconcileRun`, `ReconcileTerminate`, `ReconcileLook`, `ReconcileWrite` | `Reconciler.reconcile`, by branch, then `SetObserved` or `Forget` |
| `TerminateOrphan` | the loop over what is left of the listing |
| `CallFails`, `LateCall` | an error from `ChalaClient.do`: nothing, half, all, or later |
| `NodeAnswers`, `NodeFails` | the engine, external |
| `Crash` | the process, which keeps only the table |

Abstractions. A pass reconciles clusters one at a time and in name order; the model takes
any order. A node is kept per cluster: `NodeName` is a function of the cluster, so
`reconcile`'s branch for a node under another name has nothing to do (the code says it
"cannot arise"). `PassList` is one step although chala lists ids and then looks at each:
module Chala shows a listing to be whole, and nodes of different clusters are
independent. A container being removed (`TERMINATING`) is seen as one coming up, which
is what the reconciler does with it. A late call is performed at once; two RunInstances
of one name overlapping inside chala are Chala's subject. `AfterRunNode` is the crash of
experiment E5, which `Crash` covers.

`CacheService` is what a customer is promised: a cluster is created, becomes active when
*its own* node has answered, is deleted once and for all, and its name is given out again
only when no node answers to it. `Nache` implements it with `state` the row's state and
`up` the clusters with a container.

### Chala

chala keeps nothing, so the daemon's containers and networks are the state and one step
is one call to the daemon. `requests[r]` holds what the handler knows: what it was asked,
the id it works on, and the container *as it last saw it*. A name is an account and an
instance name; what `adopt` compares (image, tags, attachment, aliases) is one value `Want`.
`finish` is spread over `FinishNetwork`, `FinishConnect`, `FinishStart`, each reached by
what the last look said. chala's own crash is `HandlerFails`, since nothing else is lost.
`EnsureNetwork` is one step: losing the race to create a network is no error. The
container states paused, restarting and removing are left out: finish treats the first two as
running, and a container being removed counts as removed.

`InstanceService` is what a caller is promised, with no daemon, no ids and no looks that grow
stale: a name has no instance or one; a call is open, or done and not yet answered, or no more;
and each call takes effect in one step in between. A run makes the instance if there is none,
works only on one that is as *it* asked (`Mine`), starts it only when attached, and is done only
when it is attached and has been started. A terminate takes away one instance, once; those of the
name that were under way at the time may be done by it. `Chala` implements it with
`instances[k]` what the one container of that name shows (`InstanceOf`, "asked" when it is on
the networks its labels ask for), and `calls[r]` what the handler has still to do (`CallOf`): a
run is done when it is left to respond, a terminate when the container it found is gone. That
a terminate loses its effect to another one, or that a container is made anew in between, is
what the second half of `Remove` and the freshness of ids are for.

### TtlCache

The row behind a key is a version, bumped by each change; an answer is a version and the
time it was read. `flights[k]` is singleflight's one load of the key, `gets[g]` a Get that
missed. A store, with its sweep and refusal, is one step, as it is under the lock. A lookup
reads the entry and then the clock; it is one step, as an entry can only look older by
waiting. Likewise the expiry is computed when the entry is stored. `ChangeHere` then
`Invalidate` is a writer in this process (the row, then the callback: `keys.go:190`);
`Change` is any other, or one whose reply was lost. `floor`, `best` and `refused` are history:
the version behind the last Invalidate of a key, the newest one it was answered with, and the
keys whose present entry a full cache has refused to replace. No action depends on them.

### Directory

One step is one SQL statement or one callback. Accounts, access keys and policies each have a
table and an operation column in `idempotency` to themselves, so a behaviour is about one of
them (`kind`, chosen in `Init`). `calls[r]` is a handler's program counter and locals; the
rows a transaction has inserted and not committed are what its `calls[r]` says it holds
(`HoldsId`, `HoldsToken`), and another insert of the same key is disabled until it ends.

| Action | Code |
|---|---|
| `InsertAccount`, `InsertKey`, `InsertPolicy` | the row, with a redraw, an error or a refusal if it is taken |
| `ClaimToken`, `Replay` | `INSERT INTO idempotency ... ON CONFLICT DO NOTHING`, and what the token made |
| `Commit`, `Fails` | the commit and its answer, or the loss of either |
| `DeleteReadsAffected`, `DeleteRow` | `DeletePolicy`, `DeleteAccessKey`, with the cascade |
| `AttachLooks`, `Attach`, `Detach` | `AttachPolicy`, `DetachPolicy` |
| `Drop` | `principalChanged`: one callback into the policy cache |
| `LoadBegin`, `LoadEnd`, `Expire` | a Get that missed and loads (`PoliciesFor`), the store or its refusal, an entry's end |
| `ListBegin`, `ListPage` | the keyset listings |

An account and its key are drawn at random from `Ids`, a policy's id is its name. Secrets,
documents and names are one value, `Contents`. The cache is reduced to "an entry may go at any
time"; its lifetimes and bounds are TtlCache's. The next page is described, not computed:
`IsPage` says which sets are one. Listing policies is the listing of the other two.

A Get looks into the cache and then asks singleflight, with nothing held in between, so a load
may begin when another has just stored an entry; what it stores replaces that entry, whichever
of the two is newer, or is refused. `created`, `told`, `slipped` (attachments made between the
two statements of a delete of their policy), `overtaken` (principals whose load under way a
change has overtaken) and `excused` are history.

`DirectoryService` is what is promised to who creates, deletes, attaches and detaches: each call
takes effect in one step between its start and its answer, if it does. `Make` puts a row where
there is none, together with the record of its token, which had none; `Repeat` answers with what
the token made; a delete takes the row with all its attachments, and an attachment is only ever
of a row that is there. There are no transactions in it, no draws, no locks and no callbacks:
`Directory` implements it with the tables as they are committed, and with `CallOf`, which hides
how far a handler has come, the id it has drawn and whom it is going to call back.

### FrontDoor

`requests[r]` says how far request `r` has come: `authn`, `clock` (its session's row has been
read, the clock not yet), `decide`, `sent`, `late` (the proxy gave up, the call is still on its
way), `acted`, or how it was refused.

| Action | Code |
|---|---|
| `Send` | a client; `authenticate` picks the signature over the cookie |
| `AuthenticateSignature` | `authenticateSignature`, by its outcome |
| `ResolveRow`, `ResolveClock`, `ResolveFails` | `Manager.Resolve` and `authenticateSession` |
| `NoTarget`, `Decide`, `DecideFails` | `TargetFor`, `Authorize`, `Mint`, dispatch |
| `GiveUp`, `Return` | the proxy's timeout; the answer, or a lost call |
| `Serve` | the service's mux and `Guard.authorize` |
| `SignIn`, `SignOut`, `SweepExpired` | `session.Manager` |
| `ChangePolicies`, `Refresh`, `Tick` | Directory, the policy cache, the clock |

Operators: `Match`, `MatchesPrefix`, `TargetOf`, `Id` (router), `Covers`, `Matches`, `Evaluate`
(policy), `ServedAs` (the mux of a service). Strings that are compared by prefix are sequences
of pieces. `permitted`, `issued` and `signedOut` are history.

Abstractions. Verifying a signature, and the key it needs (TtlCache), is an outcome that may be
either. There is one principal, and the account of a resource is always the caller's: the
front door takes it from the principal and the service from the capability, so the code's
comparisons of accounts hold by construction and are left out. Deciding, minting and
dispatching are in memory and one step. The policy cache is a reading of age at most
`PolicyAge`, which is its TTL plus the time of a load (`AnswerIsRecent` of TtlCache); one that
is too old goes at the tick, and Invalidate only makes it younger, so it is left out. The
service's clock is within `MaxLag` of the front door's. A service acts at the moment it has
verified, and replies wait for no tick. `SweepExpired` may run at any time: session.go:203 says
it is "called on a timer", but no command calls it, and nothing here needs it.

### Signing and Edge

Module Signing is package `signing`, function by function, with time in ticks: a second has
several, a day several seconds. A hash or a MAC is the value it was made of, so two agree when
what went into them does. `canonicalQuery` sorts; what is left of a query is how often each
pair occurs in it.

Edge puts it into the front door's process. `procs[p]` is where process p is between its start
and its end, and in which migration; `recorded` is `schema_migrations`, `applied` the history of
what was committed. A call is signed once by a client whose clock may be ahead, is sent, and
arrives as it was sent or with one thing about it changed.

| Action | Code |
|---|---|
| `Open`, `LookForTable`, `CreateTable` | `store.Open`; `CREATE TABLE IF NOT EXISTS`, which looks and then creates |
| `Insert`, `Apply`, `Commit` | the transaction of one migration; `Insert` waits for whoever holds the row |
| `Listen`, `BootFails` | the rest of `run`, and every error return before it |
| `Signal`, `ListenFails`, `Drained`, `DrainTimesOut` | `frontdoor.Serve`, and the ways it returns |
| `Exit`, `Crash` | `run`'s deferred `st.Close`, and the end of the process; or its death |
| `Query`, `QueryEnds` | a handler's statement on the pool, and its end |
| `ClientSigns`, `SendAgain` | `dariyactl sign`, whose output may be run again |
| `Arrive`, `Authenticate`, `AuthenticateFails`, `Answer` | `authn.Middleware` around a handler |

Abstractions. Migrations are numbered by their place in filename order, and a version has a
prefix of them. Of two processes that both saw no table, the second to create it fails and
exits: PostgreSQL's IF NOT EXISTS does not wait. The key is found or not (TtlCache is its
cache). A header that does not split into the parts `ParseAuthorization` expects is one with a
short credential or no signature. A clock that is behind is the same as a call that is late.

`querying` are the calls whose handler holds a connection of the pool. Each call comes on a
connection of its own and has one statement at a time. Of pgxpool it is assumed that `Close`
hands out no connection and returns when all are back, and of `http.Server` that `Shutdown`
cancels no request: both are how `Serve` and `Store.Close` use them. So after a drain that timed
out the handlers run on, and the process ends (`Exit`) when none of them is in a query, cutting
off whatever else they do. A handler need never be done, nor a query. An answer that comes too
late for the server's WriteTimeout, or for the client, ends as "cut"; a body that does not
arrive within ReadTimeout is an `AuthenticateFails`. A second signal changes nothing, as the
first one's handler is still installed; a kill is a `Crash`.

## 3. Runs

| Run | Instance | Shows |
|---|---|---|
| nache_safety | 3 names, 2 requests, 2 incarnations, limit 1, failures and crashes | the reconciler's safety, how far the quota is overshot, and `CacheService` implemented |
| nache_heal | 1 name, 1 request, 2 incarnations, 1 late call, failures that end | convergence; deletion final with late calls |
| nache_inherit | as heal | **violated**: a new cluster served by its predecessor's node |
| nache_overquota | 2 names, 2 requests, limit 1 | **violated**: the limit itself |
| chala_safety | 3 names, 2 requests, 1 listing, 3 containers ever, an attachment, failures | attached, true answers, whole listings, quota |
| chala_live | 1 name, 2 requests, 3 containers ever, failures | `InstanceService` implemented; a half-made instance is completed |
| chala_exited | as live, 2 containers ever | **violated**: an exited container is started again |
| ttlcache | 3 keys, 2 Gets, bound 2, 3 versions of one row, 4 instants | recent, monotone but for entries a full cache kept, bounded, nothing evicted |
| directory | 3 kinds, 2 ids (1 policy attached), 1 token, 1 principal, 2 calls, 2 attempts, pages of 1 | `DirectoryService` implemented; tokens, listings, stale policies, no handler stuck |
| request_path | 3 route tables, 5 asks, 2 documents, 1 request, 1 session, 6 instants | how long a revocation can be outlived, exact sessions, agreement, always an answer |
| process | 2 processes of 2 versions, 2 migrations, 1 call, 6 forms a request may arrive in, 2 secrets, 2 services, 5 instants | schema migrated once, in order and by whom it may; who gets in signed it; refusals for the right reason; nobody stuck but under a query that never ends |
| ttlcache_local | 1 key | **violated**: Invalidate is not immediate on its own process |

**Bounds.** `MaxBorn` 2: what can go wrong between incarnations needs a cluster and its
successor. `MaxLate` 1: one late call suffices for the finding. `MaxIds`: as many
containers as the limit, the overshoot and a recreate need. Three names against a limit of
one let both requests overshoot. In chala_live the one name is contended by two calls at a time and made again twice; three
calls at a time, and names that do not disturb one another, are the theorem's. For the cache, three keys and a bound of two entries make it
full, and leave room as often, so that an entry is replaced in the one case and refused in the
other; version 0 is no such key, a negative answer, and two changes make two positive answers
that can be taken for each other. One row changes (`MaxChanged`), as rows have nothing to do
with each other but the room they take; four instants outlast both lifetimes and a load. In directory two calls race for one token and two ids, two attempts
collide once and give up once, and pages of one make every row a page boundary; contents are
never compared, so one will do, and one policy is attached and detached (`Attachable`). In request_path one request is enough: requests share only
what the other actions also change (the cached reading, which `Refresh` stands for). Every
lifetime is 1 and the clock runs to `MaxNow` 5, so that the bound of 4 is reached and could be
exceeded; sessions live for 2 from instant 0 (`LastSignIn`), so that they expire within the
run. The tables are part of the real one, in two orders, and one with a route declared as
what it is not. All bounds guard only the actions they cap (a bounded insert
becomes a refused one), so no run deadlocks, and deadlock is checked everywhere.
In nache_safety the constraint `CrowdIsCalm` keeps three clusters small:
nothing fails where there is a second cluster and no node has answered yet where there is a
third, so failures and crashes meet one cluster at a time in all their depth, and the quota
meets as many clusters as it can be overshot by; the theorems have no such bound. In process a
second is two ticks, a day two seconds and `MaxSkew` one second, so that within `MaxNow` 4 a
timestamp is cut, a midnight passes between signing and arriving, and the window opens and
closes; a client's clock is right, or ahead by more than the window. One thing about a call
changes on its way, which is enough to break any single check, and clients sign only while
somebody serves. Symmetry (names, requests, keys, Gets) is used in safety runs only.

**Violated runs.** Each shows a sentence of the repository that the code does not keep; the
findings in PROJECT.json quote it. None contradicts a passing property: each has a bounded
form that holds (the quotas' overshoot, the cache's TTL, convergence in nache_heal).

**Fairness.** `Run` never leaves its loop and a handler runs to its reply: weak fairness of
`Reconcile` as a whole and of each request's `Handle`. It is on the *whole* reconciler: what
is fair to one cluster follows from a pass touching each listed cluster once. Failures may
go on for any time but stop (`Settle`), as nothing converges under failures that never
stop. An engine that was started answers its check in the end. In chala_live the caller
repeats the PUT for as long as the instance is half made, which is what nache does at every
pass; strong fairness, because the request slot it takes is also wanted by others. In directory
each call's step is strongly fair: PostgreSQL gives a lock to its waiters in turn, and others
may take and release it in between. In request_path each request's `Handle` is weakly fair: a
handler runs on, and the proxy's timeout passes. A service is not assumed to answer. In process a
start runs on (`Boot`), the drain's timer fires (`DrainTimesOut`), and the process ends once no
connection is in use (`Exit`); `Insert` is strongly fair, because PostgreSQL hands a lock to who
waits for it, while no handler and no query need ever come to an end.

## 4. Proofs

All for arbitrary constants satisfying the modules' assumptions (`NacheAssumption`,
`ChalaAssumption`, `TtlCacheAssumption`, `DirectoryAssumption`, `FrontDoorAssumption`,
`ServesAssumption`, `SigningAssumption`, `EdgeAssumption`: finite sets of names, requests or keys,
natural numbers, paths and queries that are sequences, and what `http.ServeMux` enforces of a
service's patterns), and all from `Init` and `Next` alone.

* **Nache.** `TypeCorrect`. `ReconcilerSafe`: if `MaxLate = 0`, then always `NodeHasItsRow`,
  `ActiveMeansAnswered` and `SnapshotHolds`. The inductive invariant is these with `late = {}`;
  `SnapshotHolds` is the strengthening: it says what the pass's old reads still imply about
  the rows and nodes of now, and without it a Forget could not be known to come after the
  node. `NacheImplementsCacheService`: under it each step maps to a step of `CacheService` or a
  stutter. The assumption is needed: run nache_inherit is the counterexample without.
  `DeletionFinal` and `QuotaBound` hold for any `MaxLate`. The quota's invariant counts rows
  together with inserts about to happen; a request enters that set only on a count below the
  limit, or on a name taken at its Get, and each request adds at most one name.
* **Chala.** `TypeCorrect`. `RunInstanceIsSafe`: `RunningIsAttached` and `AnswerIsTrue`, from an
  invariant that says names are unique, ids are fresh, and for every handler that what it
  last saw of its container can only have progressed (`LookHolds`): networks are never left,
  "created" is never returned to. `ListingsAreWhole`, `QuotaBound`, `TerminateIsExact`.
  `ChalaImplementsInstanceService`: under that invariant and one more part (`FoundHolds`: what a
  terminate has found keeps its name for as long as it is there, and its id is not given out
  again) each daemon call maps to a step of `InstanceService` or a stutter. As a name has one
  container (`OneOfAName`), what a call changes is *the* instance of that name and of no other
  (`OneChanges`, `KeysStay`); a run goes on to respond only where what it last saw, and so what is
  there now, is attached and was started (`GoesOn`); and a removal ends exactly the terminates
  that had found that container (`Ends`).
* **TtlCache.** `TypeCorrect`. `AnswersAreRecent`: a load in flight is at most `MaxLoad` old, so
  an entry expires within its lifetime plus `MaxLoad` of the read. `AnswersAdvance` and
  `NothingEvicted`: per key, answered <= entry <= load under way <= row, where the first may
  fail only for a key in `refused`. So who waits for a load is never answered with less than
  before, and who finds an entry only when a full cache has refused to replace that very entry
  (`AnswerStep`). `CacheIsBounded`.
* **Directory.** `TypeCorrect`, `InsertsAreNew`, `TokensHaveOneResult`, `ListingsSkipNothing`,
  `StalenessIsAccountedFor`. The first strengthening is about transactions: an id that is drawn
  or inserted (`Drawn`, `Asked`) is held by one call alone, a claimed token is nowhere in the
  table (`TokenIsNew`), and what a commit adds is exactly what was claimed (`TakesAndCommits`).
  `DirectoryImplementsDirectoryService`: under that and the fact that a handler's statements are
  those of the operation it was asked for (`DoesAsAsked`), a commit is a `Make`, for neither its
  id nor its token is in the tables; a replay is a `Repeat`; a statement that changes a row is
  the change itself; and all else that a handler does is its end, or not to be seen (`Hidden`).
  Stale entries need more: attachments are of policies that exist
  (`AttachedExist`), a load that is behind was overtaken (`StaleLoadIsAccountedFor`), and a
  delete that has read who is affected knows everybody its policy is attached to but those who
  slipped in since (`AffectedAreKnown`, with `OnlyPoliciesAttach`). The last is what reading
  first is for: a delete that knew nobody would leave entries that nothing accounts for.
* **FrontDoor.** `TypeCorrect`. `RevocationBounded`: by induction, what is permitted now is noted
  as such (`PermittedNow`), what the cached reading permits was permitted when it was read
  (`ReadingsArePast`), and a call on its way expires at most `PolicyAge + CapTTL` after its target
  was permitted (`CallsAreBounded`); the skew and the lag come in only at the service.
  `SessionsExact`: a row is that of a session issued and not signed out, and a good session has
  its row (`Rows`); a session that was not good when the request was sent is not since, and once
  its row was read it has expired (`SeenFrom`). Both go by what a request can become
  (`Moves`), so that each action is looked at once. `RoutesAgree` is `DecidedAsServed` for any
  tables: a call on its way is for what the route `Match` chose for its path said (`Routed`);
  a service serves it only by a pattern of its own that the path fits; and as the route
  declared for that pattern fits too, while no other that fits is longer, the two are one. The
  property is about tables whose proxied routes are what the services serve (`Declared`), and
  which routes there are besides does not matter. `ServesAssumption` is what the mux insists on
  (no pattern twice) and what the services' patterns have in common: each names its method, a
  name follows a slash, and none spells out what another leaves to a name.

* **Edge.** `TypeCorrect`. `MigratesOnceInOrder`: the strengthening is that whoever holds a
  migration's row holds the next one to be applied, alone, and whoever is past a migration has
  it in the table; a rolled-back or lost commit leaves both true.
  `LetInAsSigned`: what arrives bears the client's MAC or none (`OnItsWayShape`), equal MACs are
  of equal secrets and canonical strings (`SameSignature`), and equal canonical queries are
  matched pair by pair (`Matching`, `SameQuery`: a bijection between the places of each pair),
  so what is served is what was signed; a stamp is less than a second before its time.
  `TurnsAwayForAReason` is the converse: a query in another order has the same canonical form
  (`Reordered`), so nothing stands in the way of a call in order (`InOrderIsOk`), and what a
  refused signature has ruled out is read off the order of the checks (`VerdictSignature`).
  The proofs are for any number of calls, processes, versions and migrations, any forms a
  request may take, and any skew and precision of the clocks.

Only model-checked: the liveness properties (leads-to under fairness is out of the
prover's reach). Every invariant and every other action property of a passing run, and the three
refinements, are theorems. `InsertsAreNew` and `TerminateIsExact` are about single rows and
containers; the refinements, which the runs check in their stead, say more.

Three sentences of the repository do not hold and have no run of their own. capability.go:43
speaks of "one answer" to how long a revocation takes, 30 s; it is the sum of
`RevocationIsBounded`. Migration 0001 (56-58) speaks of a sweeper of `idempotency`, which does
not exist. And internal/frontdoor/server.go:310-311 says of the drain that "a request that will
not end does not hold the process open forever": after `Shutdown` has timed out, main.go:68's
deferred `st.Close()` waits for the connection of a handler that is in a query, and nothing
cancels that query. `ProcessesMoveOn` states what is left of the sentence: a request that does
not end holds nobody, unless it is in a query that does not end. Also, a CreatePolicy repeated with its token after its policy was deleted and
created anew is answered with the new document.

## 5. Plan

Done: `CacheService` and `Nache`; `InstanceService` and `Chala`; `TtlCache`;
`DirectoryService` and `Directory` (policies, attachments, tokens, listings); `FrontDoor` (sessions, routing, policy evaluation, capabilities, proxy);
`Signing` and `Edge` (the signature path, migrations, the front door's life), each with its
proofs.

What could come next: two principals at the front door; `FrontDoor` over TtlCache's promise by
refinement instead of `PolicyAge`; and nache's view of chala (`Started`, `HalfStarted`, the
late calls) derived from `InstanceService` instead of stated.

## 6. Not modelled, and why

Cryptography, encodings, HTTP, page-token formats and logging are data or I/O. Read-only
handlers of one statement have no behaviour of their own. The C++ client, the console, the
contracts and deployment are outside the control planes. The docker daemon, PostgreSQL and
the cache engine are modelled as their callers rely on them: a statement is atomic, a
container name is unique, an id is never reused. The processes of chala and nache stop without
a drain of their own: their `run` returns when the listener closes, which for nache is a
`Crash`, for chala a `HandlerFails`, and needs no action of its own.
