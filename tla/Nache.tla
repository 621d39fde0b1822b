-------------------------------- MODULE Nache --------------------------------
(***************************************************************************)
(* nache's control plane (internal/nache): the table of clusters, the      *)
(* create and delete handlers that write it, and the level-triggered       *)
(* reconciler that makes chala's nodes agree with it.                      *)
(*                                                                         *)
(* Every database statement and every call to chala is a step of its own,  *)
(* so handlers, the pass, node deaths and crashes interleave as they can   *)
(* in the process.  chala is seen through the Compute interface only: a    *)
(* node is one container, named for its cluster (NodeName) and tagged with *)
(* it, so nodes are kept per cluster and the branch of reconcile that      *)
(* removes a node under another name has nothing to remove.                *)
(***************************************************************************)
EXTENDS Integers, FiniteSets

CONSTANTS
  Accounts,               \* customers
  Names,                  \* the names a cluster may have in an account
  Requests,               \* the API calls that can be in flight at once
  MaxClustersPerAccount,  \* APIConfig.MaxClustersPerAccount
  MaxBorn,                \* BOUND: rows ever inserted under one name
  MaxLate,                \* BOUND: timed-out calls that may still take effect
  MayFail                 \* FALSE: nothing ever fails, nobody crashes

ASSUME NacheAssumption ==
  /\ IsFiniteSet(Names) /\ IsFiniteSet(Requests)
  /\ MaxClustersPerAccount \in Nat \ {0}
  /\ MaxBorn \in Nat /\ MaxLate \in Nat
  /\ MayFail \in BOOLEAN

\* The table's primary key, (account_id, name).
Cluster == Accounts \X Names

VARIABLES
  rows,      \* table clusters: lifecycle, node status as last observed, and
             \* inc, which incarnation of the name this is (created_at)
  born,      \* how many rows each name has had
  requests,  \* the API handlers' program counters
  nodes,     \* chala's container for each cluster: state, and inc, the
             \* incarnation RunNode was called for
  late,      \* calls whose caller gave up, and which chala may still perform
  phase,     \* where Pass is
  seen,      \* rows as the pass read them
  listed,    \* nodes as the pass then listed them
  write,     \* what reconcile is about to write for a cluster
  answered,  \* history: clusters whose own node has passed a health check
  env        \* whether things still fail, or have stopped to, for good

handlers == <<rows, born, requests>>
reconciler == <<phase, seen, listed, write>>
compute == <<nodes, late, answered>>
vars == <<rows, born, requests, nodes, late, phase, seen, listed, write,
          answered, env>>

-----------------------------------------------------------------------------
NoRow == [state |-> "none", status |-> "none", inc |-> 0]
NoNode == [state |-> "absent", inc |-> 0]
NoRequest == [at |-> "idle"]
NotSeen == [state |-> "none", inc |-> 0]

RowStates == {"creating", "active", "deleting"}
Row == {NoRow} \union
       [state : RowStates, status : {"none", "creating", "available", "impaired"},
        inc : 1 .. MaxBorn]
Seen == {NotSeen} \union [state : RowStates, inc : 1 .. MaxBorn]

\* pending: created and never started.  starting: running, no verdict yet.
Node == {NoNode} \union
        [state : {"pending", "starting", "healthy", "unhealthy", "stopped"},
         inc : 1 .. MaxBorn]
NodeStates == {"absent", "pending", "starting", "healthy", "unhealthy", "stopped"}

Request == {NoRequest} \union
           [at : {"get", "count", "insert", "reread", "mark", "show"},
            key : Cluster]
Call == [op : {"run"}, key : Cluster, inc : 1 .. MaxBorn] \union
        [op : {"terminate"}, key : Cluster, inc : 0 .. MaxBorn]

HasRow(k) == rows[k].state # "none"
RowsOf(a) == {k \in Cluster : k[1] = a /\ HasRow(k)}

TypeOK ==
  /\ rows \in [Cluster -> Row]
  /\ born \in [Cluster -> 0 .. MaxBorn]
  /\ requests \in [Requests -> Request]
  /\ nodes \in [Cluster -> Node]
  /\ late \in SUBSET Call
  /\ phase \in {"idle", "listing", "working"}
  /\ seen \in [Cluster -> Seen]
  /\ listed \in [Cluster -> NodeStates]
  /\ write \in [Cluster -> {"none", "forget", "creating", "available", "impaired"}]
  /\ answered \in SUBSET Cluster
  /\ env \in {"failing", "calm"}

Init ==
  /\ rows = [k \in Cluster |-> NoRow]
  /\ born = [k \in Cluster |-> 0]
  /\ requests = [r \in Requests |-> NoRequest]
  /\ nodes = [k \in Cluster |-> NoNode]
  /\ late = {}
  /\ phase = "idle"
  /\ seen = [k \in Cluster |-> NotSeen]
  /\ listed = [k \in Cluster |-> "absent"]
  /\ write = [k \in Cluster |-> "none"]
  /\ answered = {}
  /\ env = IF MayFail THEN "failing" ELSE "calm"

-----------------------------------------------------------------------------
(* The handlers (api.go, store.go).  Each runs on a goroutine of its own.   *)

Goto(r, at) == requests' = [requests EXCEPT ![r].at = at]
Reply(r) == requests' = [requests EXCEPT ![r] = NoRequest]

\* A client asks; the handler authorizes and decodes, and touches no state.
Ask(r, k, at) ==
  /\ requests[r] = NoRequest
  /\ requests' = [requests EXCEPT ![r] = [at |-> at, key |-> k]]
  /\ UNCHANGED <<rows, born, reconciler, compute, env>>

\* store.Get: a name already taken, in whatever state, skips the quota.
CreateGet(r) ==
  /\ requests[r].at = "get"
  /\ Goto(r, IF HasRow(requests[r].key) THEN "insert" ELSE "count")
  /\ UNCHANGED <<rows, born, reconciler, compute, env>>

\* Mutation: one more than the limit gets through.
CreateCountOffByOne(r) ==
  /\ requests[r].at = "count"
  /\ IF Cardinality(RowsOf(requests[r].key[1])) > MaxClustersPerAccount
       THEN Reply(r)
       ELSE Goto(r, "insert")
  /\ UNCHANGED <<rows, born, reconciler, compute, env>>

\* store.Count and the limit: LimitExceeded, or on to the insert.
CreateCount(r) ==
  /\ requests[r].at = "count"
  /\ IF Cardinality(RowsOf(requests[r].key[1])) >= MaxClustersPerAccount
       THEN Reply(r)
       ELSE Goto(r, "insert")
  /\ UNCHANGED <<rows, born, reconciler, compute, env>>

\* INSERT ... ON CONFLICT DO NOTHING: the row is new, or left as it was.
CreateInsert(r) ==
  /\ requests[r].at = "insert"
  /\ LET k == requests[r].key IN
       \/ /\ HasRow(k) \/ born[k] = MaxBorn
          /\ UNCHANGED <<rows, born, answered>>
       \/ /\ ~HasRow(k)
          /\ born[k] < MaxBorn
          /\ born' = [born EXCEPT ![k] = @ + 1]
          /\ rows' = [rows EXCEPT ![k] = [state |-> "creating", status |-> "none",
                                          inc |-> born[k] + 1]]
          /\ answered' = answered \ {k}
  /\ Goto(r, "reread")
  /\ UNCHANGED <<reconciler, nodes, late, env>>

\* Mutation: the update is an upsert.
DeleteMarkUpserts(r) ==
  /\ requests[r].at = "mark"
  /\ rows' = [rows EXCEPT ![requests[r].key].state = "deleting"]
  /\ Goto(r, "show")
  /\ UNCHANGED <<born, reconciler, compute, env>>

\* Mutation: a cluster that never had a node is dropped on the spot.
DeleteMarkDropsUnstarted(r) ==
  /\ requests[r].at = "mark"
  /\ LET k == requests[r].key IN
       CASE ~HasRow(k) -> UNCHANGED rows /\ Reply(r)
         [] rows[k].status = "none" -> rows' = [rows EXCEPT ![k] = NoRow] /\ Reply(r)
         [] OTHER -> rows' = [rows EXCEPT ![k].state = "deleting"] /\ Goto(r, "show")
  /\ UNCHANGED <<born, reconciler, compute, env>>

\* UPDATE ... SET state = 'deleting', whatever the state was; no row, no update
\* and ResourceNotFound.
DeleteMark(r) ==
  /\ requests[r].at = "mark"
  /\ LET k == requests[r].key IN
       IF HasRow(k)
         THEN rows' = [rows EXCEPT ![k].state = "deleting"] /\ Goto(r, "show")
         ELSE UNCHANGED rows /\ Reply(r)
  /\ UNCHANGED <<born, reconciler, compute, env>>

\* Create and MarkDeleting both end by reading the row again, to render it.
Render(r) ==
  /\ requests[r].at \in {"reread", "show"}
  /\ Reply(r)
  /\ UNCHANGED <<rows, born, reconciler, compute, env>>

\* A statement fails, or the client goes away and the context ends with it.
HandlerFails(r) ==
  /\ env = "failing"
  /\ requests[r] # NoRequest
  /\ Reply(r)
  /\ UNCHANGED <<rows, born, reconciler, compute, env>>

Handle(r) ==
  CreateGet(r) \/ CreateCount(r) \/ CreateInsert(r) \/ DeleteMark(r) \/ Render(r)

-----------------------------------------------------------------------------
(* chala, through the Compute interface (compute.go).                       *)

\* RunInstance for a name: create it, start it; adopt it as it is if it runs
\* or has run.
Started(k, inc) ==
  CASE nodes[k] = NoNode -> [state |-> "starting", inc |-> inc]
    [] nodes[k].state = "pending" -> [nodes[k] EXCEPT !.state = "starting"]
    [] OTHER -> nodes[k]

\* RunInstance that stopped between its create and its start.
HalfStarted(k, inc) ==
  IF nodes[k] = NoNode THEN [state |-> "pending", inc |-> inc] ELSE nodes[k]

\* Where a call that returned an error leaves the node: untouched, half way,
\* or done with the reply lost.  Untouched, it may still be performed later.
CallFails(k, inc, op, reached) ==
  /\ env = "failing"
  /\ \/ \E n \in reached :
          /\ nodes' = [nodes EXCEPT ![k] = n]
          /\ UNCHANGED late
     \/ /\ Cardinality(late) < MaxLate
        /\ late' = late \union {[op |-> op, key |-> k, inc |-> inc]}
        /\ UNCHANGED nodes

LateCall(c) ==
  /\ c \in late
  /\ late' = late \ {c}
  /\ nodes' \in
       IF c.op = "terminate"
         THEN {[nodes EXCEPT ![c.key] = NoNode]}
         ELSE {[nodes EXCEPT ![c.key] = n] :
                 n \in {Started(c.key, c.inc), HalfStarted(c.key, c.inc)}}
  /\ UNCHANGED <<handlers, reconciler, answered, env>>

\* The engine answers its health check.  It answers for the cluster it was
\* started for, and no other.
NodeAnswers(k) ==
  /\ nodes[k].state \in {"starting", "unhealthy"}
  /\ nodes' = [nodes EXCEPT ![k].state = "healthy"]
  /\ answered' = IF HasRow(k) /\ nodes[k].inc = rows[k].inc
                   THEN answered \union {k} ELSE answered
  /\ UNCHANGED <<handlers, reconciler, late, env>>

\* It stops answering, or the container exits.
NodeFails(k) ==
  /\ env = "failing"
  /\ \/ /\ nodes[k].state \in {"starting", "healthy"}
        /\ nodes' = [nodes EXCEPT ![k].state = "unhealthy"]
     \/ /\ nodes[k].state \in {"starting", "healthy", "unhealthy"}
        /\ nodes' = [nodes EXCEPT ![k].state = "stopped"]
  /\ UNCHANGED <<handlers, reconciler, late, answered, env>>

-----------------------------------------------------------------------------
(* The reconciler (reconciler.go).  One goroutine.                          *)

\* What is left of cluster k in this pass is dropped: done, or given up on.
Drop(k) ==
  /\ seen' = [seen EXCEPT ![k] = NotSeen]
  /\ listed' = [listed EXCEPT ![k] = "absent"]

\* Nothing is half done: the pass is between two clusters.
Between == phase = "working" /\ \A k \in Cluster : write[k] = "none"

\* The tick, a wake, or the first pass after a start: read every row.
PassBegin ==
  /\ phase = "idle"
  /\ seen' = [k \in Cluster |-> [state |-> rows[k].state, inc |-> rows[k].inc]]
  /\ phase' = "listing"
  /\ UNCHANGED <<handlers, compute, listed, write, env>>

\* Then list every node.
PassList ==
  /\ phase = "listing"
  /\ listed' = [k \in Cluster |-> nodes[k].state]
  /\ phase' = "working"
  /\ UNCHANGED <<handlers, compute, seen, write, env>>

\* A listing that fails ends the pass.
PassListFails ==
  /\ env = "failing"
  /\ phase = "listing"
  /\ seen' = [k \in Cluster |-> NotSeen]
  /\ phase' = "idle"
  /\ UNCHANGED <<handlers, compute, listed, write, env>>

\* Mutation: a half-made node is taken for one that is coming up.
ReconcileRunOnlyMissing(k) ==
  /\ Between
  /\ seen[k].state \in {"creating", "active"}
  /\ listed[k] \in {"absent", "pending"}
  /\ \/ /\ nodes' = IF listed[k] = "pending" THEN nodes
                     ELSE [nodes EXCEPT ![k] = Started(k, seen[k].inc)]
        /\ write' = [write EXCEPT ![k] = "creating"]
        /\ UNCHANGED <<late, seen, listed>>
     \/ /\ listed[k] = "absent"
        /\ CallFails(k, seen[k].inc, "run", {nodes[k], HalfStarted(k, seen[k].inc)})
        /\ Drop(k)
        /\ UNCHANGED write
  /\ UNCHANGED <<handlers, phase, answered, env>>

\* Reconcile a cluster that is wanted and whose node is missing or pending:
\* RunNode, then record it as creating.
ReconcileRun(k) ==
  /\ Between
  /\ seen[k].state \in {"creating", "active"}
  /\ listed[k] \in {"absent", "pending"}
  /\ \/ /\ nodes' = [nodes EXCEPT ![k] = Started(k, seen[k].inc)]
        /\ write' = [write EXCEPT ![k] = "creating"]
        /\ UNCHANGED <<late, seen, listed>>
     \/ /\ CallFails(k, seen[k].inc, "run",
             {nodes[k], Started(k, seen[k].inc), HalfStarted(k, seen[k].inc)})
        /\ Drop(k)
        /\ UNCHANGED write
  /\ UNCHANGED <<handlers, phase, answered, env>>

\* Mutation: only a node that fails its check is replaced, not one that exited.
ReconcileTerminateUnhealthy(k) ==
  /\ Between
  /\ \/ seen[k].state = "deleting" /\ listed[k] # "absent"
     \/ seen[k].state \in {"creating", "active"} /\ listed[k] = "unhealthy"
  /\ nodes' = [nodes EXCEPT ![k] = NoNode]
  /\ write' = [write EXCEPT ![k] =
                 IF seen[k].state = "deleting" THEN "forget" ELSE "impaired"]
  /\ UNCHANGED <<handlers, phase, late, seen, listed, answered, env>>

\* Dead or not answering: terminate it now, the next pass starts another.  A
\* deleting cluster's node: terminate it, then forget the row.
ReconcileTerminate(k) ==
  /\ Between
  /\ \/ seen[k].state = "deleting" /\ listed[k] # "absent"
     \/ seen[k].state \in {"creating", "active"} /\ listed[k] \in {"stopped", "unhealthy"}
  /\ \/ /\ nodes' = [nodes EXCEPT ![k] = NoNode]
        /\ write' = [write EXCEPT ![k] =
                       IF seen[k].state = "deleting" THEN "forget" ELSE "impaired"]
        /\ UNCHANGED <<late, seen, listed>>
     \/ /\ CallFails(k, seen[k].inc, "terminate", {nodes[k], NoNode})
        /\ Drop(k)
        /\ UNCHANGED write
  /\ UNCHANGED <<handlers, phase, answered, env>>

\* Mutation: a deleting row is forgotten before its node is terminated.
ReconcileLookForgetsFirst(k) ==
  /\ Between
  /\ \/ /\ seen[k].state = "deleting"
        /\ write' = [write EXCEPT ![k] = "forget"]
     \/ /\ seen[k].state \in {"creating", "active"}
        /\ listed[k] \in {"starting", "healthy"}
        /\ write' = [write EXCEPT ![k] =
                       IF listed[k] = "healthy" THEN "available" ELSE "creating"]
  /\ UNCHANGED <<handlers, compute, phase, seen, listed, env>>

\* Mutation: a node that runs is taken for one that answers.
ReconcileLookTrustsRunning(k) ==
  /\ Between
  /\ \/ /\ seen[k].state = "deleting" /\ listed[k] = "absent"
        /\ write' = [write EXCEPT ![k] = "forget"]
     \/ /\ seen[k].state \in {"creating", "active"}
        /\ listed[k] \in {"starting", "healthy"}
        /\ write' = [write EXCEPT ![k] = "available"]
  /\ UNCHANGED <<handlers, compute, phase, seen, listed, env>>

\* Mutation: a deleting row is forgotten only by the pass that removes a node.
ReconcileLookNeverForgets(k) ==
  /\ Between
  /\ seen[k].state \in {"creating", "active"}
  /\ listed[k] \in {"starting", "healthy"}
  /\ write' = [write EXCEPT ![k] =
                 IF listed[k] = "healthy" THEN "available" ELSE "creating"]
  /\ UNCHANGED <<handlers, compute, phase, seen, listed, env>>

\* Nothing to ask of chala: the node is gone, or up, or coming up.
ReconcileLook(k) ==
  /\ Between
  /\ \/ /\ seen[k].state = "deleting" /\ listed[k] = "absent"
        /\ write' = [write EXCEPT ![k] = "forget"]
     \/ /\ seen[k].state \in {"creating", "active"}
        /\ listed[k] \in {"starting", "healthy"}
        /\ write' = [write EXCEPT ![k] =
                       IF listed[k] = "healthy" THEN "available" ELSE "creating"]
  /\ UNCHANGED <<handlers, compute, phase, seen, listed, env>>

\* Mutation: the update has no WHERE state <> 'deleting'.
SetObservedUnguarded(k) ==
  rows' = IF rows[k].state = "none" THEN rows
          ELSE [rows EXCEPT ![k].status = write[k],
                            ![k].state = IF write[k] = "available" THEN "active" ELSE @]

\* UPDATE ... WHERE state <> 'deleting': the row that is there now, which
\* need not be the row the pass read.
SetObserved(k) ==
  rows' = IF rows[k].state \in {"none", "deleting"} THEN rows
          ELSE [rows EXCEPT ![k].status = write[k],
                            ![k].state = IF write[k] = "available" THEN "active" ELSE @]

\* DELETE ... WHERE state = 'deleting'.
Forget(k) ==
  rows' = IF rows[k].state = "deleting" THEN [rows EXCEPT ![k] = NoRow] ELSE rows

\* The write that ends reconcile for k, or its failure.
ReconcileWrite(k) ==
  /\ write[k] # "none"
  /\ \/ IF write[k] = "forget" THEN Forget(k) ELSE SetObserved(k)
     \/ env = "failing" /\ UNCHANGED rows
  /\ write' = [write EXCEPT ![k] = "none"]
  /\ Drop(k)
  /\ UNCHANGED <<born, requests, compute, phase, env>>

\* Mutation: an orphan is logged and left alone.
TerminateOrphanLogs(k) ==
  /\ Between
  /\ \A j \in Cluster : seen[j] = NotSeen
  /\ listed[k] # "absent"
  /\ Drop(k)
  /\ UNCHANGED <<handlers, compute, phase, write, env>>

\* Nodes left when every row has been seen to belong to no cluster.
TerminateOrphan(k) ==
  /\ Between
  /\ \A j \in Cluster : seen[j] = NotSeen
  /\ listed[k] # "absent"
  /\ \/ nodes' = [nodes EXCEPT ![k] = NoNode] /\ UNCHANGED late
     \/ CallFails(k, 0, "terminate", {nodes[k], NoNode})
  /\ Drop(k)
  /\ UNCHANGED <<handlers, phase, write, answered, env>>

PassEnd ==
  /\ Between
  /\ \A k \in Cluster : seen[k] = NotSeen /\ listed[k] = "absent"
  /\ phase' = "idle"
  /\ UNCHANGED <<handlers, compute, seen, listed, write, env>>

Reconcile ==
  \/ PassBegin \/ PassList \/ PassListFails \/ PassEnd
  \/ \E k \in Cluster : \/ ReconcileRun(k) \/ ReconcileTerminate(k) \/ ReconcileLook(k)
                        \/ ReconcileWrite(k) \/ TerminateOrphan(k)

-----------------------------------------------------------------------------
\* The process dies and is started again: the table and chala's nodes are all
\* that is left.  BREAK.md E5 does this between RunNode and the write.
Crash ==
  /\ env = "failing"
  /\ requests' = [r \in Requests |-> NoRequest]
  /\ phase' = "idle"
  /\ seen' = [k \in Cluster |-> NotSeen]
  /\ listed' = [k \in Cluster |-> "absent"]
  /\ write' = [k \in Cluster |-> "none"]
  /\ UNCHANGED <<rows, born, compute, env>>

\* No failure after this.
Settle == env = "failing" /\ env' = "calm" /\ UNCHANGED <<handlers, reconciler, compute>>

Next ==
  \/ \E r \in Requests : Handle(r) \/ HandlerFails(r)
  \/ \E r \in Requests, k \in Cluster, at \in {"get", "mark"} : Ask(r, k, at)
  \/ Reconcile
  \/ \E c \in late : LateCall(c)
  \/ \E k \in Cluster : NodeAnswers(k) \/ NodeFails(k)
  \/ Crash
  \/ Settle

Spec == Init /\ [][Next]_vars

\* The process keeps running its goroutines: Run never stops passing, handlers
\* run to their reply.  Of the environment: failures end at some point, and a
\* node that was started answers in the end.
FairSpec ==
  /\ Spec
  /\ WF_vars(Reconcile)
  /\ \A r \in Requests : WF_vars(Handle(r))
  /\ \A k \in Cluster : WF_vars(NodeAnswers(k))
  /\ WF_vars(Settle)

-----------------------------------------------------------------------------
(* Safety, while a call ends when its caller says so (MaxLate = 0).         *)

\* A node exists only for a row, and for that incarnation of its name: the
\* row outlives every node (reconciler.go:130-132, Forget comes last), so no
\* cluster ever inherits another's node, through any crash or lost reply.
NodeHasItsRow ==
  \A k \in Cluster : nodes[k] # NoNode => HasRow(k) /\ nodes[k].inc = rows[k].inc

\* A cluster is recorded as active, or its node as available, only if this
\* incarnation's own node has passed a health check, although the check was
\* read by a pass and written back after the world had moved on
\* (reconciler.go:177-189).
ActiveMeansAnswered ==
  \A k \in Cluster :
    rows[k].state = "active" \/ rows[k].status = "available" => k \in answered

\* What the pass read a while ago still binds.  Between its two reads every
\* node belongs to a row it has seen; a row it has seen is still there, the
\* same incarnation, and deleting if it was; a node it found missing is still
\* missing; one it found healthy has answered; and what it is about to write
\* is true.  Between passes nothing is
\* remembered (reconciler.go:14-16, 73-78).
SnapshotHolds ==
  /\ phase = "idle" => \A k \in Cluster : seen[k] = NotSeen
  /\ phase # "working" => \A k \in Cluster : listed[k] = "absent" /\ write[k] = "none"
  /\ phase = "listing" => \A k \in Cluster : nodes[k] # NoNode => seen[k] # NotSeen
  /\ \A k \in Cluster :
       /\ listed[k] # "absent" \/ write[k] # "none" => seen[k] # NotSeen
       /\ seen[k] # NotSeen => HasRow(k) /\ rows[k].inc = seen[k].inc
       /\ seen[k].state = "deleting" => rows[k].state = "deleting"
       /\ /\ phase = "working" /\ seen[k] # NotSeen
          /\ listed[k] = "absent" /\ write[k] = "none"
          => nodes[k] = NoNode
       /\ write[k] = "forget" => rows[k].state = "deleting" /\ nodes[k] = NoNode
       /\ write[k] = "available" => k \in answered
       /\ "healthy" \in {nodes[k].state, listed[k]} => k \in answered

\* The quota's check and the insert are statements apart, so an account can
\* go over its limit (api.go:108-124), by no more than the calls in flight:
\* the names taken, with the names about to be, never exceed the limit by as
\* much as there are requests.  A create that found its name taken is not
\* counted at all, and its row may be gone when it inserts.
AboutToInsert(a) ==
  {requests[r].key : r \in {q \in Requests : /\ requests[q].at = "insert"
                                              /\ requests[q].key[1] = a}}
QuotaOvershootBounded ==
  \A a \in Accounts :
    Cardinality(RowsOf(a) \union AboutToInsert(a))
      <= MaxClustersPerAccount - 1 + Cardinality(Requests)

\* The promise the rest is for: module CacheService, a node being up when
\* chala has a container for it in any state.
Service == INSTANCE CacheService WITH
             state <- [k \in Cluster |-> rows[k].state],
             up <- {k \in Cluster : nodes[k] # NoNode}
ImplementsCacheService == Service!Spec

-----------------------------------------------------------------------------
(* Safety and liveness with late calls too.                                 *)

\* Deletion is one-way, whatever a pass that began before it writes after it
\* (store.go:176-177, 200-202): a deleting row stays exactly as it is until
\* it is removed.
DeletionIsFinal ==
  [][\A k \in Cluster :
       rows[k].state = "deleting" => rows'[k] \in {rows[k], NoRow}]_vars

\* A deleted cluster's row goes away (api.go:156).
DeletedIsForgotten ==
  \A k \in Cluster : (rows[k].state = "deleting") ~> (rows[k] = NoRow)

\* A cluster that was created becomes active, unless it is deleted first
\* (api.go:89): through half-made nodes, lost replies and crashes.
CreatedBecomesActive ==
  \A k \in Cluster : (rows[k].state = "creating") ~> (rows[k].state # "creating")

\* A node no row accounts for is terminated (reconciler.go:108-116).
OrphanIsTerminated ==
  \A k \in Cluster : (nodes[k] # NoNode /\ ~HasRow(k)) ~> (nodes[k] = NoNode \/ HasRow(k))

\* An active cluster whose node is missing, half made, dead or not answering
\* gets one that answers, unless it is deleted (reconciler.go:165-175).
DeadNodeIsReplaced ==
  \A k \in Cluster :
    (rows[k].state = "active" /\ nodes[k].state # "healthy")
      ~> (rows[k].state # "active" \/ nodes[k].state = "healthy")

-----------------------------------------------------------------------------
(* What the comments say, and the code does not do.                         *)

\* "A new cluster of the same name would inherit it" (reconciler.go:130-131)
\* is what forgetting last is for: an active cluster is never served by a node
\* that was started for a cluster of that name since deleted.
ActiveServedByOwnNode ==
  \A k \in Cluster :
    rows[k].state = "active" /\ nodes[k] # NoNode => nodes[k].inc = rows[k].inc

\* "MaxClustersPerAccount bounds one tenant" (api.go:54), "the most it may
\* have" (api.go:116).
QuotaRespected ==
  \A a \in Accounts : Cardinality(RowsOf(a)) <= MaxClustersPerAccount
=============================================================================
