---------------------------- MODULE Nache_proofs ----------------------------
(***************************************************************************)
(* Theorems about module Nache, for every set of accounts, names and       *)
(* requests and every bound.                                               *)
(***************************************************************************)
EXTENDS Nache, FiniteSetTheorems, TLAPS

-----------------------------------------------------------------------------
(* Type correctness, with late calls and without.                           *)

LEMMA InitType == Init => TypeOK
BY NacheAssumption
   DEF Init, TypeOK, NoRow, NoNode, NoRequest, NotSeen, Row, Seen, Node, Request, NodeStates

Ats == {"get", "count", "insert", "reread", "mark", "show"}

LEMMA GotoType ==
  ASSUME TypeOK, NEW r \in Requests, requests[r].at \in Ats, NEW at \in Ats, Goto(r, at)
  PROVE  requests' \in [Requests -> Request]
<1>1. requests \in [Requests -> Request] /\ requests[r] \in Request
  BY DEF TypeOK
<1>2. requests[r] \in [at : Ats, key : Cluster]
  BY <1>1 DEF Request, NoRequest, Ats
<1>3. [requests[r] EXCEPT !.at = at] \in [at : Ats, key : Cluster]
  BY <1>2
<1>4. [requests[r] EXCEPT !.at = at] \in Request
  BY <1>3 DEF Request, Ats
<1> QED
  BY ONLY <1>1, <1>4, Goto(r, at) DEF Goto

LEMMA HandlerType ==
  ASSUME TypeOK, NEW r \in Requests, Handle(r) \/ HandlerFails(r)
  PROVE  TypeOK'
<1>1. CASE CreateGet(r)
  <2>1. requests' \in [Requests -> Request]
    <3>1. PICK at \in {"insert", "count"} : Goto(r, at)
      BY <1>1 DEF CreateGet
    <3>2. requests[r].at \in Ats /\ at \in Ats
      BY <1>1 DEF CreateGet, Ats
    <3> QED
      BY <3>1, <3>2, GotoType
  <2> QED
    BY <1>1, <2>1 DEF CreateGet, TypeOK, reconciler, compute
<1>2. CASE CreateCount(r)
  <2>1. CASE Goto(r, "insert")
    <3>1. requests[r].at \in Ats /\ "insert" \in Ats
      BY <1>2 DEF CreateCount, Ats
    <3>2. requests' \in [Requests -> Request]
      BY <2>1, <3>1, GotoType
    <3> QED
      BY <1>2, <3>2 DEF CreateCount, TypeOK, reconciler, compute
  <2>2. CASE Reply(r)
    <3>1. requests' \in [Requests -> Request]
      BY <2>2 DEF Reply, TypeOK, Request
    <3> QED
      BY <1>2, <3>1 DEF CreateCount, TypeOK, reconciler, compute
  <2> QED
    BY <1>2, <2>1, <2>2 DEF CreateCount
<1>3. CASE CreateInsert(r)
  <2> DEFINE k == requests[r].key
  <2>1. requests' \in [Requests -> Request]
    <3>1. requests[r].at \in Ats /\ "reread" \in Ats /\ Goto(r, "reread")
      BY <1>3 DEF CreateInsert, Ats
    <3> QED
      BY <3>1, GotoType
  <2>2. k \in Cluster
    BY <1>3 DEF CreateInsert, TypeOK, Request, NoRequest
  <2>3. CASE UNCHANGED <<rows, born, answered>>
    BY <1>3, <2>1, <2>3 DEF CreateInsert, TypeOK, reconciler
  <2>4. CASE /\ born[k] < MaxBorn
             /\ born' = [born EXCEPT ![k] = @ + 1]
             /\ rows' = [rows EXCEPT ![k] = [state |-> "creating", status |-> "none",
                                             inc |-> born[k] + 1]]
             /\ answered' = answered \ {k}
    <3> HIDE DEF k
    <3>1. born[k] \in Nat /\ born[k] + 1 \in 1 .. MaxBorn
      BY <2>2, <2>4, NacheAssumption DEF TypeOK
    <3>2. [state |-> "creating", status |-> "none", inc |-> born[k] + 1] \in Row
      BY <3>1 DEF Row, RowStates
    <3>3. rows' \in [Cluster -> Row] /\ born' \in [Cluster -> 0 .. MaxBorn]
      BY <2>2, <2>4, <3>1, <3>2 DEF TypeOK
    <3> QED
      BY <1>3, <2>1, <2>4, <3>3 DEF CreateInsert, TypeOK, reconciler
  <2> QED
    BY <1>3, <2>3, <2>4 DEF CreateInsert
<1>4. CASE DeleteMark(r)
  <2> DEFINE k == requests[r].key
  <2>1. requests[r].at \in Ats /\ "show" \in Ats /\ k \in Cluster
    BY <1>4 DEF DeleteMark, TypeOK, Request, NoRequest, Ats
  <2>2. requests' \in [Requests -> Request]
    <3>1. CASE Goto(r, "show")
      BY <2>1, <3>1, GotoType
    <3>2. CASE Reply(r)
      BY <3>2 DEF Reply, TypeOK, Request
    <3> QED
      BY <1>4, <3>1, <3>2 DEF DeleteMark
  <2>3. rows' \in [Cluster -> Row]
    <3>1. CASE UNCHANGED rows
      BY <3>1 DEF TypeOK
    <3>2. CASE HasRow(k) /\ rows' = [rows EXCEPT ![k].state = "deleting"]
      <4> HIDE DEF k
      <4>1. rows \in [Cluster -> Row] /\ rows[k] \in Row /\ rows[k] # NoRow
        BY <2>1, <3>2 DEF TypeOK, HasRow, NoRow
      <4>2. [rows[k] EXCEPT !.state = "deleting"] \in Row
        BY <4>1 DEF Row, RowStates
      <4> QED
        BY ONLY <2>1, <3>2, <4>1, <4>2
    <3> QED
      BY <1>4, <3>1, <3>2 DEF DeleteMark
  <2> QED
    BY <1>4, <2>2, <2>3 DEF DeleteMark, TypeOK, reconciler, compute
<1>5. CASE Render(r) \/ HandlerFails(r)
  <2>1. requests' \in [Requests -> Request]
    BY <1>5 DEF Render, HandlerFails, Reply, TypeOK, Request
  <2> QED
    BY <1>5, <2>1 DEF Render, HandlerFails, TypeOK, reconciler, compute
<1> QED
  BY <1>1, <1>2, <1>3, <1>4, <1>5 DEF Handle

LEMMA AskType ==
  ASSUME TypeOK, NEW r \in Requests, NEW k \in Cluster, NEW at \in {"get", "mark"},
         Ask(r, k, at)
  PROVE  TypeOK'
BY DEF TypeOK, Ask, reconciler, compute, Request, NoRequest

\* What RunInstance makes of a node is a node.
LEMMA StartedType ==
  ASSUME TypeOK, NEW k \in Cluster, NEW inc \in 1 .. MaxBorn
  PROVE  Started(k, inc) \in Node /\ HalfStarted(k, inc) \in Node
BY DEF TypeOK, Started, HalfStarted, Node, NoNode

LEMMA ComputeType ==
  ASSUME TypeOK, NEW k \in Cluster, NodeAnswers(k) \/ NodeFails(k)
  PROVE  TypeOK'
<1>1. CASE NodeAnswers(k)
  BY <1>1 DEF NodeAnswers, TypeOK, handlers, reconciler, Node, NoNode
<1>2. CASE NodeFails(k)
  BY <1>2 DEF NodeFails, TypeOK, handlers, reconciler, Node, NoNode
<1> QED
  BY <1>1, <1>2

LEMMA LateCallType ==
  ASSUME TypeOK, NEW c \in late, LateCall(c)
  PROVE  TypeOK'
<1>1. c.key \in Cluster /\ c.op \in {"run", "terminate"}
  BY DEF TypeOK, Call
<1>2. nodes' \in [Cluster -> Node]
  <2>1. CASE c.op = "terminate"
    BY <1>1, <2>1 DEF LateCall, TypeOK, Node
  <2>2. CASE c.op = "run"
    <3>1. c.inc \in 1 .. MaxBorn
      BY <2>2 DEF TypeOK, Call
    <3> QED
      BY <1>1, <2>2, <3>1, StartedType DEF LateCall, TypeOK
  <2> QED
    BY <1>1, <2>1, <2>2
<1> QED
  BY <1>2 DEF LateCall, TypeOK, handlers, reconciler

\* A call that fails leaves nodes nodes and calls calls.
LEMMA CallFailsType ==
  ASSUME TypeOK, NEW k \in Cluster, NEW inc, NEW op, NEW reached \in SUBSET Node,
         [op |-> op, key |-> k, inc |-> inc] \in Call,
         CallFails(k, inc, op, reached)
  PROVE  nodes' \in [Cluster -> Node] /\ late' \in SUBSET Call
BY DEF CallFails, TypeOK

LEMMA ReconcileType ==
  ASSUME TypeOK, Reconcile
  PROVE  TypeOK'
<1> USE DEF handlers, compute
<1>1. CASE PassBegin
  BY <1>1 DEF PassBegin, TypeOK, Row, NoRow, Seen, NotSeen
<1>2. CASE PassList
  BY <1>2 DEF PassList, TypeOK, Node, NoNode, NodeStates
<1>3. CASE PassListFails
  BY <1>3 DEF PassListFails, TypeOK, Seen
<1>4. CASE PassEnd
  BY <1>4 DEF PassEnd, TypeOK
<1>5. ASSUME NEW k \in Cluster, ReconcileRun(k)
      PROVE  TypeOK'
  <2>1. seen[k].inc \in 1 .. MaxBorn
    BY <1>5 DEF ReconcileRun, TypeOK, Seen, NotSeen
  <2>2. /\ Started(k, seen[k].inc) \in Node
        /\ HalfStarted(k, seen[k].inc) \in Node
        /\ nodes[k] \in Node
    BY <2>1, StartedType DEF TypeOK
  <2>3. nodes' \in [Cluster -> Node] /\ late' \in SUBSET Call
    <3>1. [op |-> "run", key |-> k, inc |-> seen[k].inc] \in Call
      BY <2>1 DEF Call
    <3>2. {nodes[k], Started(k, seen[k].inc), HalfStarted(k, seen[k].inc)} \in SUBSET Node
      BY <2>2
    <3>3. CASE CallFails(k, seen[k].inc, "run",
                 {nodes[k], Started(k, seen[k].inc), HalfStarted(k, seen[k].inc)})
      BY <3>1, <3>2, <3>3, CallFailsType
    <3> QED
      BY <1>5, <2>2, <3>3 DEF ReconcileRun, TypeOK
  <2> QED
    BY <1>5, <2>3 DEF ReconcileRun, Drop, TypeOK, Seen, NodeStates
<1>6. ASSUME NEW k \in Cluster, ReconcileTerminate(k)
      PROVE  TypeOK'
  <2>1. [op |-> "terminate", key |-> k, inc |-> seen[k].inc] \in Call
    BY NacheAssumption DEF TypeOK, Seen, NotSeen, Call
  <2>2. {nodes[k], NoNode} \in SUBSET Node
    BY DEF TypeOK, Node
  <2>3. nodes' \in [Cluster -> Node] /\ late' \in SUBSET Call
    BY <1>6, <2>1, <2>2, CallFailsType DEF ReconcileTerminate, TypeOK
  <2> QED
    BY <1>6, <2>3 DEF ReconcileTerminate, Drop, TypeOK, Seen, NodeStates
<1>7. ASSUME NEW k \in Cluster, ReconcileLook(k)
      PROVE  TypeOK'
  BY <1>7 DEF ReconcileLook, TypeOK
<1>8. ASSUME NEW k \in Cluster, ReconcileWrite(k)
      PROVE  TypeOK'
  <2>1. rows' \in [Cluster -> Row]
    BY <1>8 DEF ReconcileWrite, Forget, SetObserved, TypeOK, Row, NoRow, RowStates
  <2> QED
    BY <1>8, <2>1 DEF ReconcileWrite, Drop, TypeOK, Seen, NodeStates
<1>9. ASSUME NEW k \in Cluster, TerminateOrphan(k)
      PROVE  TypeOK'
  <2>1. MaxBorn \in Nat
    BY NacheAssumption
  <2>2. [op |-> "terminate", key |-> k, inc |-> 0] \in Call
    BY <2>1 DEF Call
  <2>3. {nodes[k], NoNode} \in SUBSET Node
    BY DEF TypeOK, Node
  <2>4. nodes' \in [Cluster -> Node] /\ late' \in SUBSET Call
    BY <1>9, <2>2, <2>3, CallFailsType DEF TerminateOrphan, TypeOK
  <2> QED
    BY <1>9, <2>4 DEF TerminateOrphan, Drop, TypeOK, Seen, NodeStates
<1> QED
  BY <1>1, <1>2, <1>3, <1>4, <1>5, <1>6, <1>7, <1>8, <1>9 DEF Reconcile

LEMMA CrashType ==
  ASSUME TypeOK, Crash \/ Settle
  PROVE  TypeOK'
<1>1. CASE Crash
  BY <1>1 DEF Crash, TypeOK, compute, Request, Seen, NodeStates
<1>2. CASE Settle
  BY <1>2 DEF Settle, TypeOK, compute, handlers, reconciler
<1> QED
  BY <1>1, <1>2

LEMMA TypeStep ==
  ASSUME TypeOK, [Next]_vars
  PROVE  TypeOK'
<1>1. CASE UNCHANGED vars
  BY <1>1 DEF vars, TypeOK
<1> QED
  BY <1>1, HandlerType, AskType, ReconcileType, LateCallType, ComputeType, CrashType DEF Next

\* Every variable keeps its type (TypeOK), whatever fails and however late.
THEOREM TypeCorrect == Spec => []TypeOK
<1>1. TypeOK /\ [Next]_vars => TypeOK'
  BY TypeStep
<1> QED
  BY <1>1, InitType, PTL DEF Spec

-----------------------------------------------------------------------------
(* The reconciler's safety, when no call outlives its caller.               *)

IInv == TypeOK /\ NodeHasItsRow /\ ActiveMeansAnswered /\ SnapshotHolds /\ late = {}

LEMMA InitInv == Init => IInv
BY InitType DEF Init, IInv, NodeHasItsRow, ActiveMeansAnswered, SnapshotHolds, NoRow, NoNode,
                NotSeen

\* Nothing the invariant is about changes.
LEMMA InvKept ==
  ASSUME IInv, TypeOK', UNCHANGED <<rows, compute, reconciler>>
  PROVE  IInv'
<1>1. UNCHANGED <<rows, nodes, late, answered, phase, seen, listed, write>>
  BY DEF compute, reconciler
<1>2. UNCHANGED <<NodeHasItsRow, ActiveMeansAnswered, SnapshotHolds>>
  BY <1>1 DEF NodeHasItsRow, ActiveMeansAnswered, SnapshotHolds, HasRow
<1> QED
  BY <1>1, <1>2 DEF IInv

LEMMA HandlerInv ==
  ASSUME IInv, TypeOK', NEW r \in Requests, Handle(r) \/ HandlerFails(r)
  PROVE  IInv'
<1>1. CASE CreateGet(r) \/ CreateCount(r) \/ Render(r) \/ HandlerFails(r)
  <2>1. UNCHANGED <<rows, compute, reconciler>>
    BY <1>1 DEF CreateGet, CreateCount, Render, HandlerFails, compute, reconciler
  <2> QED
    BY <2>1, InvKept
<1> USE DEF IInv, TypeOK, NodeHasItsRow, ActiveMeansAnswered, SnapshotHolds, HasRow,
            reconciler, compute
<1>2. CASE CreateInsert(r)
  <2> DEFINE k == requests[r].key
  <2>1. k \in Cluster
    BY <1>2 DEF CreateInsert, Request, NoRequest
  <2>2. CASE UNCHANGED <<rows, born, answered>>
    <3>1. UNCHANGED <<rows, compute, reconciler>>
      BY <1>2, <2>2 DEF CreateInsert
    <3> QED
      BY ONLY <3>1, InvKept, IInv, TypeOK'
  <2>3. CASE ~HasRow(k) /\ born[k] < MaxBorn
    <3>1. nodes[k] = NoNode /\ seen[k] = NotSeen /\ listed[k] = "absent" /\ write[k] = "none"
      BY <2>1, <2>3
    <3>2. /\ \A j \in Cluster : j # k => rows'[j] = rows[j]
          /\ \A j \in Cluster : j # k => (j \in answered' <=> j \in answered)
          /\ rows'[k].state = "creating" /\ rows'[k].status = "none"
          /\ UNCHANGED <<nodes, late, phase, seen, listed, write>>
      BY <1>2, <2>1, <2>3 DEF CreateInsert
    <3> HIDE DEF k
    <3>3. NodeHasItsRow' /\ ActiveMeansAnswered'
      BY <2>1, <3>1, <3>2
    <3>4. SnapshotHolds'
      BY <2>1, <3>1, <3>2 DEF NotSeen, NoNode
    <3> QED
      BY <3>2, <3>3, <3>4
  <2> QED
    BY <1>2, <2>2, <2>3 DEF CreateInsert
<1>3. CASE DeleteMark(r)
  <2> DEFINE k == requests[r].key
  <2>1. k \in Cluster
    BY <1>3 DEF DeleteMark, Request, NoRequest
  <2>2. CASE UNCHANGED rows
    <3>1. UNCHANGED <<rows, compute, reconciler>>
      BY <1>3, <2>2 DEF DeleteMark
    <3> QED
      BY ONLY <3>1, InvKept, IInv, TypeOK'
  <2>3. CASE HasRow(k)
    <3>1. /\ \A j \in Cluster : j # k => rows'[j] = rows[j]
          /\ UNCHANGED <<nodes, late, phase, seen, listed, write, answered>>
      BY <1>3, <2>1, <2>3 DEF DeleteMark
    <3>2. /\ rows'[k].state = "deleting" /\ rows'[k].inc = rows[k].inc
          /\ rows'[k].status = rows[k].status /\ rows[k].state # "none"
      BY <1>3, <2>1, <2>3 DEF DeleteMark, Row, NoRow
    <3> HIDE DEF k
    <3>3. NodeHasItsRow'
      <4>1. NodeHasItsRow
        OBVIOUS
      <4> QED
        BY ONLY <2>1, <3>1, <3>2, <4>1 DEF NodeHasItsRow, HasRow
    <3>4. ActiveMeansAnswered'
      <4>1. ActiveMeansAnswered
        OBVIOUS
      <4> QED
        BY ONLY <2>1, <3>1, <3>2, <4>1 DEF ActiveMeansAnswered
    <3>5. SnapshotHolds'
      BY <2>1, <3>1, <3>2
    <3> QED
      BY <3>1, <3>3, <3>4, <3>5
  <2> QED
    BY <1>3, <2>2, <2>3 DEF DeleteMark
<1> QED
  BY <1>1, <1>2, <1>3 DEF Handle

LEMMA AskInv ==
  ASSUME IInv, TypeOK', NEW r \in Requests, NEW k \in Cluster, NEW at \in {"get", "mark"},
         Ask(r, k, at)
  PROVE  IInv'
BY DEF IInv, NodeHasItsRow, ActiveMeansAnswered, SnapshotHolds, HasRow, Ask, reconciler, compute

LEMMA ComputeInv ==
  ASSUME IInv, TypeOK', NEW k \in Cluster, NodeAnswers(k) \/ NodeFails(k)
  PROVE  IInv'
<1>1. nodes \in [Cluster -> Node] /\ nodes[k] \in Node
  BY DEF IInv, TypeOK
<1>2. PICK state \in {"healthy", "unhealthy", "stopped"} :
        /\ nodes' = [nodes EXCEPT ![k].state = state]
        /\ state = "healthy" =>
             answered' = IF HasRow(k) /\ nodes[k].inc = rows[k].inc
                           THEN answered \union {k} ELSE answered
        /\ state # "healthy" => answered' = answered
  BY Zenon DEF NodeAnswers, NodeFails
<1>3. nodes[k].state \in {"starting", "healthy", "unhealthy"}
  BY DEF NodeAnswers, NodeFails
<1>4. UNCHANGED <<rows, late, phase, seen, listed, write>>
  BY DEF NodeAnswers, NodeFails, handlers, reconciler
<1>5. nodes[k] # NoNode
  BY <1>3 DEF NoNode
<1>6. /\ \A j \in Cluster : j # k => nodes'[j] = nodes[j]
      /\ nodes'[k].state = state /\ nodes'[k].inc = nodes[k].inc
  BY <1>1, <1>2, <1>5 DEF Node
<1>7. HasRow(k) /\ nodes[k].inc = rows[k].inc
  BY <1>5 DEF IInv, NodeHasItsRow
<1>8. answered \subseteq answered' /\ (state = "healthy" => k \in answered')
  BY <1>2, <1>7
<1>9. NodeHasItsRow'
  <2>1. NodeHasItsRow
    BY DEF IInv
  <2> QED
    BY ONLY <1>4, <1>6, <1>7, <2>1 DEF NodeHasItsRow, HasRow
<1>10. ActiveMeansAnswered'
  <2>1. ActiveMeansAnswered
    BY DEF IInv
  <2> QED
    BY ONLY <1>4, <1>8, <2>1 DEF ActiveMeansAnswered
<1>11. SnapshotHolds'
  <2>1. SnapshotHolds
    BY DEF IInv
  <2> QED
    BY ONLY <1>4, <1>5, <1>6, <1>8, <2>1, k \in Cluster DEF SnapshotHolds, HasRow
<1> QED
  BY <1>4, <1>9, <1>10, <1>11 DEF IInv

\* With no room for a late call, a call that fails leaves none behind, and the
\* node in one of the states it may have reached.
LEMMA CallFailsNow ==
  ASSUME MaxLate = 0, late = {}, NEW k, NEW inc, NEW op, NEW reached,
         CallFails(k, inc, op, reached)
  PROVE  late' = {} /\ \E n \in reached : nodes' = [nodes EXCEPT ![k] = n]
BY FS_EmptySet DEF CallFails

LEMMA ReconcileInv ==
  ASSUME MaxLate = 0, IInv, TypeOK', Reconcile
  PROVE  IInv'
<1> USE DEF IInv, TypeOK, NodeHasItsRow, ActiveMeansAnswered, SnapshotHolds, HasRow,
            handlers, compute
<1>1. CASE PassBegin
  <2>1. \A k \in Cluster : seen'[k] # NotSeen <=> HasRow(k)
    BY <1>1 DEF PassBegin, NotSeen, Row, NoRow, RowStates
  <2>2. \A k \in Cluster : seen'[k].state = rows[k].state /\ seen'[k].inc = rows[k].inc
    BY <1>1 DEF PassBegin
  <2>3. phase = "idle" /\ phase' = "listing"
        /\ UNCHANGED <<rows, nodes, late, answered, listed, write>>
    BY <1>1 DEF PassBegin
  <2> QED
    BY <2>1, <2>2, <2>3
<1>2. CASE PassList
  <2>1. \A k \in Cluster : listed'[k] # "absent" => seen[k] # NotSeen
    BY <1>2 DEF PassList, Node, NoNode
  <2>2. \A k \in Cluster : listed'[k] = "absent" => nodes[k] = NoNode
    BY <1>2 DEF PassList, Node, NoNode
  <2> QED
    BY <1>2, <2>1, <2>2 DEF PassList
<1>3. CASE PassListFails
  BY <1>3 DEF PassListFails, NotSeen
<1>4. CASE PassEnd
  BY <1>4 DEF PassEnd, Between
<1>5. ASSUME NEW k \in Cluster, ReconcileRun(k)
      PROVE  IInv'
  <2>1. /\ phase = "working" /\ seen[k] # NotSeen /\ write[k] = "none"
        /\ HasRow(k) /\ rows[k].inc = seen[k].inc
        /\ seen[k].state \in {"creating", "active"}
    BY <1>5 DEF ReconcileRun, Between, NotSeen
  <2>2. PICK n : /\ nodes' = [nodes EXCEPT ![k] = n]
                 /\ n \in {nodes[k], Started(k, seen[k].inc), HalfStarted(k, seen[k].inc)}
    BY <1>5, CallFailsNow DEF ReconcileRun
  <2>3. n = NoNode \/ (n.inc = rows[k].inc /\ n.state \in {"pending", "starting", nodes[k].state})
    BY <2>1, <2>2 DEF Started, HalfStarted, Node, NoNode
  <2>4. /\ UNCHANGED <<rows, answered, phase, late>>
        /\ \A j \in Cluster : j # k => nodes'[j] = nodes[j]
        /\ nodes'[k] = n
    BY <1>5, <2>2, CallFailsNow DEF ReconcileRun
  <2>5. CASE write' = [write EXCEPT ![k] = "creating"] /\ UNCHANGED <<seen, listed>>
    BY <2>1, <2>3, <2>4, <2>5 DEF NoNode
  <2>6. CASE Drop(k) /\ UNCHANGED write
    BY <2>1, <2>3, <2>4, <2>6 DEF NoNode, Drop, NotSeen
  <2> QED
    BY <1>5, <2>5, <2>6 DEF ReconcileRun
<1>6. ASSUME NEW k \in Cluster, ReconcileTerminate(k)
      PROVE  IInv'
  <2>1. phase = "working" /\ seen[k] # NotSeen /\ write[k] = "none"
    BY <1>6 DEF ReconcileTerminate, Between, NotSeen
  <2>2. PICK n \in {nodes[k], NoNode} : nodes' = [nodes EXCEPT ![k] = n]
    BY <1>6, CallFailsNow DEF ReconcileTerminate
  <2>3. /\ UNCHANGED <<rows, answered, phase, late>>
        /\ \A j \in Cluster : j # k => nodes'[j] = nodes[j]
        /\ nodes'[k] = n
    BY <1>6, <2>2, CallFailsNow DEF ReconcileTerminate
  <2>4. CASE /\ n = NoNode
             /\ write' = [write EXCEPT ![k] =
                             IF seen[k].state = "deleting" THEN "forget" ELSE "impaired"]
             /\ UNCHANGED <<seen, listed>>
    BY <2>1, <2>3, <2>4 DEF NoNode
  <2>5. CASE Drop(k) /\ UNCHANGED write
    BY <2>1, <2>3, <2>5 DEF NoNode, Drop, NotSeen
  <2> QED
    BY <1>6, <2>3, <2>4, <2>5 DEF ReconcileTerminate
<1>7. ASSUME NEW k \in Cluster, ReconcileLook(k)
      PROVE  IInv'
  BY <1>7 DEF ReconcileLook, Between, NotSeen
<1>8. ASSUME NEW k \in Cluster, ReconcileWrite(k)
      PROVE  IInv'
  <2>1. /\ seen[k] # NotSeen /\ HasRow(k)
        /\ phase = "working" /\ phase' = "working"
        /\ UNCHANGED <<nodes, late, answered>>
        /\ \A j \in Cluster \ {k} : seen'[j] = seen[j] /\ listed'[j] = listed[j]
                                  /\ write'[j] = write[j]
        /\ seen'[k] = NotSeen /\ listed'[k] = "absent" /\ write'[k] = "none"
    BY <1>8 DEF ReconcileWrite, Drop
  <2>2. \A j \in Cluster \ {k} : rows'[j] = rows[j]
    BY <1>8 DEF ReconcileWrite, Forget, SetObserved
  <2>3. SnapshotHolds'
    <3>1. ASSUME NEW j \in Cluster, j # k
          PROVE  /\ UNCHANGED <<seen[j], listed[j], write[j], nodes[j]>>
                 /\ rows'[j] = rows[j]
      BY <3>1, <2>1, <2>2
    <3>2. \A j \in Cluster : j \in answered' <=> j \in answered
      BY <2>1
    <3>3. nodes'[k] = nodes[k] /\ NotSeen.state = "none"
      BY <2>1 DEF NotSeen
    <3> QED
      BY <2>1, <3>1, <3>2, <3>3
  <2>4. CASE UNCHANGED rows
    BY <2>1, <2>3, <2>4
  <2>5. CASE write[k] = "forget" /\ rows' = [rows EXCEPT ![k] = NoRow]
    <3>1. nodes[k] = NoNode /\ rows'[k] = NoRow
      BY <2>5
    <3>2. nodes' = nodes /\ answered' = answered
      BY <2>1
    <3>3. NodeHasItsRow
      BY DEF IInv
    <3>4. NodeHasItsRow'
      BY ONLY <2>2, <3>1, <3>2, <3>3 DEF NodeHasItsRow, HasRow
    <3>5. ActiveMeansAnswered
      BY DEF IInv
    <3>6. rows'[k].state = "none" /\ rows'[k].status = "none"
      BY ONLY <3>1 DEF NoRow
    <3>7. ActiveMeansAnswered'
      BY ONLY <2>2, <3>2, <3>5, <3>6 DEF ActiveMeansAnswered
    <3> QED
      BY <2>1, <2>3, <3>4, <3>7
  <2>6. CASE rows[k].state # "deleting" /\ SetObserved(k)
    <3>1. /\ rows'[k].inc = rows[k].inc
          /\ rows'[k].state \in {rows[k].state, "active"}
          /\ rows'[k].state = "active" => rows[k].state = "active" \/ write[k] = "available"
          /\ rows'[k].status = "available" => write[k] = "available"
      BY <2>1, <2>6 DEF SetObserved, Row, NoRow
    <3>2. HasRow(k)'
      BY <2>1, <2>6 DEF SetObserved, Row, NoRow
    <3>3. nodes' = nodes /\ answered' = answered
      BY <2>1
    <3>4. NodeHasItsRow'
      <4>1. NodeHasItsRow
        BY DEF IInv
      <4> QED
        BY ONLY <2>2, <3>1, <3>2, <3>3, <4>1 DEF NodeHasItsRow, HasRow
    <3>5. ActiveMeansAnswered'
      <4>1. ActiveMeansAnswered /\ (write[k] = "available" => k \in answered)
        BY DEF IInv
      <4> QED
        BY ONLY <2>2, <3>1, <3>3, <4>1 DEF ActiveMeansAnswered
    <3> QED
      BY <2>1, <2>3, <3>4, <3>5
  <2> QED
    BY <1>8, <2>1, <2>4, <2>5, <2>6 DEF ReconcileWrite, Forget, SetObserved
<1>9. ASSUME NEW k \in Cluster, TerminateOrphan(k)
      PROVE  IInv'
  BY <1>9 DEF TerminateOrphan
<1> QED
  BY <1>1, <1>2, <1>3, <1>4, <1>5, <1>6, <1>7, <1>8, <1>9 DEF Reconcile

LEMMA NextInv ==
  ASSUME MaxLate = 0, IInv, [Next]_vars
  PROVE  IInv'
<1>1. TypeOK'
  BY TypeStep DEF IInv
<1>2. CASE UNCHANGED vars
  BY <1>2 DEF vars, IInv, TypeOK, NodeHasItsRow, ActiveMeansAnswered, SnapshotHolds, HasRow
<1>3. CASE Crash
  BY <1>1, <1>3 DEF Crash, IInv, NodeHasItsRow, ActiveMeansAnswered, SnapshotHolds, HasRow,
                    compute, NotSeen, Node, NoNode, TypeOK
<1>4. CASE Settle
  BY <1>1, <1>4 DEF Settle, IInv, NodeHasItsRow, ActiveMeansAnswered, SnapshotHolds, HasRow,
                    handlers, compute, reconciler
<1>5. ASSUME NEW c \in late, LateCall(c)
      PROVE  IInv'
  BY DEF IInv
<1> QED
  BY <1>1, <1>2, <1>3, <1>4, <1>5, HandlerInv, AskInv, ReconcileInv, ComputeInv DEF Next

\* The rows and the nodes agree, through every interleaving of handlers, pass,
\* failures and crashes, when no call outlives its caller.  NodeHasItsRow and
\* ActiveMeansAnswered are not inductive alone: they hold because of what the
\* pass's old snapshot still says about rows and nodes, SnapshotHolds.
THEOREM ReconcilerSafe ==
  ASSUME MaxLate = 0
  PROVE  Spec => [](NodeHasItsRow /\ ActiveMeansAnswered /\ SnapshotHolds)
<1>1. IInv /\ [Next]_vars => IInv'
  BY NextInv
<1>2. IInv => NodeHasItsRow /\ ActiveMeansAnswered /\ SnapshotHolds
  BY DEF IInv
<1> QED
  BY <1>1, <1>2, InitInv, PTL DEF Spec

\* No cluster is recorded as active, nor a node as available, on the strength
\* of another incarnation's health check (reconciler.go:177-189).
THEOREM ActiveHasAnswered ==
  ASSUME MaxLate = 0
  PROVE  Spec => []ActiveMeansAnswered
<1>1. Spec => [](NodeHasItsRow /\ ActiveMeansAnswered /\ SnapshotHolds)
  BY ReconcilerSafe
<1> QED
  BY <1>1, PTL

\* What a pass read at its start is still good enough to act on at its end
\* (reconciler.go:14-16, 73-78).
THEOREM PassSnapshotHolds ==
  ASSUME MaxLate = 0
  PROVE  Spec => []SnapshotHolds
<1>1. Spec => [](NodeHasItsRow /\ ActiveMeansAnswered /\ SnapshotHolds)
  BY ReconcilerSafe
<1> QED
  BY <1>1, PTL

-----------------------------------------------------------------------------
(* Nache implements CacheService.                                           *)

\* What the refinement mapping makes of the table and of chala's nodes.
lifecycle == [k \in Cluster |-> rows[k].state]
live == {k \in Cluster : nodes[k] # NoNode}

\* A step that changes neither a lifecycle, nor which nodes exist, nor who has
\* answered is a stutter of the service.
LEMMA Stutter ==
  ASSUME lifecycle' = lifecycle, live' = live, answered' = answered
  PROVE  UNCHANGED Service!vars
BY DEF Service!vars, lifecycle, live

LEMMA InitRefines == Init => Service!Init
BY DEF Init, Service!Init, NoRow, NoNode

LEMMA HandlerRefines ==
  ASSUME IInv, NEW r \in Requests, Handle(r) \/ HandlerFails(r)
  PROVE  Service!Next \/ UNCHANGED Service!vars
<1>1. CASE CreateGet(r) \/ CreateCount(r) \/ Render(r) \/ HandlerFails(r)
  BY <1>1, Stutter DEF CreateGet, CreateCount, Render, HandlerFails, compute, lifecycle, live
<1>2. CASE CreateInsert(r)
  <2>1. PICK k \in Cluster : k = requests[r].key
    BY <1>2 DEF CreateInsert, IInv, TypeOK, Request, NoRequest
  <2>2. CASE UNCHANGED <<rows, born, answered>>
    BY <1>2, <2>2, Stutter DEF CreateInsert, lifecycle, live
  <2>3. CASE ~HasRow(k) /\ born[k] < MaxBorn
    <3>1. /\ lifecycle' = [lifecycle EXCEPT ![k] = "creating"]
          /\ live' = live /\ answered' = answered \ {k}
      <4>1. rows' = [rows EXCEPT ![k] = [state |-> "creating", status |-> "none",
                                         inc |-> born[k] + 1]]
        BY <1>2, <2>1, <2>3, NacheAssumption DEF CreateInsert, IInv, TypeOK
      <4>2. nodes' = nodes /\ answered' = answered \ {k}
        BY <1>2, <2>1, <2>3, NacheAssumption DEF CreateInsert, IInv, TypeOK
      <4>3. lifecycle' = [lifecycle EXCEPT ![k] = "creating"]
        BY <4>1 DEF lifecycle, IInv, TypeOK
      <4> QED
        BY <4>2, <4>3 DEF live
    <3>2. lifecycle[k] = "none" /\ k \notin live
      BY <2>1, <2>3 DEF IInv, NodeHasItsRow, HasRow, lifecycle, live
    <3>3. Service!Create(k)
      BY <3>1, <3>2 DEF Service!Create, lifecycle, live
    <3> QED
      BY <2>1, <3>3 DEF Service!Next, Service!Step
  <2> QED
    BY <1>2, <2>1, <2>2, <2>3 DEF CreateInsert
<1>3. CASE DeleteMark(r)
  <2>1. PICK k \in Cluster : k = requests[r].key
    BY <1>3 DEF DeleteMark, IInv, TypeOK, Request, NoRequest
  <2>2. live' = live /\ answered' = answered
    BY <1>3 DEF DeleteMark, compute, live
  <2>3. CASE UNCHANGED rows
    BY <2>2, <2>3, Stutter DEF lifecycle
  <2>4. CASE HasRow(k)
    <3>1. lifecycle' = [lifecycle EXCEPT ![k] = "deleting"]
      <4>1. rows' = [rows EXCEPT ![k].state = "deleting"]
        BY <1>3, <2>1, <2>4 DEF DeleteMark
      <4>2. rows \in [Cluster -> Row]
        BY DEF IInv, TypeOK
      <4>3. rows[k] \in [state : RowStates,
                        status : {"none", "creating", "available", "impaired"},
                        inc : 1 .. MaxBorn]
        BY <2>1, <2>4, <4>2 DEF Row, NoRow, HasRow
      <4>4. [rows[k] EXCEPT !.state = "deleting"].state = "deleting"
        BY <4>3
      <4>5. rows'[k].state = "deleting"
        BY ONLY <2>1, <4>1, <4>2, <4>4
      <4>6. \A j \in Cluster \ {k} : rows'[j] = rows[j]
        BY ONLY <4>1, <4>2
      <4> QED
        BY ONLY <2>1, <4>5, <4>6 DEF lifecycle
    <3>2. CASE rows[k].state = "deleting"
      BY <2>1, <2>2, <3>1, <3>2, Stutter DEF lifecycle
    <3>3. CASE rows[k].state # "deleting"
      <4>1. lifecycle[k] \in {"creating", "active"}
        BY <2>1, <2>4, <3>3 DEF lifecycle, IInv, TypeOK, Row, NoRow, RowStates, HasRow
      <4>2. Service!Delete(k)
        BY <2>2, <3>1, <4>1 DEF Service!Delete, lifecycle, live
      <4> QED
        BY <2>1, <4>2 DEF Service!Next, Service!Step
    <3> QED
      BY <3>2, <3>3
  <2> QED
    BY <1>3, <2>1, <2>3, <2>4 DEF DeleteMark
<1> QED
  BY <1>1, <1>2, <1>3 DEF Handle

LEMMA ComputeRefines ==
  ASSUME IInv, NEW k \in Cluster, NodeAnswers(k) \/ NodeFails(k)
  PROVE  Service!Next \/ UNCHANGED Service!vars
<1>1. lifecycle' = lifecycle /\ live' = live
  BY DEF NodeAnswers, NodeFails, handlers, lifecycle, live, IInv, TypeOK, Node, NoNode
<1>2. CASE NodeAnswers(k)
  <2>1. k \in live /\ HasRow(k) /\ nodes[k].inc = rows[k].inc
    BY <1>2 DEF NodeAnswers, live, IInv, NodeHasItsRow, NoNode
  <2>2. answered' = answered \union {k}
    BY <1>2, <2>1 DEF NodeAnswers
  <2>3. Service!NodeAnswers(k)
    BY <1>1, <2>1, <2>2 DEF Service!NodeAnswers, lifecycle, live
  <2> QED
    BY <2>3 DEF Service!Next, Service!Step
<1>3. CASE NodeFails(k)
  BY <1>1, <1>3, Stutter DEF NodeFails
<1> QED
  BY <1>2, <1>3

\* A node that appears for an existing cluster, goes, or only changes state.
LEMMA NodeChangeRefines ==
  ASSUME IInv, NEW k \in Cluster, NEW n, nodes' = [nodes EXCEPT ![k] = n],
         lifecycle' = lifecycle, answered' = answered,
         HasRow(k) \/ n = NoNode
  PROVE  Service!Next \/ UNCHANGED Service!vars
<1>1. CASE n = NoNode
  <2>1. live' = live \ {k}
    BY <1>1 DEF live, IInv, TypeOK
  <2>2. Service!StopNode(k)
    BY <2>1 DEF Service!StopNode, lifecycle, live
  <2> QED
    BY <2>2 DEF Service!Next, Service!Step
<1>2. CASE n # NoNode
  <2>1. live' = live \union {k}
    BY <1>2 DEF live, IInv, TypeOK
  <2>2. CASE k \in live
    BY <2>1, <2>2, Stutter
  <2>3. CASE k \notin live
    <3>1. Service!StartNode(k)
      BY <1>2, <2>1, <2>3 DEF Service!StartNode, HasRow, lifecycle, live
    <3> QED
      BY <3>1 DEF Service!Next, Service!Step
  <2> QED
    BY <2>2, <2>3
<1> QED
  BY <1>1, <1>2

LEMMA ReconcileRefines ==
  ASSUME MaxLate = 0, IInv, Reconcile
  PROVE  Service!Next \/ UNCHANGED Service!vars
<1>1. CASE PassBegin \/ PassList \/ PassListFails \/ PassEnd
  BY <1>1, Stutter
     DEF PassBegin, PassList, PassListFails, PassEnd, handlers, compute, lifecycle, live
<1>2. ASSUME NEW k \in Cluster, ReconcileRun(k)
      PROVE  Service!Next \/ UNCHANGED Service!vars
  <2>1. lifecycle' = lifecycle /\ answered' = answered /\ HasRow(k)
    BY <1>2 DEF ReconcileRun, handlers, lifecycle, IInv, SnapshotHolds, NotSeen
  <2>2. PICK n : nodes' = [nodes EXCEPT ![k] = n]
    BY <1>2, CallFailsNow DEF ReconcileRun, IInv
  <2> QED
    BY <2>1, <2>2, NodeChangeRefines
<1>3. ASSUME NEW k \in Cluster, ReconcileTerminate(k)
      PROVE  Service!Next \/ UNCHANGED Service!vars
  <2>1. lifecycle' = lifecycle /\ answered' = answered /\ HasRow(k)
    BY <1>3 DEF ReconcileTerminate, handlers, lifecycle, IInv, SnapshotHolds, NotSeen
  <2>2. PICK n : nodes' = [nodes EXCEPT ![k] = n]
    BY <1>3, CallFailsNow DEF ReconcileTerminate, IInv
  <2> QED
    BY <2>1, <2>2, NodeChangeRefines
<1>4. ASSUME NEW k \in Cluster, ReconcileLook(k)
      PROVE  Service!Next \/ UNCHANGED Service!vars
  BY <1>4, Stutter DEF ReconcileLook, handlers, compute, lifecycle, live
<1>5. ASSUME NEW k \in Cluster, ReconcileWrite(k)
      PROVE  Service!Next \/ UNCHANGED Service!vars
  <2>1. live' = live /\ answered' = answered
    BY <1>5 DEF ReconcileWrite, compute, live
  <2>2. CASE UNCHANGED rows
    BY <2>1, <2>2, Stutter DEF lifecycle
  <2>3. CASE write[k] = "forget" /\ Forget(k)
    <3>1. rows[k].state = "deleting" /\ nodes[k] = NoNode
      BY <2>3 DEF IInv, SnapshotHolds
    <3>2. lifecycle' = [lifecycle EXCEPT ![k] = "none"]
      BY <2>3, <3>1 DEF Forget, lifecycle, NoRow, IInv, TypeOK
    <3>3. Service!Remove(k)
      BY <2>1, <3>1, <3>2 DEF Service!Remove, lifecycle, live
    <3> QED
      BY <3>3 DEF Service!Next, Service!Step
  <2>4. CASE write[k] # "forget" /\ SetObserved(k)
    <3>1. CASE lifecycle' = lifecycle
      BY <2>1, <3>1, Stutter
    <3>2. CASE lifecycle' # lifecycle
      <4>1. /\ rows[k].state = "creating" /\ write[k] = "available"
            /\ lifecycle' = [lifecycle EXCEPT ![k] = "active"]
        BY <2>4, <3>2 DEF SetObserved, lifecycle, IInv, TypeOK, Row, NoRow, RowStates
      <4>2. k \in answered
        BY <4>1 DEF IInv, SnapshotHolds
      <4>3. Service!Activate(k)
        BY <2>1, <4>1, <4>2 DEF Service!Activate, lifecycle, live
      <4> QED
        BY <4>3 DEF Service!Next, Service!Step
    <3> QED
      BY <3>1, <3>2
  <2> QED
    BY <1>5, <2>2, <2>3, <2>4 DEF ReconcileWrite
<1>6. ASSUME NEW k \in Cluster, TerminateOrphan(k)
      PROVE  Service!Next \/ UNCHANGED Service!vars
  BY <1>6 DEF TerminateOrphan, IInv, SnapshotHolds
<1> QED
  BY <1>1, <1>2, <1>3, <1>4, <1>5, <1>6 DEF Reconcile

\* Every step of nache is a step of the service a customer was promised, or
\* none (ImplementsCacheService), when no call outlives its caller.
THEOREM NacheImplementsCacheService ==
  ASSUME MaxLate = 0
  PROVE  Spec => ImplementsCacheService
<1>1. IInv /\ [Next]_vars => [Service!Next]_(Service!vars)
  <2> SUFFICES ASSUME IInv, [Next]_vars
               PROVE  Service!Next \/ UNCHANGED Service!vars
    OBVIOUS
  <2>1. CASE UNCHANGED vars
    BY <2>1, Stutter DEF vars, lifecycle, live
  <2>2. CASE Crash \/ Settle
    BY <2>2, Stutter DEF Crash, Settle, handlers, compute, lifecycle, live
  <2>3. ASSUME NEW r \in Requests, NEW k \in Cluster, NEW at \in {"get", "mark"},
               Ask(r, k, at)
        PROVE  UNCHANGED Service!vars
    BY <2>3, Stutter DEF Ask, compute, lifecycle, live
  <2>4. ASSUME NEW c \in late, LateCall(c)
        PROVE  FALSE
    BY DEF IInv
  <2> QED
    BY <2>1, <2>2, <2>3, <2>4, HandlerRefines, ReconcileRefines, ComputeRefines DEF Next
<1>2. IInv /\ [Next]_vars => IInv'
  BY NextInv
<1> QED
  BY <1>1, <1>2, InitInv, InitRefines, PTL DEF Spec, Service!Spec, ImplementsCacheService

-----------------------------------------------------------------------------
(* Deletion is final, late calls or not.                                    *)

\* The only statements that touch a deleting row are the mark, which leaves it
\* as it is, and the two guarded ones of the reconciler.
LEMMA DeletingStep ==
  ASSUME TypeOK, [Next]_vars, NEW k \in Cluster, rows[k].state = "deleting"
  PROVE  rows'[k] \in {rows[k], NoRow}
<1>1. ASSUME NEW r \in Requests, Handle(r) \/ HandlerFails(r)
      PROVE  rows'[k] \in {rows[k], NoRow}
  <2>1. CASE CreateInsert(r)
    BY <2>1 DEF CreateInsert, HasRow, TypeOK
  <2>2. CASE DeleteMark(r)
    BY <2>2 DEF DeleteMark, HasRow, TypeOK, Row, NoRow
  <2>3. CASE CreateGet(r) \/ CreateCount(r) \/ Render(r) \/ HandlerFails(r)
    BY <2>3 DEF CreateGet, CreateCount, Render, HandlerFails
  <2> QED
    BY <1>1, <2>1, <2>2, <2>3 DEF Handle
<1>2. ASSUME NEW j \in Cluster, ReconcileWrite(j)
      PROVE  rows'[k] \in {rows[k], NoRow}
  BY <1>2 DEF ReconcileWrite, Forget, SetObserved, TypeOK
<1>3. CASE UNCHANGED rows
  BY <1>3
<1> QED
  BY <1>1, <1>2, <1>3
     DEF Next, vars, Ask, Reconcile, PassBegin, PassList, PassListFails, PassEnd, ReconcileRun,
         ReconcileTerminate, ReconcileLook, TerminateOrphan, LateCall, NodeAnswers, NodeFails,
         Crash, Settle, handlers

\* A deleting row never changes but to go (DeletionIsFinal): no pass brings a
\* cluster back that was deleted while it ran, whatever it had read before.
THEOREM DeletionFinal == Spec => DeletionIsFinal
<1>1. TypeOK /\ [Next]_vars => TypeOK'
  BY TypeStep
<1>2. TypeOK /\ [Next]_vars =>
        [\A k \in Cluster :
           rows[k].state = "deleting" => rows'[k] \in {rows[k], NoRow}]_vars
  BY DeletingStep
<1> QED
  BY <1>1, <1>2, InitType, PTL DEF Spec, DeletionIsFinal

-----------------------------------------------------------------------------
(* How far the quota can be overshot.                                       *)

Claimed(a) == RowsOf(a) \union AboutToInsert(a)

\* The calls in flight hold no more keys than there are calls.
LEMMA KeysSize ==
  ASSUME NEW f, NEW S \in SUBSET Requests
  PROVE  /\ IsFiniteSet({f[q].key : q \in S})
         /\ Cardinality({f[q].key : q \in S}) <= Cardinality(Requests)
<1> DEFINE T == {f[q].key : q \in S}
           g == [q \in S |-> f[q].key]
<1>1. g \in Surjection(S, T)
  BY DEF Surjection
<1>2. IsFiniteSet(S) /\ Cardinality(S) <= Cardinality(Requests)
  BY FS_Subset, NacheAssumption
<1> HIDE DEF T, g
<1>3. IsFiniteSet(T) /\ Cardinality(T) <= Cardinality(S)
  BY <1>1, <1>2, FS_Surjection
<1>4. IsFiniteSet(T) /\ Cardinality(T) <= Cardinality(Requests)
  BY <1>2, <1>3, FS_CardinalityType, NacheAssumption
<1> QED
  BY <1>4 DEF T

LEMMA ClaimedFinite ==
  ASSUME NEW a \in Accounts
  PROVE  IsFiniteSet(RowsOf(a)) /\ IsFiniteSet(Claimed(a))
<1>1. IsFiniteSet({a} \X Names)
  BY FS_Singleton, FS_Product, NacheAssumption
<1>2. RowsOf(a) \in SUBSET ({a} \X Names)
  BY DEF RowsOf, Cluster
<1>3. IsFiniteSet(RowsOf(a))
  BY <1>1, <1>2, FS_Subset
<1> QED
  BY <1>3, KeysSize, FS_Union DEF Claimed, AboutToInsert

\* A step claims no new name, unless it is the count that let a create pass.
LEMMA ClaimedStep ==
  ASSUME TypeOK, [Next]_vars, NEW a \in Accounts
  PROVE  \/ Claimed(a)' \subseteq Claimed(a)
         \/ RowsOf(a)' = RowsOf(a) /\ Cardinality(RowsOf(a)) < MaxClustersPerAccount
<1> USE DEF Claimed
<1>1. ASSUME NEW r \in Requests, Handle(r) \/ HandlerFails(r)
      PROVE  \/ Claimed(a)' \subseteq Claimed(a)
             \/ RowsOf(a)' = RowsOf(a) /\ Cardinality(RowsOf(a)) < MaxClustersPerAccount
  <2>1. CASE CreateGet(r)
    <3>1. PICK k \in Cluster : k = requests[r].key
      BY <2>1 DEF CreateGet, TypeOK, Request, NoRequest
    <3>2. rows' = rows
          /\ requests' = [requests EXCEPT ![r].at = IF HasRow(k) THEN "insert" ELSE "count"]
      BY <2>1, <3>1 DEF CreateGet, Goto
    <3>3. k[1] = a /\ HasRow(k) => k \in RowsOf(a)
      BY DEF RowsOf
    <3>4. ASSUME NEW j \in AboutToInsert(a)'
          PROVE  j \in AboutToInsert(a) \union RowsOf(a)
      <4>1. PICK q \in Requests : /\ requests'[q].at = "insert" /\ requests'[q].key[1] = a
                                  /\ j = requests'[q].key
        BY <3>4 DEF AboutToInsert
      <4>2. CASE q = r
        BY <3>1, <3>2, <3>3, <4>1, <4>2 DEF TypeOK
      <4>3. CASE q # r
        BY <3>2, <4>1, <4>3 DEF TypeOK, AboutToInsert
      <4> QED
        BY <4>2, <4>3
    <3>5. RowsOf(a)' = RowsOf(a)
      BY <3>2 DEF RowsOf, HasRow
    <3> QED
      BY <3>4, <3>5
  <2>2. CASE CreateCount(r)
    <3>1. PICK k \in Cluster : k = requests[r].key
      BY <2>2 DEF CreateCount, TypeOK, Request, NoRequest
    <3>2. RowsOf(a)' = RowsOf(a)
      BY <2>2 DEF CreateCount, RowsOf, HasRow
    <3>3. CASE Goto(r, "insert") /\ ~(Cardinality(RowsOf(k[1])) >= MaxClustersPerAccount)
      <4>1. CASE k[1] = a
        <5>1. Cardinality(RowsOf(a)) \in Nat
          BY ClaimedFinite, FS_CardinalityType
        <5> QED
          BY <3>2, <3>3, <4>1, <5>1, NacheAssumption
      <4>2. CASE k[1] # a
        BY <3>1, <3>2, <3>3, <4>2 DEF Goto, AboutToInsert, TypeOK
      <4> QED
        BY <4>1, <4>2
    <3>4. CASE Reply(r)
      BY <3>2, <3>4 DEF Reply, NoRequest, AboutToInsert, TypeOK
    <3> QED
      BY <2>2, <3>1, <3>3, <3>4 DEF CreateCount
  <2>3. CASE CreateInsert(r)
    <3>1. PICK k \in Cluster : k = requests[r].key
      BY <2>3 DEF CreateInsert, TypeOK, Request, NoRequest
    <3>2. \A j \in Cluster : j # k => rows'[j] = rows[j]
      BY <2>3, <3>1 DEF CreateInsert, TypeOK
    <3>3. AboutToInsert(a)' \subseteq AboutToInsert(a)
      BY <2>3 DEF CreateInsert, Goto, AboutToInsert, TypeOK
    <3>4. k[1] = a => k \in AboutToInsert(a)
      BY <2>3, <3>1 DEF CreateInsert, AboutToInsert
    <3>5. RowsOf(a)' \subseteq Claimed(a)
      BY <3>2, <3>4 DEF RowsOf, HasRow
    <3> QED
      BY <3>3, <3>5
  <2>4. CASE DeleteMark(r)
    <3>1. \A j \in Cluster : HasRow(j)' => HasRow(j)
      BY <2>4 DEF DeleteMark, HasRow, TypeOK
    <3>2. AboutToInsert(a)' \subseteq AboutToInsert(a)
      <4>1. \/ requests' = [requests EXCEPT ![r].at = "show"]
            \/ requests' = [requests EXCEPT ![r] = NoRequest]
        BY <2>4 DEF DeleteMark, Goto, Reply
      <4>2. /\ \A q \in Requests \ {r} : requests'[q] = requests[q]
            /\ requests'[r].at # "insert"
        BY <4>1 DEF NoRequest, TypeOK, Request
      <4> QED
        BY <4>2 DEF AboutToInsert
    <3> QED
      BY <3>1, <3>2 DEF RowsOf
  <2>5. CASE Render(r) \/ HandlerFails(r)
    BY <2>5 DEF Render, HandlerFails, Reply, NoRequest, AboutToInsert, RowsOf, HasRow, TypeOK
  <2> QED
    BY <1>1, <2>1, <2>2, <2>3, <2>4, <2>5 DEF Handle
<1>2. ASSUME NEW r \in Requests, NEW k \in Cluster, NEW at \in {"get", "mark"}, Ask(r, k, at)
      PROVE  Claimed(a)' \subseteq Claimed(a)
  BY <1>2 DEF Ask, AboutToInsert, RowsOf, HasRow, TypeOK
<1>3. CASE Crash
  BY <1>3 DEF Crash, NoRequest, AboutToInsert, RowsOf, HasRow
<1>4. ASSUME UNCHANGED requests, \A k \in Cluster : HasRow(k)' => HasRow(k)
      PROVE  Claimed(a)' \subseteq Claimed(a)
  BY <1>4 DEF AboutToInsert, RowsOf
<1>5. ASSUME NEW k \in Cluster, ReconcileWrite(k)
      PROVE  Claimed(a)' \subseteq Claimed(a)
  <2>1. UNCHANGED requests /\ \A j \in Cluster : HasRow(j)' => HasRow(j)
    BY <1>5 DEF ReconcileWrite, Forget, SetObserved, HasRow, TypeOK, NoRow
  <2> QED
    BY <1>4, <2>1
<1>6. ASSUME UNCHANGED <<rows, requests>>
      PROVE  Claimed(a)' \subseteq Claimed(a)
  BY <1>6 DEF AboutToInsert, RowsOf, HasRow
<1> QED
  BY <1>1, <1>2, <1>3, <1>5, <1>6
     DEF Next, vars, Reconcile, PassBegin, PassList, PassListFails, PassEnd, ReconcileRun,
         ReconcileTerminate, ReconcileLook, TerminateOrphan, LateCall, NodeAnswers, NodeFails,
         Settle, handlers

LEMMA QuotaStep ==
  ASSUME TypeOK, QuotaOvershootBounded, [Next]_vars
  PROVE  QuotaOvershootBounded'
<1> SUFFICES ASSUME NEW a \in Accounts
             PROVE  Cardinality(Claimed(a)')
                      <= MaxClustersPerAccount - 1 + Cardinality(Requests)
  BY DEF QuotaOvershootBounded, Claimed
<1>1. /\ IsFiniteSet(Claimed(a)) /\ Cardinality(Claimed(a)) \in Nat
      /\ IsFiniteSet(RowsOf(a)) /\ Cardinality(RowsOf(a)) \in Nat
      /\ Cardinality(Requests) \in Nat /\ MaxClustersPerAccount \in Nat
  BY ClaimedFinite, FS_CardinalityType, NacheAssumption
<1>2. IsFiniteSet(AboutToInsert(a)') /\ Cardinality(AboutToInsert(a)') <= Cardinality(Requests)
  BY KeysSize DEF AboutToInsert
<1>3. CASE Claimed(a)' \subseteq Claimed(a)
  <2>1. Cardinality(Claimed(a)') <= Cardinality(Claimed(a)) /\ Cardinality(Claimed(a)') \in Nat
    BY <1>1, <1>3, FS_Subset, FS_CardinalityType
  <2> QED
    BY <1>1, <2>1 DEF QuotaOvershootBounded, Claimed
<1>4. CASE RowsOf(a)' = RowsOf(a) /\ Cardinality(RowsOf(a)) < MaxClustersPerAccount
  <2>1. Claimed(a)' = RowsOf(a) \union AboutToInsert(a)'
    BY <1>4 DEF Claimed
  <2>2. Cardinality(Claimed(a)') <= Cardinality(RowsOf(a)) + Cardinality(AboutToInsert(a)')
    <3>1. Cardinality(RowsOf(a) \cap AboutToInsert(a)') \in Nat
      BY <1>1, FS_Subset, FS_CardinalityType
    <3>2. Cardinality(AboutToInsert(a)') \in Nat
      BY <1>2, FS_CardinalityType
    <3>3. Cardinality(RowsOf(a) \union AboutToInsert(a)') =
            Cardinality(RowsOf(a)) + Cardinality(AboutToInsert(a)')
              - Cardinality(RowsOf(a) \cap AboutToInsert(a)')
      BY <1>1, <1>2, FS_Union
    <3> QED
      BY <1>1, <2>1, <3>1, <3>2, <3>3
  <2>3. Cardinality(AboutToInsert(a)') \in Nat /\ Cardinality(Claimed(a)') \in Nat
    BY <1>1, <1>2, <2>1, FS_Union, FS_CardinalityType
  <2> QED
    BY <1>1, <1>2, <1>4, <2>2, <2>3
<1> QED
  BY <1>3, <1>4, ClaimedStep

\* An account's clusters, with those about to be inserted, never exceed its
\* limit by as much as there are calls in flight (QuotaOvershootBounded).
THEOREM QuotaBound == Spec => []QuotaOvershootBounded
<1>1. TypeOK /\ [Next]_vars => TypeOK'
  BY TypeStep
<1>2. TypeOK /\ QuotaOvershootBounded /\ [Next]_vars => QuotaOvershootBounded'
  BY QuotaStep
<1>3. Init => QuotaOvershootBounded
  <2> SUFFICES ASSUME Init, NEW a \in Accounts
               PROVE  Cardinality(RowsOf(a) \union AboutToInsert(a))
                        <= MaxClustersPerAccount - 1 + Cardinality(Requests)
    BY DEF QuotaOvershootBounded
  <2>1. RowsOf(a) = {} /\ AboutToInsert(a) = {}
    BY DEF Init, RowsOf, HasRow, NoRow, AboutToInsert, NoRequest
  <2> QED
    BY <2>1, FS_EmptySet, FS_CardinalityType, NacheAssumption
<1> QED
  BY <1>1, <1>2, <1>3, InitType, PTL DEF Spec
=============================================================================
