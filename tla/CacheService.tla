---------------------------- MODULE CacheService ----------------------------
(***************************************************************************)
(* What nache promises a customer, with nothing of how it is done: one     *)
(* cache cluster has one lifecycle, at most one node, and a name that is   *)
(* handed on only once the node that answered to it is gone.  No rows, no  *)
(* passes, no failures.  Module Nache implements this.                     *)
(*                                                                         *)
(* The lifecycle is the comment of contract ResourceState and of           *)
(* internal/nache/store: creating, active, deleting, gone.                 *)
(***************************************************************************)
CONSTANT Cluster    \* every name a customer may give a cluster, per account

VARIABLES
  state,      \* state[k]: where cluster k is in its lifecycle
  up,         \* the clusters a node exists for
  answered    \* the clusters whose own node has answered a health check

vars == <<state, up, answered>>

Init ==
  /\ state = [k \in Cluster |-> "none"]
  /\ up = {}
  /\ answered = {}

\* A name is given out only while nothing answers to it.
Create(k) ==
  /\ state[k] = "none"
  /\ k \notin up
  /\ state' = [state EXCEPT ![k] = "creating"]
  /\ answered' = answered \ {k}
  /\ UNCHANGED up

\* Nodes exist only for clusters that do, one at a time.
StartNode(k) ==
  /\ state[k] # "none"
  /\ k \notin up
  /\ up' = up \union {k}
  /\ UNCHANGED <<state, answered>>

NodeAnswers(k) ==
  /\ k \in up
  /\ answered' = answered \union {k}
  /\ UNCHANGED <<state, up>>

StopNode(k) ==
  /\ up' = up \ {k}
  /\ UNCHANGED <<state, answered>>

\* Active means the cluster's own node has answered; and active once, active
\* thereafter, whatever becomes of the node.
Activate(k) ==
  /\ state[k] = "creating"
  /\ k \in answered
  /\ state' = [state EXCEPT ![k] = "active"]
  /\ UNCHANGED <<up, answered>>

Delete(k) ==
  /\ state[k] \in {"creating", "active"}
  /\ state' = [state EXCEPT ![k] = "deleting"]
  /\ UNCHANGED <<up, answered>>

\* The name comes free only when the node is gone.
Remove(k) ==
  /\ state[k] = "deleting"
  /\ k \notin up
  /\ state' = [state EXCEPT ![k] = "none"]
  /\ UNCHANGED <<up, answered>>

Step(k) ==
  \/ Create(k) \/ StartNode(k) \/ NodeAnswers(k) \/ StopNode(k)
  \/ Activate(k) \/ Delete(k) \/ Remove(k)

Next == \E k \in Cluster : Step(k)

Spec == Init /\ [][Next]_vars
=============================================================================
