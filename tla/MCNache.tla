------------------------------ MODULE MCNache ------------------------------
(* Model values for Nache, and the symmetry the safety runs use: requests are *)
(* interchangeable, and so are names.                                         *)
EXTENDS Nache, TLC
Symmetry == Permutations(Requests) \union Permutations(Names)

\* The clusters there are, were or are asked for.
InUse ==
  {k \in Cluster : born[k] > 0}
  \union {requests[r].key : r \in {q \in Requests : requests[q] # NoRequest}}

\* BOUND: nothing fails where there is a second cluster, and no node answers yet
\* where there is a third.
CrowdIsCalm ==
  \/ Cardinality(InUse) <= 1
  \/ /\ env = "calm"
     /\ \A k \in Cluster :
          nodes[k].state \in {"absent", "starting"}
                             \union IF Cardinality(InUse) = 2 THEN {"healthy"} ELSE {}
=============================================================================
