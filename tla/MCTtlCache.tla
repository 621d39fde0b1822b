----------------------------- MODULE MCTtlCache -----------------------------
(* Instances of TtlCache for TLC. *)
EXTENDS TtlCache, TLC

\* An access key that does not exist, then is created.
Absent == {0}

Symmetry == Permutations(Keys) \union Permutations(Gets)
=============================================================================
