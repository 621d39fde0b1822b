------------------------------- MODULE MCChala -------------------------------
(* Instances of Chala for TLC. *)
EXTENDS Chala, TLC

\* Names, requests and listings are interchangeable.
Symmetry == Permutations(Names) \union Permutations(Requests)
=============================================================================
