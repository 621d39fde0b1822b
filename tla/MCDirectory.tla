---------------------------- MODULE MCDirectory ----------------------------
(* Model values for Directory.  No symmetry: the run checks liveness too.   *)
EXTENDS Directory
=============================================================================
