----------------------------- MODULE MCOboCache -----------------------------
(* Instances of module OboCache for TLC. *)
EXTENDS OboCache, TLC

Interchangeable == Permutations(Tasks)
=============================================================================
