---------------------------- MODULE MCJwksCache -----------------------------
(* Instances of module JwksCache for TLC. *)
EXTENDS JwksCache, TLC

Interchangeable == Permutations(Tasks)
=============================================================================
