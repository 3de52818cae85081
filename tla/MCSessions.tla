----------------------------- MODULE MCSessions -----------------------------
(* Instances of module Sessions for TLC. *)
EXTENDS Sessions, TLC

CONSTANTS t1, t2, u1, u2, s1, s2, s3, w1, w2, w3, i1, i2

\* i1 and i2 have different tags, and the second warm pool has one pod.
MCTagOf  == i1 :> "1" @@ i2 :> "2"
MCPodTag == w1 :> "1" @@ w3 :> "2"

OneTag   == i1 :> "1"
SamePool == w1 :> "1" @@ w2 :> "1" @@ w3 :> "1"

Interchangeable == Permutations(Tasks) \cup Permutations(SessionIds)

\* Pods of one pool differ in nothing else either.
AllInterchangeable == Interchangeable \cup Permutations(WarmPods)
=============================================================================
