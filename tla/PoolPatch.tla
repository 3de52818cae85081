------------------------------ MODULE PoolPatch ------------------------------
(***************************************************************************)
(* Changing the capacity of the warm pool: patch_pool of main.py reads the *)
(* Pool resource, validates the outcome of the patch against what it read, *)
(* and then has the API server merge the patch into whatever is there.     *)
(***************************************************************************)
EXTENDS Integers

CONSTANTS
  Patches,      \* requests in flight at a time
  Bodies,       \* the requests' bodies: functions from some fields to numbers
  ChartPool,    \* the capacity that infra/kata-pool.yaml gives the pool
  Capacity      \* 50 in the code

Fields == {"poolMin", "poolMax", "bufferMin", "bufferMax"}

Consistent(p) ==
  /\ 1 =< p["poolMin"] /\ p["poolMin"] =< p["poolMax"] /\ p["poolMax"] =< Capacity
  /\ 0 =< p["bufferMin"] /\ p["bufferMin"] =< p["bufferMax"] /\ p["bufferMax"] =< p["poolMax"]

ASSUME PoolAssumption ==
  /\ Capacity \in Nat
  /\ \A body \in Bodies : DOMAIN body \subseteq Fields /\ body \in [DOMAIN body -> Int]
  /\ ChartPool \in [Fields -> Int] /\ Consistent(ChartPool)

VARIABLES
  pool,         \* spec.capacitySpec of the Pool resource
  patch,        \* each request: where it is, its body, and whether another
                \* change has overtaken it since it read the pool
  stale         \* had another change overtaken the last one?

poolVars == <<pool, patch, stale>>

NoBody  == [f \in {} |-> 0]
NoPatch == [pc |-> "idle", body |-> NoBody, overtaken |-> FALSE]

PoolInit ==
  /\ pool = ChartPool
  /\ patch = [q \in Patches |-> NoPatch]
  /\ stale = FALSE

-----------------------------------------------------------------------------
\* Only the fields of the body change.
Merged(body, p) == [f \in Fields |-> IF f \in DOMAIN body THEN body[f] ELSE p[f]]

\* The pool changes to p: whoever has read it, did so before.
Change(p, but) ==
  /\ pool' = p
  /\ patch' = [q \in Patches |->
       IF q \in but THEN NoPatch
       ELSE [patch[q] EXCEPT !.overtaken = patch[q].pc = "writing" /\ (@ \/ p # pool)]]

PatchPool(q, body) ==
  /\ patch[q].pc = "idle"
  /\ patch' = [patch EXCEPT ![q] = [pc |-> "reading", body |-> body, overtaken |-> FALSE]]
  /\ UNCHANGED <<pool, stale>>

\* Seeded bug: the fields are validated one by one, not the outcome.
AcceptedFieldwise(body, p) == \A f \in DOMAIN body : body[f] \in 0..Capacity

Accepted(body, p) == Consistent(Merged(body, p))

\* The pool is read and the outcome validated (422); no await in between.
ReadPool(q) ==
  /\ patch[q].pc = "reading"
  /\ IF Accepted(patch[q].body, pool)
     THEN patch' = [patch EXCEPT ![q].pc = "writing"]
     ELSE patch' = [patch EXCEPT ![q] = NoPatch]
  /\ UNCHANGED <<pool, stale>>

\* The API server merges the body into the pool of now; the answer may be lost.
WritePool(q) ==
  /\ patch[q].pc = "writing" /\ DOMAIN patch[q].body # {}
  /\ Change(Merged(patch[q].body, pool), {q})
  /\ stale' = patch[q].overtaken

\* The read fails (404); the write fails, or there is nothing to write (502).
PoolCallFails(q) ==
  /\ patch[q].pc \in {"reading", "writing"}
  /\ patch' = [patch EXCEPT ![q] = NoPatch]
  /\ UNCHANGED <<pool, stale>>

\* The manifest is applied again.
ManifestApplied ==
  /\ Change(ChartPool, {})
  /\ stale' = FALSE

PoolNext ==
  \/ ManifestApplied
  \/ \E q \in Patches :
       \/ \E body \in Bodies : PatchPool(q, body)
       \/ ReadPool(q) \/ WritePool(q) \/ PoolCallFails(q)

PoolSpec == PoolInit /\ [][PoolNext]_poolVars

-----------------------------------------------------------------------------
(* Properties *)

PoolTypeOK ==
  /\ pool \in [Fields -> Int]
  /\ stale \in BOOLEAN
  /\ patch \in [Patches -> [pc : {"idle", "reading", "writing"},
                            body : Bodies \cup {NoBody}, overtaken : BOOLEAN]]

\* 1 =< poolMin =< poolMax =< 50 and 0 =< bufferMin =< bufferMax =< poolMax
\* hold of the pool itself, and not only of what a request looked at, unless
\* another change came between the read and the write of the last patch; the
\* next patch that nothing overlaps brings them back.
ConsistentUnlessStale == Consistent(pool) \/ stale
=============================================================================
