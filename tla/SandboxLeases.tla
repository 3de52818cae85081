--------------------------- MODULE SandboxLeases ----------------------------
(***************************************************************************)
(* What the session API promises about a sandbox: a session id is granted  *)
(* at most once, to one user and for one pod; while it is held neither     *)
(* changes; and it is given up only after its pod has been destroyed, or   *)
(* when the control plane loses its memory.  An id given up never comes    *)
(* back.  How requests, counters and the Kubernetes API get there is left  *)
(* to module Sessions, which implements this one.                          *)
(***************************************************************************)
CONSTANTS SessionIds, Users, Pods

VARIABLES
  lease,     \* per id: its state and, while it is held, its user and pod
  destroyed  \* the pods that are gone for good

leaseVars == <<lease, destroyed>>

Fresh  == [state |-> "fresh"]
Ended  == [state |-> "ended"]
Held(u, p) == [state |-> "held", owner |-> u, pod |-> p]

LeaseTypeOK ==
  /\ lease \in [SessionIds -> {Fresh, Ended} \cup {Held(u, p) : u \in Users, p \in Pods}]
  /\ destroyed \subseteq Pods

LeaseInit ==
  /\ lease = [s \in SessionIds |-> Fresh]
  /\ destroyed = {}

Grant(s, u, p) ==
  /\ lease[s] = Fresh
  /\ lease' = [lease EXCEPT ![s] = Held(u, p)]
  /\ UNCHANGED destroyed

\* The creation of the sandbox failed: the id will not be granted.
Abandon(s) ==
  /\ lease[s] = Fresh
  /\ lease' = [lease EXCEPT ![s] = Ended]
  /\ UNCHANGED destroyed

Release(s) ==
  /\ lease[s].state = "held"
  /\ lease[s].pod \in destroyed
  /\ lease' = [lease EXCEPT ![s] = Ended]
  /\ UNCHANGED destroyed

Destroy(p) ==
  /\ destroyed' = destroyed \cup {p}
  /\ UNCHANGED lease

\* A restart: what was held is forgotten, what was being created is abandoned.
Forget ==
  /\ \A s \in SessionIds :
       lease'[s] = lease[s] \/ lease'[s] = Ended
  /\ \A s \in SessionIds : lease'[s].state # "held"
  /\ DOMAIN lease' = SessionIds
  /\ UNCHANGED destroyed

LeaseNext ==
  \/ \E s \in SessionIds, u \in Users, p \in Pods : Grant(s, u, p)
  \/ \E s \in SessionIds : Abandon(s) \/ Release(s)
  \/ \E p \in Pods : Destroy(p)
  \/ Forget

LeaseSpec == LeaseInit /\ [][LeaseNext]_leaseVars
=============================================================================
