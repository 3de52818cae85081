------------------------------ MODULE Sessions ------------------------------
(***************************************************************************)
(* The sandbox sessions of the control plane: the handlers of              *)
(* routers/sessions.py that change state (create, delete), the Kubernetes  *)
(* calls they make through aks_client.py, and the in-memory session store  *)
(* and warm-pool counters of both files.                                   *)
(*                                                                         *)
(* The server is one asyncio event loop.  A request runs without           *)
(* interruption from one await to the next, so each action below is the    *)
(* code between two awaits, or the effect of the awaited call at the       *)
(* Kubernetes API server.  pc[t] says which await request t is suspended   *)
(* in.  Every awaited call may fail; a mutating call may also take effect  *)
(* and fail afterwards (its answer is lost), which the code cannot tell    *)
(* from a call that had no effect.                                         *)
(***************************************************************************)
EXTENDS Integers, FiniteSets, Functions

CONSTANTS
  Tasks,          \* requests that can be in flight together
  Users,          \* Entra object ids
  LowLatency,     \* the users with the role Sandbox.LowLatency
  SessionIds,     \* the uuids that uuid4() may return
  WarmPods,       \* names of the pods the warm pool may start
  Images,         \* image references a client may ask for
  Curated,        \* settings.curated_images; {} allows every image
  TagOf,          \* the tag of an image, the last part of its warm namespace
  PodTag,         \* the tag in the namespace of a warm pod
  PerUserLimit,   \* settings.warm_pool_rate_limit_per_user
  PlatformLimit,  \* settings.warm_pool_platform_limit
  MaxRestarts     \* bound: restarts of the control plane

ASSUME SessionsAssumption ==
  /\ IsFiniteSet(Tasks) /\ Tasks # {}
  /\ IsFiniteSet(SessionIds)
  /\ LowLatency \subseteq Users
  /\ SessionIds \cap WarmPods = {}
  /\ PerUserLimit \in Nat \ {0}
  /\ PlatformLimit \in Nat \ {0}
  /\ MaxRestarts \in Nat

VARIABLES
  pc,             \* where each request is suspended
  loc,            \* the local variables of each request
  sessions,       \* _sessions of routers/sessions.py
  userCount,      \* _warm_pool_user_counts of aks_client.py
  platformCount,  \* _warm_pool_platform_count of aks_client.py
  pods,           \* the pods in the cluster, with the labels the code sets
  issued,         \* the session ids handed out so far
  restarts        \* bound: restarts so far

vars == <<pc, loc, sessions, userCount, platformCount, pods, issued, restarts>>

-----------------------------------------------------------------------------
None == "none"

PerUser == "per-user"
Shared  == "shared_warm_pool"
Tiers   == {PerUser, Shared}

\* A default-tier pod is called sandbox-<session id>: the id stands for it.
Pods == WarmPods \cup SessionIds

Locals == [user  : Users \cup {None},      image : Images \cup {None},
           tier  : Tiers \cup {None},      sid   : SessionIds \cup {None},
           pod   : Pods \cup {None},       count : Nat]

NoLocals == [user |-> None, image |-> None, tier |-> None,
             sid |-> None, pod |-> None, count |-> 0]

Session == [owner : Users, pod : Pods, tier : Tiers, image : Images]

Pod == [phase : {"absent", "idle", "bound", "gone"},
        owner : Users \cup {None}, sid : SessionIds \cup {None}]

\* From create_pod or list on, the request has minted its session id.
CreateStates == {"create_obo", "create_pod", "pod_created",
                 "list", "patch", "patched"}
Minted       == CreateStates \ {"create_obo"}
DeleteStates == {"delete_obo", "delete_pod", "pod_deleted"}
States       == {"idle"} \cup CreateStates \cup DeleteStates

-----------------------------------------------------------------------------
Init ==
  /\ pc = [t \in Tasks |-> "idle"]
  /\ loc = [t \in Tasks |-> NoLocals]
  /\ sessions = [s \in {} |-> None]
  /\ userCount = [u \in Users |-> 0]
  /\ platformCount = 0
  /\ pods = [p \in Pods |-> [phase |-> "absent", owner |-> None, sid |-> None]]
  /\ issued = {}
  /\ restarts = 0

\* The request moves to the await `to' and keeps the locals l.
Goto(t, to, l) ==
  /\ pc' = [pc EXCEPT ![t] = to]
  /\ loc' = [loc EXCEPT ![t] = l]

\* The request returns its response, or raises: its locals are gone.
Finish(t) == Goto(t, "idle", NoLocals)

store    == <<sessions, userCount, platformCount>>
external == <<pods, restarts>>

-----------------------------------------------------------------------------
(* POST /sessions *)

ImageAllowed(i) == Curated # {} => i \in Curated

\* Up to the first await: the role and the image are checked (a refused
\* request changes nothing and has no action), then the OBO exchange starts.
CreateSession(t, u, i, tier) ==
  /\ pc[t] = "idle"
  /\ tier = Shared => u \in LowLatency
  /\ ImageAllowed(i)
  /\ Goto(t, "create_obo",
          [NoLocals EXCEPT !.user = u, !.image = i, !.tier = tier])
  /\ UNCHANGED <<store, external, issued>>

\* exchange_for_aks raises, in a create or in a delete.
ExchangeFails(t) ==
  /\ pc[t] \in {"create_obo", "delete_obo"}
  /\ Finish(t)
  /\ UNCHANGED <<store, external, issued>>

\* Seeded bug: the pod name does not depend on the session id.
OneName(s) == CHOOSE n \in SessionIds : TRUE

\* The pod of a default-tier session is named after its id.
PodName(s) == s

\* Default tier: the manifest is built for the fresh id, then the create call.
StartPerUser(t, s) ==
  /\ pc[t] = "create_obo"
  /\ loc[t].tier = PerUser
  /\ s \notin issued
  /\ issued' = issued \cup {s}
  /\ Goto(t, "create_pod", [loc[t] EXCEPT !.sid = s, !.pod = PodName(s)])
  /\ UNCHANGED <<store, external>>

\* Seeded bug: off by one, the request that reaches the limit is let through.
UnderLimitsInclusive(u) ==
  /\ userCount[u] =< PerUserLimit
  /\ platformCount =< PlatformLimit

\* Both limits, tested when the request starts and never again.
UnderLimits(u) ==
  /\ userCount[u] < PerUserLimit
  /\ platformCount < PlatformLimit

\* The limit is reached: RateLimitError.  The id minted for this request is
\* never seen by anyone, so it is not taken out of SessionIds.
RateLimited(t) ==
  /\ pc[t] = "create_obo"
  /\ loc[t].tier = Shared
  /\ ~UnderLimits(loc[t].user)
  /\ Finish(t)
  /\ UNCHANGED <<store, external, issued>>

\* The user's counter is read here and written back after two awaits.
StartShared(t, s) ==
  /\ pc[t] = "create_obo"
  /\ loc[t].tier = Shared
  /\ UnderLimits(loc[t].user)
  /\ s \notin issued
  /\ issued' = issued \cup {s}
  /\ Goto(t, "list",
          [loc[t] EXCEPT !.sid = s, !.count = userCount[loc[t].user]])
  /\ UNCHANGED <<store, external>>

\* Seeded bug: idle pods are listed in every warm-pool namespace.
CandidatesOfAnyTag(i) == {p \in WarmPods : pods[p].phase = "idle"}

\* The pods the selector warm-pool-state=idle returns in the image's namespace.
Candidates(i) ==
  {p \in WarmPods : pods[p].phase = "idle" /\ PodTag[p] = TagOf[i]}

\* The list call answers and pods.items[0] is taken; the API promises no order.
ListIdle(t, p) ==
  /\ pc[t] = "list"
  /\ p \in Candidates(loc[t].image)
  /\ Goto(t, "patch", [loc[t] EXCEPT !.pod = p])
  /\ UNCHANGED <<store, external, issued>>

\* The list call fails, or there is no idle pod: AKSClientError.
ListFails(t) ==
  /\ pc[t] = "list"
  /\ Finish(t)
  /\ UNCHANGED <<store, external, issued>>

\* Seeded bug: the bind leaves the label warm-pool-state=idle on the pod.
LeftIdle(l) == [phase |-> "idle", owner |-> l.user, sid |-> l.sid]

\* The labels written by a bind or by the manifest of a fresh pod.
BoundPod(l) == [phase |-> "bound", owner |-> l.user, sid |-> l.sid]

\* The patch reaches the API server.  It has no precondition on the labels:
\* it overwrites those of a pod another request has bound since the list.
PatchPod(t) ==
  /\ pc[t] = "patch"
  /\ pods[loc[t].pod].phase \in {"idle", "bound"}
  /\ pods' = [pods EXCEPT ![loc[t].pod] = BoundPod(loc[t])]
  /\ Goto(t, "patched", loc[t]) \/ Finish(t)    \* answered, or answer lost
  /\ UNCHANGED <<store, issued, restarts>>

\* The fresh pod is created in the user's namespace.
CreatePod(t) ==
  /\ pc[t] = "create_pod"
  /\ pods' = [pods EXCEPT ![loc[t].pod] = BoundPod(loc[t])]
  /\ Goto(t, "pod_created", loc[t]) \/ Finish(t)
  /\ UNCHANGED <<store, issued, restarts>>

\* Seeded bug: an error of the delete call is swallowed, as a 404 is.
DeleteErrorIgnored(t) ==
  /\ pc[t] \in {"patch", "create_pod", "delete_pod"}
  /\ IF pc[t] = "delete_pod" THEN Goto(t, "pod_deleted", loc[t]) ELSE Finish(t)
  /\ UNCHANGED <<store, external, issued>>

\* The mutating call raises without effect (a patched pod may be gone: 404).
CallFails(t) ==
  /\ pc[t] \in {"patch", "create_pod", "delete_pod"}
  /\ Finish(t)
  /\ UNCHANGED <<store, external, issued>>

StoreSession(l) ==
  sessions' = [s \in DOMAIN sessions \cup {l.sid} |->
                 IF s = l.sid
                 THEN [owner |-> l.user, pod |-> l.pod,
                       tier |-> l.tier, image |-> l.image]
                 ELSE sessions[s]]

\* The counters after a bind: the user's from the value read before the
\* awaits, the platform's from the current one.
CountBind(l) ==
  /\ userCount' = [userCount EXCEPT ![l.user] = l.count + 1]
  /\ platformCount' = platformCount + 1

\* The answer to the patch: count, return, store the session, reply 201.
BindDone(t) ==
  /\ pc[t] = "patched"
  /\ CountBind(loc[t])
  /\ StoreSession(loc[t])
  /\ Finish(t)
  /\ UNCHANGED <<external, issued>>

\* The answer to the pod creation: store the session, reply 201.
CreateDone(t) ==
  /\ pc[t] = "pod_created"
  /\ StoreSession(loc[t])
  /\ Finish(t)
  /\ UNCHANGED <<userCount, platformCount, external, issued>>

-----------------------------------------------------------------------------
(* DELETE /sessions/{id} *)

\* A missing session (404) and another user's (403) change nothing.
DeleteSession(t, u, s) ==
  /\ pc[t] = "idle"
  /\ s \in DOMAIN sessions
  /\ sessions[s].owner = u
  /\ Goto(t, "delete_obo",
          [NoLocals EXCEPT !.user = u, !.sid = s, !.pod = sessions[s].pod,
                           !.tier = sessions[s].tier])
  /\ UNCHANGED <<store, external, issued>>

DeleteExchanged(t) ==
  /\ pc[t] = "delete_obo"
  /\ Goto(t, "delete_pod", loc[t])
  /\ UNCHANGED <<store, external, issued>>

\* The API server deletes the pod, or answers 404, which the code accepts.
DeletePod(t) ==
  /\ pc[t] = "delete_pod"
  /\ pods' = [pods EXCEPT ![loc[t].pod].phase = "gone"]
  /\ Goto(t, "pod_deleted", loc[t]) \/ Finish(t)
  /\ UNCHANGED <<store, issued, restarts>>

\* Seeded bug: the decrement without its floor.
ReleasedBelowZero(n) == n - 1

\* max(0, n - 1)
Released(n) == IF n > 0 THEN n - 1 ELSE 0

\* Seeded bug: the warm-pool slot is not given back.
KeepSlot(l) == UNCHANGED <<userCount, platformCount>>

\* Seeded bug: a delete gives back a slot whatever the tier of the session.
ReleaseAnyTier(l) ==
  /\ userCount' = [userCount EXCEPT ![l.user] = Released(userCount[l.user])]
  /\ platformCount' = Released(platformCount)

\* The slot of a shared session is given back, whoever else is deleting it.
ReleaseSlot(l) ==
  IF l.tier = Shared
  THEN /\ userCount' = [userCount EXCEPT ![l.user] = Released(userCount[l.user])]
       /\ platformCount' = Released(platformCount)
  ELSE UNCHANGED <<userCount, platformCount>>

\* _sessions.pop(session_id, None)
DeleteDone(t) ==
  /\ pc[t] = "pod_deleted"
  /\ ReleaseSlot(loc[t])
  /\ sessions' = Restrict(sessions, DOMAIN sessions \ {loc[t].sid})
  /\ Finish(t)
  /\ UNCHANGED <<external, issued>>

-----------------------------------------------------------------------------
(* The environment: the warm pool, the nodes, and the server's process. *)

\* The pool controller starts a pod; names are generated and not used again.
WarmPodReady(p) ==
  /\ pods[p].phase = "absent"
  /\ pods' = [pods EXCEPT ![p].phase = "idle"]
  /\ UNCHANGED <<pc, loc, store, issued, restarts>>

\* A pod ends by itself: a node drained, a command that ran to its end.
PodDies(p) ==
  /\ pods[p].phase \in {"idle", "bound"}
  /\ pods' = [pods EXCEPT ![p].phase = "gone"]
  /\ UNCHANGED <<pc, loc, store, issued, restarts>>

\* The process restarts: store, counters and requests are lost, pods are not.
Restart ==
  /\ restarts < MaxRestarts
  /\ restarts' = restarts + 1
  /\ pc' = [t \in Tasks |-> "idle"]
  /\ loc' = [t \in Tasks |-> NoLocals]
  /\ sessions' = [s \in {} |-> None]
  /\ userCount' = [u \in Users |-> 0]
  /\ platformCount' = 0
  /\ UNCHANGED <<pods, issued>>

-----------------------------------------------------------------------------
Request(t) ==
  \/ \E u \in Users, i \in Images, tier \in Tiers : CreateSession(t, u, i, tier)
  \/ \E u \in Users, s \in SessionIds : DeleteSession(t, u, s)

Continue(t) ==
  \/ ExchangeFails(t)
  \/ \E s \in SessionIds : StartPerUser(t, s)
  \/ RateLimited(t)
  \/ \E s \in SessionIds : StartShared(t, s)
  \/ \E p \in WarmPods : ListIdle(t, p)
  \/ ListFails(t)
  \/ PatchPod(t)
  \/ CreatePod(t)
  \/ CallFails(t)
  \/ BindDone(t)
  \/ CreateDone(t)
  \/ DeleteExchanged(t)
  \/ DeletePod(t)
  \/ DeleteDone(t)

Environment ==
  \/ \E p \in WarmPods : WarmPodReady(p)
  \/ \E p \in Pods : PodDies(p)
  \/ Restart

Next == (\E t \in Tasks : Request(t) \/ Continue(t)) \/ Environment

Spec == Init /\ [][Next]_vars

-----------------------------------------------------------------------------
(* Properties *)

TypeOK ==
  /\ pc \in [Tasks -> States]
  /\ loc \in [Tasks -> Locals]
  /\ DOMAIN sessions \subseteq SessionIds
  /\ sessions \in [DOMAIN sessions -> Session]
  /\ userCount \in [Users -> Nat]
  /\ platformCount \in Nat
  /\ pods \in [Pods -> Pod]
  /\ issued \subseteq SessionIds
  /\ restarts \in 0..MaxRestarts

SharedSessions == {s \in DOMAIN sessions : sessions[s].tier = Shared}
SharedOf(u) == {s \in SharedSessions : sessions[s].owner = u}

\* The limit test of aks_client.py is followed by two awaits before the count,
\* so the platform counter may pass the limit; it passes it by at most the
\* number of other requests that were in flight.
PlatformOvershootBounded ==
  platformCount =< PlatformLimit - 1 + Cardinality(Tasks)

\* The platform counter never counts a slot nobody holds, whatever creates,
\* deletes (also two of one session) and failures interleave: a platform-wide
\* RateLimitError always means that many shared sessions really exist.
PlatformNeverOvercounts ==
  platformCount =< Cardinality(SharedSessions)

\* A default-tier sandbox is isolated: no other session ever uses its pod and,
\* until it is gone, the pod carries this session's labels, whatever the
\* shared tier's binds do at the same time.
PerUserTierExclusive ==
  \A s \in DOMAIN sessions :
    sessions[s].tier = PerUser =>
      /\ \A r \in DOMAIN sessions \ {s} : sessions[r].pod # sessions[s].pod
      /\ pods[sessions[s].pod].owner = sessions[s].owner
      /\ pods[sessions[s].pod].sid = s

\* A pod used by a stored session is never back among the idle pods that a
\* bind may pick, and a shared session's pod is of the pool of its image tag.
StoredPodsNotIdle ==
  \A s \in DOMAIN sessions :
    /\ pods[sessions[s].pod].phase \in {"bound", "gone"}
    /\ sessions[s].tier = Shared =>
         PodTag[sessions[s].pod] = TagOf[sessions[s].image]

\* One session, one pod (docs/mission-and-architecture.md, Ontology): two
\* stored sessions never run in the same pod.
OnePodPerSession ==
  \A r, s \in DOMAIN sessions : sessions[r].pod = sessions[s].pod => r = s

\* No user holds more shared sessions than the per-user limit of config.py.
UserLimitHolds == \A u \in Users : Cardinality(SharedOf(u)) =< PerUserLimit

\* Both counters are exact; requests served one at a time keep them so.
CountersExact ==
  /\ \A u \in Users : userCount[u] = Cardinality(SharedOf(u))
  /\ platformCount = Cardinality(SharedSessions)

-----------------------------------------------------------------------------
(* Refinement of the promises of module SandboxLeases *)

\* The id of a create that is still under way has not been granted yet.
Creating == {s \in SessionIds :
               \E t \in Tasks : pc[t] \in Minted /\ loc[t].sid = s}

leaseBar ==
  [s \in SessionIds |->
     IF s \in DOMAIN sessions
     THEN [state |-> "held", owner |-> sessions[s].owner, pod |-> sessions[s].pod]
     ELSE IF s \in issued \ Creating THEN [state |-> "ended"]
     ELSE [state |-> "fresh"]]

destroyedBar == {p \in Pods : pods[p].phase = "gone"}

Leases == INSTANCE SandboxLeases WITH lease <- leaseBar, destroyed <- destroyedBar

\* Every behaviour of the handlers is one the session API promises: ids are
\* granted once, keep their user and pod, and end only after their pod.
ImplementsLeases == Leases!LeaseSpec
=============================================================================
