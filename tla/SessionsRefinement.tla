------------------------- MODULE SessionsRefinement -------------------------
(***************************************************************************)
(* Module Sessions implements SandboxLeases: every step of the handlers is *)
(* a step of the promised leases, or changes nothing they show.            *)
(***************************************************************************)
EXTENDS SessionsProofs

\* The ids that are neither stored nor being created, but were handed out.
EndedIds == (issued \ Creating) \ DOMAIN sessions

\* Equal ids, sessions and destroyed pods mean equal leases.
LEMMA LeaseStutter ==
  ASSUME sessions' = sessions, EndedIds' = EndedIds, destroyedBar' = destroyedBar
  PROVE  UNCHANGED Leases!leaseVars
BY DEF EndedIds, leaseBar, destroyedBar, Leases!leaseVars

\* A create that ends without a session abandons its id.
LEMMA LeaseAbandon ==
  ASSUME SessionsInv, NEW t \in Tasks, pc[t] \in Minted, Finish(t),
         UNCHANGED <<sessions, issued>>, destroyedBar' = destroyedBar
  PROVE  Leases!LeaseNext
<1> DEFINE x == loc[t].sid
<1>1. x \in SessionIds /\ x \in issued /\ x \notin DOMAIN sessions /\ x \in Creating
  BY DEF SessionsInv, TypeInv, LocalsOK, IdsUnique, Minted, Creating
<1>2. /\ pc'[t] = "idle"
      /\ \A r \in Tasks \ {t} : pc'[r] = pc[r] /\ loc'[r] = loc[r]
  BY GotoFacts DEF SessionsInv, TypeInv, Finish
<1>3. Creating' = Creating \ {x}
  BY <1>2 DEF SessionsInv, IdsUnique, Creating, Minted, CreateStates
<1> HIDE DEF x
<1>4. leaseBar[x] = [state |-> "fresh"]
  BY <1>1 DEF leaseBar
<1>5. leaseBar' = [leaseBar EXCEPT ![x] = [state |-> "ended"]]
  BY <1>1, <1>3 DEF leaseBar
<1>6. Leases!Abandon(x)
  BY <1>4, <1>5 DEF Leases!Abandon, Leases!Fresh, Leases!Ended
<1> QED
  BY <1>1, <1>6 DEF Leases!LeaseNext

\* Every step of Sessions is a step of the leases or leaves them alone.
LEMMA LeaseStep ==
  SessionsInv /\ SessionsInv' /\ [Next]_vars => [Leases!LeaseNext]_(Leases!leaseVars)
<1> SUFFICES ASSUME SessionsInv, SessionsInv', [Next]_vars
             PROVE  [Leases!LeaseNext]_(Leases!leaseVars)
  OBVIOUS
<1> USE SessionsAssumption DEF store, external
<1>0. TypeOK /\ TypeInv /\ TypeOK'
  BY DEF SessionsInv, TypeInv
<1>1. ASSUME NEW t \in Tasks, pc[t] \notin Minted, Finish(t),
             UNCHANGED <<sessions, issued>>, destroyedBar' = destroyedBar
      PROVE  UNCHANGED Leases!leaseVars
  <2>1. Creating' = Creating
    BY <1>0, <1>1, GotoFacts DEF Finish, Creating, Minted, CreateStates
  <2> QED
    BY <1>1, <2>1, LeaseStutter DEF EndedIds
<1>2. ASSUME NEW t \in Tasks, Finish(t), UNCHANGED <<sessions, issued>>,
             destroyedBar' = destroyedBar
      PROVE  [Leases!LeaseNext]_(Leases!leaseVars)
  BY <1>1, <1>2, LeaseAbandon
<1>3. ASSUME NEW t \in Tasks, NEW to, NEW l, Goto(t, to, l),
             UNCHANGED <<sessions, issued>>, destroyedBar' = destroyedBar,
             to \in Minted <=> pc[t] \in Minted, to \in Minted => l.sid = loc[t].sid
      PROVE  UNCHANGED Leases!leaseVars
  <2>1. Creating' = Creating
    BY <1>0, <1>3, GotoFacts DEF Creating
  <2> QED
    BY <1>3, <2>1, LeaseStutter DEF EndedIds
<1>4. pods' = pods => destroyedBar' = destroyedBar
  BY DEF destroyedBar
<1>5. ASSUME NEW t \in Tasks,
             ExchangeFails(t) \/ RateLimited(t) \/ ListFails(t) \/ CallFails(t)
      PROVE  [Leases!LeaseNext]_(Leases!leaseVars)
  BY <1>2, <1>4, <1>5 DEF ExchangeFails, RateLimited, ListFails, CallFails
<1>6. ASSUME NEW t \in Tasks, Request(t) \/ DeleteExchanged(t)
      PROVE  UNCHANGED Leases!leaseVars
  <2>1. \E to \in {"create_obo", "delete_obo", "delete_pod"} : \E l : Goto(t, to, l)
    <3>1. ASSUME NEW u \in Users, NEW i \in Images, NEW tier \in Tiers,
                 CreateSession(t, u, i, tier)
          PROVE  \E l : Goto(t, "create_obo", l)
      BY <3>1, Zenon DEF CreateSession
    <3>2. ASSUME NEW u \in Users, NEW s \in SessionIds, DeleteSession(t, u, s)
          PROVE  \E l : Goto(t, "delete_obo", l)
      BY <3>2, Zenon DEF DeleteSession
    <3>3. DeleteExchanged(t) => \E l : Goto(t, "delete_pod", l)
      BY Zenon DEF DeleteExchanged
    <3> QED
      BY <1>6, <3>1, <3>2, <3>3 DEF Request
  <2>2. UNCHANGED <<sessions, issued, pods>> /\ pc[t] \notin Minted
    BY <1>6 DEF Request, CreateSession, DeleteSession, DeleteExchanged, Minted, CreateStates
  <2>3. \A to \in {"create_obo", "delete_obo", "delete_pod"} : to \notin Minted
    BY DEF Minted, CreateStates
  <2> QED
    BY <1>3, <1>4, <2>1, <2>2, <2>3
<1>7. ASSUME NEW t \in Tasks, NEW s \in SessionIds, StartPerUser(t, s) \/ StartShared(t, s)
      PROVE  UNCHANGED Leases!leaseVars
  <2>1. PICK to, l : Goto(t, to, l) /\ l.sid = s /\ to \in Minted
    <3> DEFINE l1 == [loc[t] EXCEPT !.sid = s, !.pod = PodName(s)]
               l2 == [loc[t] EXCEPT !.sid = s, !.count = userCount[loc[t].user]]
    <3>1. l1.sid = s /\ l2.sid = s
      BY <1>0 DEF TypeOK, Locals
    <3>2. Goto(t, "create_pod", l1) \/ Goto(t, "list", l2)
      BY <1>7 DEF StartPerUser, StartShared
    <3>3. "create_pod" \in Minted /\ "list" \in Minted
      BY DEF Minted, CreateStates
    <3> HIDE DEF l1, l2
    <3> QED
      BY <3>1, <3>2, <3>3
  <2>2. /\ pc[t] \notin Minted /\ s \notin issued /\ issued' = issued \cup {s}
        /\ UNCHANGED <<sessions, pods>>
    BY <1>7 DEF StartPerUser, StartShared, Minted, CreateStates
  <2>3. /\ pc'[t] = to /\ loc'[t] = l
        /\ \A r \in Tasks \ {t} : pc'[r] = pc[r] /\ loc'[r] = loc[r]
    BY <1>0, <2>1, GotoFacts
  <2>4. Creating' = Creating \cup {s}
    BY <2>1, <2>2, <2>3 DEF Creating
  <2>5. EndedIds' = EndedIds
    BY <2>2, <2>4 DEF EndedIds
  <2> QED
    BY <1>4, <2>2, <2>5, LeaseStutter
<1>8. ASSUME NEW t \in Tasks, NEW p \in WarmPods, ListIdle(t, p)
      PROVE  UNCHANGED Leases!leaseVars
  <2> DEFINE l == [loc[t] EXCEPT !.pod = p]
  <2>1. l.sid = loc[t].sid
    BY <1>0 DEF TypeOK, Locals
  <2>2. Goto(t, "patch", l) /\ pc[t] = "list" /\ UNCHANGED <<sessions, issued, pods>>
    BY <1>8 DEF ListIdle
  <2> HIDE DEF l
  <2> QED
    BY <1>3, <1>4, <2>1, <2>2 DEF Minted, CreateStates
<1>9. ASSUME NEW t \in Tasks, PatchPod(t) \/ CreatePod(t)
      PROVE  [Leases!LeaseNext]_(Leases!leaseVars)
  <2>1. pods[loc[t].pod].phase # "gone" /\ loc[t].pod \in Pods
    BY <1>9 DEF PatchPod, CreatePod, SessionsInv, TypeInv, LocalsOK, StoreInv, TaskOK,
                CreateStates, Pods
  <2>2. destroyedBar' = destroyedBar
    BY <1>0, <1>9, <2>1 DEF PatchPod, CreatePod, BoundPod, destroyedBar, TypeOK
  <2>3. UNCHANGED <<sessions, issued>> /\ pc[t] \in Minted
    BY <1>9 DEF PatchPod, CreatePod, Minted, CreateStates
  <2>4. Finish(t) \/ \E to \in Minted : Goto(t, to, loc[t])
    BY <1>9 DEF PatchPod, CreatePod, Minted, CreateStates
  <2> QED
    BY <1>2, <1>3, <2>2, <2>3, <2>4
<1>10. ASSUME NEW t \in Tasks, NEW p \in Pods, UNCHANGED <<sessions, issued>>,
              Creating' = Creating, destroyedBar' = destroyedBar \cup {p}
       PROVE  Leases!LeaseNext
  <2>1. leaseBar' = leaseBar
    BY <1>10 DEF leaseBar
  <2> QED
    BY <1>10, <2>1 DEF Leases!Destroy, Leases!LeaseNext
<1>11. ASSUME NEW t \in Tasks, DeletePod(t) PROVE Leases!LeaseNext
  <2>1. loc[t].pod \in Pods /\ pc[t] = "delete_pod"
    BY <1>11 DEF DeletePod, SessionsInv, TypeInv, LocalsOK, DeleteStates
  <2>2. destroyedBar' = destroyedBar \cup {loc[t].pod}
    BY <1>0, <1>11, <2>1 DEF DeletePod, destroyedBar, TypeOK, Pod
  <2>3. PICK to, l : Goto(t, to, l) /\ to \in {"pod_deleted", "idle"}
    BY <1>11 DEF DeletePod, Finish
  <2>4. Creating' = Creating
    BY <1>0, <2>1, <2>3, GotoFacts DEF Creating, Minted, CreateStates
  <2> QED
    BY <1>10, <1>11, <2>1, <2>2, <2>4 DEF DeletePod

<1>12. ASSUME NEW t \in Tasks, BindDone(t) \/ CreateDone(t) PROVE Leases!LeaseNext
  <2> DEFINE x == loc[t].sid
             u == loc[t].user
             p == loc[t].pod
  <2>1. /\ x \in SessionIds /\ u \in Users /\ p \in Pods
        /\ x \in issued /\ x \notin DOMAIN sessions /\ x \in Creating
    BY <1>12 DEF BindDone, CreateDone, SessionsInv, TypeInv, LocalsOK, IdsUnique, Minted,
                 CreateStates, Creating, Pods
  <2>2. /\ pc'[t] = "idle"
        /\ \A r \in Tasks \ {t} : pc'[r] = pc[r] /\ loc'[r] = loc[r]
    BY <1>0, <1>12, GotoFacts DEF BindDone, CreateDone, Finish
  <2>3. Creating' = Creating \ {x}
    BY <1>12, <2>2 DEF SessionsInv, IdsUnique, Creating, Minted, CreateStates,
                       BindDone, CreateDone
  <2>4. /\ DOMAIN sessions' = DOMAIN sessions \cup {x}
        /\ \A s \in DOMAIN sessions : sessions'[s] = sessions[s]
        /\ sessions'[x].owner = u /\ sessions'[x].pod = p
        /\ issued' = issued /\ destroyedBar' = destroyedBar
    BY <1>4, <1>12, <2>1 DEF BindDone, CreateDone, StoreSession
  <2> HIDE DEF x, u, p
  <2>5. leaseBar[x] = [state |-> "fresh"]
    BY <2>1 DEF leaseBar
  <2>6. leaseBar' = [leaseBar EXCEPT ![x] = [state |-> "held", owner |-> u, pod |-> p]]
    BY <2>1, <2>3, <2>4 DEF leaseBar
  <2>7. Leases!Grant(x, u, p)
    BY <2>4, <2>5, <2>6 DEF Leases!Grant, Leases!Fresh, Leases!Held
  <2> QED
    BY <2>1, <2>7 DEF Leases!LeaseNext
<1>13. ASSUME NEW t \in Tasks, DeleteDone(t) PROVE [Leases!LeaseNext]_(Leases!leaseVars)
  <2> DEFINE x == loc[t].sid
  <2>1. /\ x \in SessionIds /\ x \in issued /\ x \notin Creating
        /\ loc[t].pod \in Pods /\ pods[loc[t].pod].phase = "gone"
        /\ x \in DOMAIN sessions => loc[t].pod = sessions[x].pod
    BY <1>13 DEF DeleteDone, SessionsInv, TypeInv, LocalsOK, IdsUnique, StoreInv, TaskOK,
                 Minted, CreateStates, DeleteStates, Creating
  <2>2. Creating' = Creating
    BY <1>0, <1>13, GotoFacts DEF DeleteDone, Finish, Creating, Minted, CreateStates
  <2>3. /\ DOMAIN sessions' = DOMAIN sessions \ {x}
        /\ \A s \in DOMAIN sessions' : sessions'[s] = sessions[s]
        /\ issued' = issued /\ destroyedBar' = destroyedBar
    BY <1>4, <1>13 DEF DeleteDone, Restrict
  <2> HIDE DEF x
  <2>4. CASE x \notin DOMAIN sessions
    <3>1. leaseBar' = leaseBar
      BY <2>2, <2>3, <2>4 DEF leaseBar
    <3> QED
      BY <2>3, <3>1 DEF Leases!leaseVars
  <2>5. CASE x \in DOMAIN sessions
    <3>1. leaseBar[x] = [state |-> "held", owner |-> sessions[x].owner, pod |-> sessions[x].pod]
      BY <2>1, <2>5 DEF leaseBar
    <3>2. leaseBar[x].pod \in destroyedBar
      BY <2>1, <2>5, <3>1 DEF destroyedBar
    <3>3. leaseBar' = [leaseBar EXCEPT ![x] = [state |-> "ended"]]
      BY <2>1, <2>2, <2>3 DEF leaseBar
    <3>4. Leases!Release(x)
      BY <2>3, <3>1, <3>2, <3>3 DEF Leases!Release, Leases!Ended
    <3> QED
      BY <2>1, <3>4 DEF Leases!LeaseNext
  <2> QED
    BY <2>4, <2>5
<1>14. ASSUME NEW p \in WarmPods, WarmPodReady(p) PROVE UNCHANGED Leases!leaseVars
  <2>1. destroyedBar' = destroyedBar
    BY <1>0, <1>14 DEF WarmPodReady, destroyedBar, TypeOK, Pod, Pods
  <2>2. sessions' = sessions /\ EndedIds' = EndedIds
    BY <1>14 DEF WarmPodReady, EndedIds, Creating
  <2> QED
    BY <2>1, <2>2, LeaseStutter
<1>15. ASSUME NEW p \in Pods, PodDies(p) PROVE Leases!LeaseNext
  <2>1. destroyedBar' = destroyedBar \cup {p}
    BY <1>0, <1>15 DEF PodDies, destroyedBar, TypeOK, Pod
  <2>2. leaseBar' = leaseBar
    BY <1>15 DEF PodDies, leaseBar, Creating
  <2> QED
    BY <2>1, <2>2 DEF Leases!Destroy, Leases!LeaseNext
<1>16. CASE Restart
  <2>1. /\ DOMAIN sessions' = {} /\ issued' = issued /\ Creating' = {}
        /\ destroyedBar' = destroyedBar
    BY <1>4, <1>16 DEF Restart, Creating, Minted, CreateStates
  <2>2. \A s \in SessionIds :
          leaseBar'[s] = IF s \in issued THEN [state |-> "ended"] ELSE [state |-> "fresh"]
    BY <2>1 DEF leaseBar
  <2>3. \A s \in SessionIds : s \notin issued => leaseBar[s] = [state |-> "fresh"]
    BY DEF leaseBar, SessionsInv, IdsUnique
  <2>4. DOMAIN leaseBar' = SessionIds
    BY DEF leaseBar
  <2>5. Leases!Forget
    BY <2>1, <2>2, <2>3, <2>4 DEF Leases!Forget, Leases!Ended
  <2> QED
    BY <2>5 DEF Leases!LeaseNext
<1>17. CASE UNCHANGED vars
  BY <1>17, LeaseStutter DEF vars, EndedIds, Creating, destroyedBar
<1> QED
  BY <1>5, <1>6, <1>7, <1>8, <1>9, <1>11, <1>12, <1>13, <1>14, <1>15, <1>16, <1>17
  DEF Next, Continue, Environment

\* The handlers keep every promise of the session API: an id is granted once,
\* to one user and one pod, and a session ends only when its pod is destroyed
\* or the server has restarted.
THEOREM SessionsImplementLeases == Spec => ImplementsLeases
<1>1. Init => Leases!LeaseInit
  <2> SUFFICES ASSUME Init PROVE Leases!LeaseInit
    OBVIOUS
  <2>1. DOMAIN sessions = {} /\ issued = {}
    BY DEF Init
  <2>2. leaseBar = [s \in SessionIds |-> [state |-> "fresh"]]
    BY <2>1 DEF leaseBar
  <2>3. destroyedBar = {}
    BY DEF Init, destroyedBar
  <2> QED
    BY <2>2, <2>3 DEF Leases!LeaseInit, Leases!Fresh
<1> QED
  BY <1>1, LeaseStep, SessionsInvariant, PTL DEF Spec, ImplementsLeases, Leases!LeaseSpec
=============================================================================
