--------------------------- MODULE SessionsProofs ---------------------------
(***************************************************************************)
(* Theorems about module Sessions, for every number of requests, users,    *)
(* ids, pods and for every limit.                                          *)
(***************************************************************************)
EXTENDS Sessions, FiniteSetTheorems, TLAPS

\* A request that moves to a known await with well-typed locals stays typed.
LEMMA GotoType ==
  ASSUME TypeOK, NEW t \in Tasks, NEW to \in States, NEW l \in Locals,
         Goto(t, to, l)
  PROVE  /\ pc' \in [Tasks -> States]
         /\ loc' \in [Tasks -> Locals]
BY DEF TypeOK, Goto

\* So does a request that returns.
LEMMA FinishType ==
  ASSUME TypeOK, NEW t \in Tasks, Finish(t)
  PROVE  /\ pc' \in [Tasks -> States]
         /\ loc' \in [Tasks -> Locals]
<1>1. NoLocals \in Locals
  BY DEF NoLocals, Locals
<1>2. "idle" \in States
  BY DEF States
<1> QED
  BY <1>1, <1>2, GotoType DEF Finish

\* Storing a session built from well-typed locals keeps the store typed.
LEMMA StoreType ==
  ASSUME TypeOK, NEW l \in Locals, StoreSession(l),
         l.user \in Users, l.pod \in Pods, l.tier \in Tiers, l.image \in Images,
         l.sid \in SessionIds
  PROVE  /\ DOMAIN sessions' = DOMAIN sessions \cup {l.sid}
         /\ DOMAIN sessions' \subseteq SessionIds
         /\ sessions' \in [DOMAIN sessions' -> Session]
BY DEF TypeOK, StoreSession, Session

\* What the locals of a suspended request hold, by the await it is in.
LocalsOK ==
  \A t \in Tasks :
    /\ pc[t] # "idle" => loc[t].user \in Users /\ loc[t].tier \in Tiers
    /\ pc[t] \in CreateStates => loc[t].image \in Images
    /\ pc[t] \in (CreateStates \cup DeleteStates) \ {"create_obo"} =>
         loc[t].sid \in SessionIds
    /\ pc[t] \in {"create_pod", "pod_created"} =>
         loc[t].tier = PerUser /\ loc[t].pod = loc[t].sid
    /\ pc[t] \in {"list", "patch", "patched"} => loc[t].tier = Shared
    /\ pc[t] \in {"patch", "patched"} => loc[t].pod \in WarmPods
    /\ pc[t] \in DeleteStates => loc[t].pod \in Pods

TypeInv == TypeOK /\ LocalsOK

\* Initially every request is idle and nothing is stored or counted.
LEMMA TypeInit == Init => TypeInv
<1> SUFFICES ASSUME Init PROVE TypeInv
  OBVIOUS
<1>1. TypeOK
  BY SessionsAssumption
  DEF Init, TypeOK, States, NoLocals, Locals, Pod, Session
<1>2. LocalsOK
  BY DEF Init, LocalsOK, CreateStates, DeleteStates
<1> QED
  BY <1>1, <1>2 DEF TypeInv

\* Every step keeps the variables typed and the locals meaningful.
LEMMA TypeNext == TypeInv /\ [Next]_vars => TypeInv'
<1> SUFFICES ASSUME TypeInv, [Next]_vars PROVE TypeInv'
  OBVIOUS
<1> USE SessionsAssumption DEF TypeInv, store, external
<1>1. ASSUME NEW t \in Tasks, NEW u \in Users, NEW i \in Images,
             NEW tier \in Tiers, CreateSession(t, u, i, tier)
      PROVE  TypeInv'
  <2> DEFINE l == [NoLocals EXCEPT !.user = u, !.image = i, !.tier = tier]
  <2>1. l \in Locals /\ l.user = u /\ l.tier = tier /\ l.image = i
    BY DEF NoLocals, Locals
  <2>2. pc' \in [Tasks -> States] /\ loc' \in [Tasks -> Locals]
    BY <1>1, <2>1, GotoType DEF CreateSession, States, CreateStates
  <2>3. TypeOK'
    BY <1>1, <2>2 DEF TypeOK, CreateSession
  <2>4. LocalsOK'
    BY <1>1, <2>1 DEF TypeOK, LocalsOK, CreateSession, Goto, CreateStates, DeleteStates
  <2> QED
    BY <2>3, <2>4
<1>2. ASSUME NEW t \in Tasks, NEW u \in Users, NEW s \in SessionIds,
             DeleteSession(t, u, s)
      PROVE  TypeInv'
  <2> DEFINE l == [NoLocals EXCEPT !.user = u, !.sid = s, !.pod = sessions[s].pod,
                                   !.tier = sessions[s].tier]
  <2>1. sessions[s] \in Session
    BY <1>2 DEF TypeOK, DeleteSession
  <2>2. /\ l \in Locals /\ l.user = u /\ l.sid = s
        /\ l.pod \in Pods /\ l.tier \in Tiers
    BY <2>1 DEF NoLocals, Locals, Session
  <2>3. pc' \in [Tasks -> States] /\ loc' \in [Tasks -> Locals]
    BY <1>2, <2>2, GotoType DEF DeleteSession, States, DeleteStates
  <2>4. TypeOK'
    BY <1>2, <2>3 DEF TypeOK, DeleteSession
  <2>5. LocalsOK'
    BY <1>2, <2>2 DEF TypeOK, LocalsOK, DeleteSession, Goto, CreateStates, DeleteStates
  <2> QED
    BY <2>4, <2>5
<1>3. ASSUME NEW t \in Tasks, Finish(t), UNCHANGED <<store, issued>>,
             UNCHANGED restarts, pods' \in [Pods -> Pod]
      PROVE  TypeInv'
  <2>1. pc' \in [Tasks -> States] /\ loc' \in [Tasks -> Locals]
    BY <1>3, FinishType
  <2>2. TypeOK'
    BY <1>3, <2>1 DEF TypeOK
  <2>3. LocalsOK'
    BY <1>3 DEF TypeOK, LocalsOK, Finish, Goto, CreateStates, DeleteStates
  <2> QED
    BY <2>2, <2>3
<1>4. ASSUME NEW t \in Tasks,
             ExchangeFails(t) \/ RateLimited(t) \/ ListFails(t) \/ CallFails(t)
      PROVE  TypeInv'
  BY <1>3, <1>4 DEF TypeOK, ExchangeFails, RateLimited, ListFails, CallFails
<1>5. ASSUME NEW t \in Tasks, NEW s \in SessionIds, StartPerUser(t, s)
      PROVE  TypeInv'
  <2>1. loc[t] \in Locals /\ loc[t].user \in Users /\ loc[t].image \in Images
    BY <1>5 DEF TypeOK, LocalsOK, StartPerUser, CreateStates
  <2> DEFINE l == [loc[t] EXCEPT !.sid = s, !.pod = PodName(s)]
  <2>2. /\ l \in Locals /\ l.sid = s /\ l.pod = s /\ l.user = loc[t].user
        /\ l.tier = loc[t].tier /\ l.image = loc[t].image
    BY <2>1 DEF Locals, PodName, Pods
  <2>3. pc' \in [Tasks -> States] /\ loc' \in [Tasks -> Locals]
    BY <1>5, <2>2, GotoType DEF StartPerUser, States, CreateStates
  <2>4. TypeOK'
    BY <1>5, <2>3 DEF TypeOK, StartPerUser
  <2>5. LocalsOK'
    BY <1>5, <2>1, <2>2
    DEF TypeOK, LocalsOK, StartPerUser, Goto, CreateStates, DeleteStates, Tiers, Pods
  <2> QED
    BY <2>4, <2>5
<1>6. ASSUME NEW t \in Tasks, NEW s \in SessionIds, StartShared(t, s)
      PROVE  TypeInv'
  <2>1. loc[t] \in Locals /\ loc[t].user \in Users /\ loc[t].image \in Images
    BY <1>6 DEF TypeOK, LocalsOK, StartShared, CreateStates
  <2> DEFINE l == [loc[t] EXCEPT !.sid = s, !.count = userCount[loc[t].user]]
  <2>2. /\ l \in Locals /\ l.sid = s /\ l.user = loc[t].user
        /\ l.tier = loc[t].tier /\ l.image = loc[t].image
    BY <2>1 DEF Locals, TypeOK
  <2>3. pc' \in [Tasks -> States] /\ loc' \in [Tasks -> Locals]
    BY <1>6, <2>2, GotoType DEF StartShared, States, CreateStates
  <2>4. TypeOK'
    BY <1>6, <2>3 DEF TypeOK, StartShared
  <2>5. LocalsOK'
    BY <1>6, <2>1, <2>2
    DEF TypeOK, LocalsOK, StartShared, Goto, CreateStates, DeleteStates, Tiers
  <2> QED
    BY <2>4, <2>5
<1>7. ASSUME NEW t \in Tasks, NEW p \in WarmPods, ListIdle(t, p)
      PROVE  TypeInv'
  <2>1. loc[t] \in Locals
    BY DEF TypeOK
  <2> DEFINE l == [loc[t] EXCEPT !.pod = p]
  <2>2. /\ l \in Locals /\ l.pod = p /\ l.sid = loc[t].sid /\ l.user = loc[t].user
        /\ l.tier = loc[t].tier /\ l.image = loc[t].image
    BY <2>1 DEF Locals, Pods
  <2>3. pc' \in [Tasks -> States] /\ loc' \in [Tasks -> Locals]
    BY <1>7, <2>2, GotoType DEF ListIdle, States, CreateStates
  <2>4. TypeOK'
    BY <1>7, <2>3 DEF TypeOK, ListIdle
  <2>5. LocalsOK'
    BY <1>7, <2>2 DEF TypeOK, LocalsOK, ListIdle, Goto, CreateStates, DeleteStates
  <2> QED
    BY <2>4, <2>5
<1>8. ASSUME NEW t \in Tasks, PatchPod(t) \/ CreatePod(t) \/ DeletePod(t)
      PROVE  TypeInv'
  <2>1. loc[t] \in Locals /\ loc[t].pod \in Pods
    BY <1>8 DEF TypeOK, LocalsOK, PatchPod, CreatePod, DeletePod, CreateStates,
                DeleteStates, Pods
  <2>2. PatchPod(t) \/ CreatePod(t) => BoundPod(loc[t]) \in Pod
    BY <2>1 DEF LocalsOK, PatchPod, CreatePod, BoundPod, Pod, CreateStates
  <2>3. pods' \in [Pods -> Pod]
    BY <1>8, <2>1, <2>2 DEF TypeOK, PatchPod, CreatePod, DeletePod, Pod
  <2>4. CASE Finish(t)
    BY <1>3, <1>8, <2>3, <2>4 DEF PatchPod, CreatePod, DeletePod
  <2>5. CASE ~Finish(t)
    <3>1. PICK to \in {"patched", "pod_created", "pod_deleted"} :
            /\ Goto(t, to, loc[t])
            /\ to = "patched" => pc[t] = "patch"
            /\ to = "pod_created" => pc[t] = "create_pod"
            /\ to = "pod_deleted" => pc[t] = "delete_pod"
      BY <1>8, <2>5 DEF PatchPod, CreatePod, DeletePod
    <3>2. pc' \in [Tasks -> States] /\ loc' \in [Tasks -> Locals]
      BY <2>1, <3>1, GotoType DEF States, CreateStates, DeleteStates
    <3>3. TypeOK'
      BY <1>8, <2>3, <3>2 DEF TypeOK, PatchPod, CreatePod, DeletePod
    <3>4. LocalsOK'
      BY <3>1 DEF TypeOK, LocalsOK, Goto, CreateStates, DeleteStates
    <3> QED
      BY <3>3, <3>4
  <2> QED
    BY <2>4, <2>5
<1>9. ASSUME NEW t \in Tasks, BindDone(t) \/ CreateDone(t)
      PROVE  TypeInv'
  <2>1. /\ loc[t] \in Locals /\ loc[t].user \in Users /\ loc[t].image \in Images
        /\ loc[t].tier \in Tiers /\ loc[t].sid \in SessionIds /\ loc[t].pod \in Pods
        /\ loc[t].count \in Nat
    BY <1>9 DEF TypeOK, LocalsOK, BindDone, CreateDone, CreateStates, Pods, Locals
  <2>2. pc' \in [Tasks -> States] /\ loc' \in [Tasks -> Locals]
    BY <1>9, FinishType DEF BindDone, CreateDone
  <2>3. DOMAIN sessions' \subseteq SessionIds /\ sessions' \in [DOMAIN sessions' -> Session]
    BY <1>9, <2>1, StoreType DEF BindDone, CreateDone
  <2>4. userCount' \in [Users -> Nat] /\ platformCount' \in Nat
    BY <1>9, <2>1 DEF TypeOK, BindDone, CreateDone, CountBind
  <2>5. TypeOK'
    BY <1>9, <2>2, <2>3, <2>4 DEF TypeOK, BindDone, CreateDone
  <2>6. LocalsOK'
    BY <1>9 DEF TypeOK, LocalsOK, BindDone, CreateDone, Finish, Goto, CreateStates,
                DeleteStates
  <2> QED
    BY <2>5, <2>6
<1>10. ASSUME NEW t \in Tasks, DeleteExchanged(t)
       PROVE  TypeInv'
  <2>1. pc' \in [Tasks -> States] /\ loc' \in [Tasks -> Locals]
    BY <1>10, GotoType DEF TypeOK, DeleteExchanged, States, DeleteStates
  <2>2. TypeOK'
    BY <1>10, <2>1 DEF TypeOK, DeleteExchanged
  <2>3. LocalsOK'
    BY <1>10 DEF TypeOK, LocalsOK, DeleteExchanged, Goto, CreateStates, DeleteStates
  <2> QED
    BY <2>2, <2>3
<1>11. ASSUME NEW t \in Tasks, DeleteDone(t)
       PROVE  TypeInv'
  <2>1. pc' \in [Tasks -> States] /\ loc' \in [Tasks -> Locals]
    BY <1>11, FinishType DEF DeleteDone
  <2>2. userCount' \in [Users -> Nat] /\ platformCount' \in Nat
    BY <1>11 DEF TypeOK, DeleteDone, ReleaseSlot, Released
  <2>3. DOMAIN sessions' \subseteq SessionIds /\ sessions' \in [DOMAIN sessions' -> Session]
    BY <1>11 DEF TypeOK, DeleteDone, Restrict
  <2>4. TypeOK'
    BY <1>11, <2>1, <2>2, <2>3 DEF TypeOK, DeleteDone
  <2>5. LocalsOK'
    BY <1>11 DEF TypeOK, LocalsOK, DeleteDone, Finish, Goto, CreateStates, DeleteStates
  <2> QED
    BY <2>4, <2>5
<1>12. ASSUME NEW p \in Pods, PodDies(p) \/ (p \in WarmPods /\ WarmPodReady(p))
       PROVE  TypeInv'
  <2>1. pods' \in [Pods -> Pod]
    BY <1>12 DEF TypeOK, PodDies, WarmPodReady, Pod
  <2>2. TypeOK'
    BY <1>12, <2>1 DEF TypeOK, PodDies, WarmPodReady
  <2>3. LocalsOK'
    BY <1>12 DEF LocalsOK, PodDies, WarmPodReady
  <2> QED
    BY <2>2, <2>3
<1>13. CASE Restart
  <2>1. TypeOK'
    BY <1>13 DEF TypeOK, Restart, States, NoLocals, Locals
  <2>2. LocalsOK'
    BY <1>13 DEF LocalsOK, Restart, CreateStates, DeleteStates
  <2> QED
    BY <2>1, <2>2
<1>14. CASE UNCHANGED vars
  BY <1>14 DEF TypeOK, LocalsOK, vars
<1> QED
  BY <1>1, <1>2, <1>4, <1>5, <1>6, <1>7, <1>8, <1>9, <1>10, <1>11, <1>12, <1>13, <1>14
  DEF Next, Request, Continue, Environment, Pods

\* TypeOK holds in every reachable state; LocalsOK is the strengthening it needs.
THEOREM TypeCorrect == Spec => []TypeOK
<1>1. Spec => []TypeInv
  BY TypeInit, TypeNext, PTL DEF Spec
<1> QED
  BY <1>1, PTL DEF TypeInv

-----------------------------------------------------------------------------
(* The platform counter *)

\* The requests between the limit test and the count.
Binding == {t \in Tasks : pc[t] \in {"list", "patch", "patched"}}

\* The strengthening of PlatformOvershootBounded: what is counted and what may
\* still be counted stay together below the limit and the other requests.
OvershootInv ==
  platformCount + Cardinality(Binding) =< PlatformLimit - 1 + Cardinality(Tasks)

LEMMA BindingFinite ==
  /\ IsFiniteSet(Binding)
  /\ Cardinality(Binding) \in Nat
  /\ Cardinality(Tasks) \in Nat
  /\ Cardinality(Binding) =< Cardinality(Tasks)
BY SessionsAssumption, FS_Subset, FS_CardinalityType DEF Binding

\* When fewer or the same requests are binding and the counter has not grown,
\* the bound still holds.
LEMMA OvershootShrinks ==
  ASSUME TypeOK, TypeOK', OvershootInv, Binding' \subseteq Binding,
         platformCount' =< platformCount
  PROVE  OvershootInv'
<1>1. IsFiniteSet(Binding') /\ Cardinality(Binding') \in Nat
      /\ Cardinality(Binding') =< Cardinality(Binding)
  BY BindingFinite, FS_Subset, FS_CardinalityType
<1> QED
  BY <1>1, BindingFinite, SessionsAssumption DEF OvershootInv, TypeOK

LEMMA OvershootNext == TypeInv /\ TypeInv' /\ OvershootInv /\ [Next]_vars => OvershootInv'
<1> SUFFICES ASSUME TypeInv, TypeInv', OvershootInv, [Next]_vars PROVE OvershootInv'
  OBVIOUS
<1> USE SessionsAssumption DEF TypeInv, store, external
<1>1. ASSUME NEW t \in Tasks, NEW s \in SessionIds, StartShared(t, s)
      PROVE  OvershootInv'
  <2>1. platformCount' = platformCount /\ platformCount =< PlatformLimit - 1
    BY <1>1 DEF StartShared, UnderLimits, TypeOK
  <2>2. Cardinality(Binding') =< Cardinality(Tasks) /\ Cardinality(Binding') \in Nat
        /\ Cardinality(Tasks) \in Nat
    BY FS_Subset, FS_CardinalityType DEF Binding
  <2> QED
    BY <2>1, <2>2 DEF OvershootInv, TypeOK
<1>2. ASSUME NEW t \in Tasks, BindDone(t)
      PROVE  OvershootInv'
  <2>1. t \in Binding /\ Binding' = Binding \ {t}
    BY <1>2 DEF BindDone, Finish, Goto, Binding, TypeOK
  <2>2. Cardinality(Binding') = Cardinality(Binding) - 1
    BY <2>1, BindingFinite, FS_RemoveElement
  <2>3. platformCount' = platformCount + 1
    BY <1>2 DEF BindDone, CountBind
  <2> QED
    BY <2>2, <2>3, BindingFinite DEF OvershootInv, TypeOK
<1>3. ASSUME NEW t \in Tasks, \A r \in Tasks \ {t} : pc'[r] = pc[r],
             t \in Binding' => t \in Binding, platformCount' =< platformCount
      PROVE  OvershootInv'
  <2>1. Binding' \subseteq Binding
    BY <1>3 DEF Binding
  <2> QED
    BY <1>3, <2>1, OvershootShrinks
<1>4. ASSUME NEW t \in Tasks, Request(t) PROVE OvershootInv'
  <2>1. /\ \A r \in Tasks \ {t} : pc'[r] = pc[r]
        /\ pc'[t] \in {"create_obo", "delete_obo"}
        /\ platformCount' = platformCount
    BY <1>4 DEF Request, CreateSession, DeleteSession, Goto, TypeOK
  <2>2. t \notin Binding'
    BY <2>1 DEF Binding
  <2> QED
    BY <2>1, <2>2, <1>3 DEF TypeOK
<1>5. ASSUME NEW t \in Tasks,
             \/ ExchangeFails(t) \/ RateLimited(t) \/ ListFails(t) \/ CallFails(t)
             \/ PatchPod(t) \/ CreatePod(t) \/ CreateDone(t) \/ DeleteExchanged(t)
             \/ DeletePod(t)
             \/ (\E s \in SessionIds : StartPerUser(t, s))
             \/ (\E p \in WarmPods : ListIdle(t, p))
      PROVE  OvershootInv'
  <2>1. platformCount' = platformCount /\ \A r \in Tasks \ {t} : pc'[r] = pc[r]
    BY <1>5 DEF ExchangeFails, RateLimited, ListFails, CallFails, PatchPod, CreatePod,
      CreateDone, DeleteExchanged, DeletePod, StartPerUser, ListIdle, Finish, Goto, TypeOK
  <2>2. t \in Binding' => t \in Binding
    BY <1>5 DEF Binding, ExchangeFails, RateLimited, ListFails, CallFails, PatchPod, CreatePod,
      CreateDone, DeleteExchanged, DeletePod, StartPerUser, ListIdle, Finish, Goto, TypeOK
  <2> QED
    BY <2>1, <2>2, <1>3 DEF TypeOK
<1>6. ASSUME NEW t \in Tasks, DeleteDone(t) PROVE OvershootInv'
  <2>1. platformCount' =< platformCount
    BY <1>6 DEF DeleteDone, ReleaseSlot, Released, TypeOK
  <2> QED
    BY <1>6, <2>1, <1>3 DEF DeleteDone, Finish, Goto, TypeOK, Binding
<1>7. CASE Environment \/ UNCHANGED vars
  <2>1. platformCount' =< platformCount /\ Binding' \subseteq Binding
    BY <1>7 DEF Environment, WarmPodReady, PodDies, Restart, vars, Binding, TypeOK
  <2> QED
    BY <2>1, OvershootShrinks
<1> QED
  BY <1>1, <1>2, <1>4, <1>5, <1>6, <1>7 DEF Next, Continue

\* The platform counter passes the limit by less than the number of requests
\* the server handles at a time, whatever that number and the limit are.
THEOREM PlatformOvershoot == Spec => []PlatformOvershootBounded
<1>1. Init => OvershootInv
  <2> SUFFICES ASSUME Init PROVE OvershootInv
    OBVIOUS
  <2>1. Binding = {}
    BY DEF Init, Binding
  <2>2. platformCount = 0 /\ Cardinality(Binding) = 0
    BY <2>1, FS_EmptySet DEF Init
  <2>3. Cardinality(Tasks) \in Nat
    BY BindingFinite
  <2> QED
    BY <2>2, <2>3, SessionsAssumption DEF OvershootInv
<1>2. TypeInv /\ OvershootInv => PlatformOvershootBounded
  BY BindingFinite, SessionsAssumption
  DEF OvershootInv, PlatformOvershootBounded, TypeInv, TypeOK
<1> QED
  BY <1>1, <1>2, TypeInit, TypeNext, OvershootNext, PTL DEF Spec

-----------------------------------------------------------------------------
(* What the store says about the requests under way *)

\* Ids are handed out once: the id of a create under way is issued, is not
\* stored yet, and is no other request's; a stored id is issued.
IdsUnique ==
  /\ DOMAIN sessions \subseteq issued
  /\ \A t \in Tasks : pc[t] \in Minted => loc[t].sid \in issued \ DOMAIN sessions
  /\ \A t \in Tasks : pc[t] \in DeleteStates => loc[t].sid \in issued
  /\ \A r, t \in Tasks :
       r # t /\ pc[r] \in Minted /\ pc[t] \in Minted \cup DeleteStates =>
         loc[r].sid # loc[t].sid

\* The store and the pods agree: a stored session's default-tier pod carries
\* its labels, its shared pod is a warm pod of its tag, neither is idle.
SessionOK(s) ==
  /\ sessions[s].tier = PerUser =>
       /\ sessions[s].pod = s
       /\ pods[s].owner = sessions[s].owner
       /\ pods[s].sid = s
  /\ sessions[s].tier = Shared =>
       /\ sessions[s].pod \in WarmPods
       /\ PodTag[sessions[s].pod] = TagOf[sessions[s].image]
  /\ pods[sessions[s].pod].phase \in {"bound", "gone"}

\* What a request under way may rely on; a delete holds the tier and
\* the pod of its session while that is still stored.
TaskOK(t) ==
  /\ pc[t] = "create_pod" => pods[loc[t].sid].phase = "absent"
  /\ pc[t] = "pod_created" =>
       /\ pods[loc[t].sid].owner = loc[t].user
       /\ pods[loc[t].sid].sid = loc[t].sid
       /\ pods[loc[t].sid].phase \in {"bound", "gone"}
  /\ pc[t] \in {"patch", "patched"} => PodTag[loc[t].pod] = TagOf[loc[t].image]
  /\ pc[t] = "patched" => pods[loc[t].pod].phase \in {"bound", "gone"}
  /\ pc[t] \in DeleteStates =>
       /\ pods[loc[t].pod].phase \in {"bound", "gone"}
       /\ loc[t].sid \in DOMAIN sessions =>
            /\ loc[t].tier = sessions[loc[t].sid].tier
            /\ loc[t].pod = sessions[loc[t].sid].pod
  /\ pc[t] = "pod_deleted" => pods[loc[t].pod].phase = "gone"

StoreInv ==
  /\ \A s \in DOMAIN sessions : SessionOK(s)
  /\ \A s \in SessionIds \ issued : pods[s].phase = "absent"
  /\ \A t \in Tasks : TaskOK(t)

\* What Goto means, request by request.
LEMMA GotoFacts ==
  ASSUME TypeOK, NEW t \in Tasks, NEW to, NEW l, Goto(t, to, l)
  PROVE  /\ pc'[t] = to /\ loc'[t] = l
         /\ \A r \in Tasks \ {t} : pc'[r] = pc[r] /\ loc'[r] = loc[r]
BY DEF TypeOK, Goto

\* Two ids are never confused, in any step.
LEMMA IdsNext == TypeInv /\ TypeInv' /\ IdsUnique /\ [Next]_vars => IdsUnique'
<1> SUFFICES ASSUME TypeInv, TypeInv', IdsUnique, [Next]_vars PROVE IdsUnique'
  OBVIOUS
<1> USE SessionsAssumption DEF TypeInv, store, external
<1>1. ASSUME NEW t \in Tasks, NEW to \in States, NEW l, Goto(t, to, l),
             UNCHANGED <<sessions, issued>>,
             to \in Minted => pc[t] \in Minted /\ l.sid = loc[t].sid,
             to \in DeleteStates =>
               \/ pc[t] \in DeleteStates /\ l.sid = loc[t].sid
               \/ l.sid \in DOMAIN sessions
      PROVE  IdsUnique'
  BY <1>1, GotoFacts DEF IdsUnique, Minted, CreateStates, DeleteStates
<1>2. ASSUME NEW t \in Tasks, Request(t) PROVE IdsUnique'
  <2>1. CASE \E u \in Users, i \in Images, tier \in Tiers : CreateSession(t, u, i, tier)
    BY <1>1, <2>1 DEF CreateSession, States, Minted, CreateStates, DeleteStates
  <2>2. CASE \E u \in Users, s \in SessionIds : DeleteSession(t, u, s)
    <3>1. PICK u \in Users, s \in SessionIds : DeleteSession(t, u, s)
      BY <2>2
    <3> DEFINE l == [NoLocals EXCEPT !.user = u, !.sid = s, !.pod = sessions[s].pod,
                                     !.tier = sessions[s].tier]
    <3>2. l.sid = s
      BY DEF NoLocals
    <3>3. /\ Goto(t, "delete_obo", l) /\ s \in DOMAIN sessions
          /\ UNCHANGED <<sessions, issued>>
      BY <3>1 DEF DeleteSession
    <3> HIDE DEF l
    <3> QED
      BY <1>1, <3>2, <3>3 DEF States, Minted, CreateStates, DeleteStates
  <2> QED
    BY <1>2, <2>1, <2>2 DEF Request
<1>3. ASSUME NEW t \in Tasks,
             \/ ExchangeFails(t) \/ RateLimited(t) \/ ListFails(t) \/ CallFails(t)
             \/ DeleteExchanged(t) \/ PatchPod(t) \/ CreatePod(t) \/ DeletePod(t)
             \/ (\E p \in WarmPods : ListIdle(t, p))
      PROVE  IdsUnique'
  <2>1. UNCHANGED <<sessions, issued>>
    BY <1>3 DEF ExchangeFails, RateLimited, ListFails, CallFails, DeleteExchanged,
                PatchPod, CreatePod, DeletePod, ListIdle
  <2>2. CASE Finish(t)
    BY <1>1, <2>1, <2>2 DEF Finish, States, Minted, CreateStates, DeleteStates
  <2>3. CASE DeleteExchanged(t)
    BY <1>1, <2>1, <2>3 DEF DeleteExchanged, States, Minted, CreateStates, DeleteStates
  <2>4. CASE PatchPod(t) /\ ~Finish(t)
    BY <1>1, <2>1, <2>4 DEF PatchPod, States, Minted, CreateStates, DeleteStates
  <2>5. CASE CreatePod(t) /\ ~Finish(t)
    BY <1>1, <2>1, <2>5 DEF CreatePod, States, Minted, CreateStates, DeleteStates
  <2>6. CASE DeletePod(t) /\ ~Finish(t)
    BY <1>1, <2>1, <2>6 DEF DeletePod, States, Minted, CreateStates, DeleteStates
  <2>7. CASE \E p \in WarmPods : ListIdle(t, p)
    <3>1. PICK p \in WarmPods : ListIdle(t, p)
      BY <2>7
    <3> DEFINE l == [loc[t] EXCEPT !.pod = p]
    <3>2. l.sid = loc[t].sid
      BY DEF TypeOK, Locals
    <3>3. Goto(t, "patch", l) /\ pc[t] = "list"
      BY <3>1 DEF ListIdle
    <3> HIDE DEF l
    <3> QED
      BY <1>1, <2>1, <3>2, <3>3 DEF States, Minted, CreateStates, DeleteStates
  <2> QED
    BY <1>3, <2>2, <2>3, <2>4, <2>5, <2>6, <2>7
    DEF ExchangeFails, RateLimited, ListFails, CallFails
<1>4. ASSUME NEW t \in Tasks, NEW s \in SessionIds, StartPerUser(t, s) \/ StartShared(t, s)
      PROVE  IdsUnique'
  <2>1. PICK to, l : to \in States /\ Goto(t, to, l) /\ l.sid = s /\ to \in Minted
    <3>1. CASE StartPerUser(t, s)
      <4> DEFINE l == [loc[t] EXCEPT !.sid = s, !.pod = PodName(s)]
      <4>1. l.sid = s
        BY DEF TypeOK, Locals
      <4>2. Goto(t, "create_pod", l)
        BY <3>1 DEF StartPerUser
      <4> HIDE DEF l
      <4> QED
        BY <4>1, <4>2 DEF Minted, States, CreateStates
    <3>2. CASE StartShared(t, s)
      <4> DEFINE l == [loc[t] EXCEPT !.sid = s, !.count = userCount[loc[t].user]]
      <4>1. l.sid = s
        BY DEF TypeOK, Locals
      <4>2. Goto(t, "list", l)
        BY <3>2 DEF StartShared
      <4> HIDE DEF l
      <4> QED
        BY <4>1, <4>2 DEF Minted, States, CreateStates
    <3> QED
      BY <1>4, <3>1, <3>2
  <2>2. /\ s \notin issued /\ issued' = issued \cup {s} /\ sessions' = sessions
    BY <1>4 DEF StartPerUser, StartShared
  <2>3. /\ pc'[t] = to /\ loc'[t] = l
        /\ \A r \in Tasks \ {t} : pc'[r] = pc[r] /\ loc'[r] = loc[r]
    BY <2>1, GotoFacts
  <2>4. to \notin DeleteStates
    BY <2>1 DEF Minted, CreateStates, DeleteStates
  <2> QED
    BY <2>1, <2>2, <2>3, <2>4 DEF IdsUnique
<1>5. ASSUME NEW t \in Tasks, BindDone(t) \/ CreateDone(t) \/ DeleteDone(t)
      PROVE  IdsUnique'
  <2>1. /\ pc'[t] = "idle" /\ issued' = issued
        /\ \A r \in Tasks \ {t} : pc'[r] = pc[r] /\ loc'[r] = loc[r]
    BY <1>5, GotoFacts DEF BindDone, CreateDone, DeleteDone, Finish
  <2>2. CASE BindDone(t) \/ CreateDone(t)
    <3>1. DOMAIN sessions' = DOMAIN sessions \cup {loc[t].sid} /\ pc[t] \in Minted
      BY <2>2 DEF BindDone, CreateDone, StoreSession, Minted, CreateStates
    <3> QED
      BY <2>1, <3>1 DEF IdsUnique, Minted, CreateStates, DeleteStates
  <2>3. CASE DeleteDone(t)
    <3>1. DOMAIN sessions' \subseteq DOMAIN sessions
      BY <2>3 DEF DeleteDone, Restrict
    <3> QED
      BY <2>1, <3>1 DEF IdsUnique, Minted, CreateStates, DeleteStates
  <2> QED
    BY <1>5, <2>2, <2>3
<1>6. CASE (\E p \in WarmPods : WarmPodReady(p)) \/ (\E p \in Pods : PodDies(p))
  BY <1>6 DEF WarmPodReady, PodDies, IdsUnique
<1>7. CASE Restart
  BY <1>7 DEF Restart, IdsUnique, Minted, CreateStates, DeleteStates
<1>8. CASE UNCHANGED vars
  BY <1>8 DEF vars, IdsUnique
<1> QED
  BY <1>2, <1>3, <1>4, <1>5, <1>6, <1>7, <1>8 DEF Next, Continue, Environment

-----------------------------------------------------------------------------
(* The store and the pods *)

\* A change of the pods that keeps the labels of the default-tier pods and
\* only moves phases forward.
PodsAge ==
  \A p \in Pods :
    /\ p \in SessionIds /\ pods[p].phase # "absent" =>
         pods'[p].owner = pods[p].owner /\ pods'[p].sid = pods[p].sid
    /\ pods[p].phase \in {"bound", "gone"} => pods'[p].phase \in {"bound", "gone"}
    /\ pods[p].phase = "gone" => pods'[p].phase = "gone"

\* Request t starts no default-tier pod but its own.
OthersUnborn(t) ==
  \A p \in SessionIds :
    pods[p].phase = "absent" =>
      pods'[p].phase = "absent" \/ (pc[t] = "create_pod" /\ p = loc[t].sid)

\* A stored session survives such a change.
LEMMA SessionAges ==
  ASSUME TypeInv, NEW s \in DOMAIN sessions, SessionOK(s),
         s \in DOMAIN sessions', sessions'[s] = sessions[s], PodsAge
  PROVE  SessionOK(s)'
<1>1. s \in SessionIds /\ s \in Pods /\ sessions[s] \in Session
  BY DEF TypeInv, TypeOK, Pods
<1>2. sessions[s].pod \in Pods
  BY <1>1 DEF Session
<1> QED
  BY <1>1, <1>2 DEF SessionOK, PodsAge

\* So does a suspended request whose session, if stored, stays as it is.
LEMMA TaskAges ==
  ASSUME TypeInv, NEW t \in Tasks, TaskOK(t), pc'[t] = pc[t], loc'[t] = loc[t],
         PodsAge, pc[t] = "create_pod" => pods'[loc[t].sid].phase = "absent",
         loc[t].sid \in DOMAIN sessions' /\ pc[t] \in DeleteStates =>
           /\ loc[t].sid \in DOMAIN sessions
           /\ sessions'[loc[t].sid] = sessions[loc[t].sid]
  PROVE  TaskOK(t)'
<1>1. pc[t] \in {"create_pod", "pod_created"} => loc[t].sid \in SessionIds /\ loc[t].sid \in Pods
  BY DEF TypeInv, LocalsOK, CreateStates, Pods
<1>2. pc[t] \in {"patch", "patched"} \cup DeleteStates => loc[t].pod \in Pods
  BY DEF TypeInv, LocalsOK, Pods
<1> QED
  BY <1>1, <1>2 DEF TaskOK, PodsAge, DeleteStates, TypeInv, LocalsOK

\* No step makes the store and the pods disagree.
LEMMA StoreNext ==
  TypeInv /\ TypeInv' /\ IdsUnique /\ StoreInv /\ [Next]_vars => StoreInv'
<1> SUFFICES ASSUME TypeInv, TypeInv', IdsUnique, StoreInv, [Next]_vars
             PROVE  StoreInv'
  OBVIOUS
<1> USE SessionsAssumption DEF store, external
<1>0. TypeOK /\ TypeOK'
  BY DEF TypeInv
<1>1. ASSUME NEW t \in Tasks, NEW to, NEW l, Goto(t, to, l), TaskOK(t)',
             sessions' = sessions, PodsAge, OthersUnborn(t), issued \subseteq issued'
      PROVE  StoreInv'
  <2>1. ASSUME NEW r \in Tasks \ {t} PROVE TaskOK(r)'
    <3>1. pc'[r] = pc[r] /\ loc'[r] = loc[r]
      BY <1>0, <1>1, GotoFacts
    <3>2. pc[r] = "create_pod" => pods'[loc[r].sid].phase = "absent"
      BY <1>1 DEF OthersUnborn, StoreInv, TaskOK, IdsUnique, Minted, CreateStates,
                  TypeInv, LocalsOK
    <3> QED
      BY <1>1, <3>1, <3>2, TaskAges DEF StoreInv
  <2>2. \A s \in DOMAIN sessions' : SessionOK(s)'
    BY <1>1, SessionAges DEF StoreInv
  <2>3. \A s \in SessionIds \ issued' : pods'[s].phase = "absent"
    BY <1>1 DEF StoreInv, OthersUnborn, IdsUnique, Minted, CreateStates
  <2> QED
    BY <1>1, <2>1, <2>2, <2>3 DEF StoreInv
<1>2. ASSUME pods' = pods PROVE PodsAge /\ \A t \in Tasks : OthersUnborn(t)
  BY <1>2 DEF PodsAge, OthersUnborn
<1>3. ASSUME NEW t \in Tasks, Finish(t), sessions' = sessions, PodsAge, OthersUnborn(t),
             issued \subseteq issued'
      PROVE  StoreInv'
  <2>1. pc'[t] = "idle"
    BY <1>0, <1>3, GotoFacts DEF Finish
  <2>2. TaskOK(t)'
    BY <2>1 DEF TaskOK, DeleteStates
  <2> QED
    BY <1>1, <1>3, <2>2 DEF Finish
<1>4. ASSUME NEW t \in Tasks,
             ExchangeFails(t) \/ RateLimited(t) \/ ListFails(t) \/ CallFails(t)
      PROVE  StoreInv'
  BY <1>2, <1>3, <1>4 DEF ExchangeFails, RateLimited, ListFails, CallFails
<1>5. ASSUME NEW t \in Tasks, NEW u \in Users, NEW i \in Images, NEW tier \in Tiers,
             CreateSession(t, u, i, tier)
      PROVE  StoreInv'
  <2>1. pc'[t] = "create_obo"
    BY <1>0, <1>5, GotoFacts DEF CreateSession
  <2>2. TaskOK(t)'
    BY <2>1 DEF TaskOK, DeleteStates
  <2> QED
    BY <1>1, <1>2, <1>5, <2>2 DEF CreateSession
<1>6. ASSUME NEW t \in Tasks, NEW u \in Users, NEW s \in SessionIds, DeleteSession(t, u, s)
      PROVE  StoreInv'
  <2> DEFINE l == [NoLocals EXCEPT !.user = u, !.sid = s, !.pod = sessions[s].pod,
                                   !.tier = sessions[s].tier]
  <2>1. l.sid = s /\ l.pod = sessions[s].pod /\ l.tier = sessions[s].tier
    BY DEF NoLocals
  <2>2. Goto(t, "delete_obo", l) /\ s \in DOMAIN sessions /\ UNCHANGED <<sessions, pods, issued>>
    BY <1>6 DEF DeleteSession
  <2> HIDE DEF l
  <2>3. pc'[t] = "delete_obo" /\ loc'[t] = l
    BY <1>0, <2>2, GotoFacts
  <2>4. TaskOK(t)'
    BY <2>1, <2>2, <2>3 DEF TaskOK, StoreInv, SessionOK
  <2> QED
    BY <1>1, <1>2, <2>2, <2>4
<1>7. ASSUME NEW t \in Tasks, NEW s \in SessionIds, StartPerUser(t, s)
      PROVE  StoreInv'
  <2> DEFINE l == [loc[t] EXCEPT !.sid = s, !.pod = PodName(s)]
  <2>1. l.sid = s
    BY <1>0 DEF TypeOK, Locals
  <2>2. Goto(t, "create_pod", l) /\ s \notin issued /\ UNCHANGED <<sessions, pods>>
        /\ issued \subseteq issued'
    BY <1>7 DEF StartPerUser
  <2> HIDE DEF l
  <2>3. pc'[t] = "create_pod" /\ loc'[t] = l
    BY <1>0, <2>2, GotoFacts
  <2>4. TaskOK(t)'
    BY <2>1, <2>2, <2>3 DEF TaskOK, StoreInv, DeleteStates
  <2> QED
    BY <1>1, <1>2, <2>2, <2>4
<1>8. ASSUME NEW t \in Tasks, NEW s \in SessionIds, StartShared(t, s)
      PROVE  StoreInv'
  <2>1. pc'[t] = "list"
    BY <1>0, <1>8, GotoFacts DEF StartShared
  <2>2. TaskOK(t)'
    BY <2>1 DEF TaskOK, DeleteStates
  <2> QED
    BY <1>1, <1>2, <1>8, <2>2 DEF StartShared
<1>9. ASSUME NEW t \in Tasks, NEW p \in WarmPods, ListIdle(t, p)
      PROVE  StoreInv'
  <2> DEFINE l == [loc[t] EXCEPT !.pod = p]
  <2>1. l.pod = p /\ l.image = loc[t].image
    BY <1>0 DEF TypeOK, Locals
  <2>2. Goto(t, "patch", l) /\ PodTag[p] = TagOf[loc[t].image]
        /\ UNCHANGED <<sessions, pods, issued>>
    BY <1>9 DEF ListIdle, Candidates
  <2> HIDE DEF l
  <2>3. pc'[t] = "patch" /\ loc'[t] = l
    BY <1>0, <2>2, GotoFacts
  <2>4. TaskOK(t)'
    BY <2>1, <2>2, <2>3 DEF TaskOK, DeleteStates
  <2> QED
    BY <1>1, <1>2, <2>2, <2>4
<1>10. ASSUME NEW t \in Tasks, DeleteExchanged(t) PROVE StoreInv'
  <2>1. pc[t] = "delete_obo" /\ pc'[t] = "delete_pod" /\ loc'[t] = loc[t]
        /\ UNCHANGED <<sessions, pods, issued>>
    BY <1>0, <1>10, GotoFacts DEF DeleteExchanged
  <2>2. TaskOK(t)'
    BY <2>1 DEF TaskOK, StoreInv, DeleteStates
  <2> QED
    BY <1>1, <1>2, <1>10, <2>1, <2>2 DEF DeleteExchanged
<1>11. ASSUME NEW t \in Tasks, NEW from, NEW to, NEW q \in Pods, q = loc[t].pod,
              <<from, to>> \in {<<"patch", "patched">>, <<"create_pod", "pod_created">>,
                               <<"delete_pod", "pod_deleted">>},
              pc[t] = from, Goto(t, to, loc[t]) \/ Finish(t),
              \A p \in Pods \ {q} : pods'[p] = pods[p],
              from = "delete_pod" => pods'[q] = [pods[q] EXCEPT !.phase = "gone"],
              from # "delete_pod" => pods'[q] = BoundPod(loc[t]),
              from = "patch" => pods[q].phase \in {"idle", "bound"},
              UNCHANGED <<sessions, issued>>
       PROVE  StoreInv'
  <2>1. pods[q] \in Pod /\ loc[t].sid \in SessionIds
    BY <1>0, <1>11 DEF TypeOK, TypeInv, LocalsOK, CreateStates, DeleteStates
  <2>2. from = "patch" => q \in WarmPods /\ q \notin SessionIds
    BY <1>11 DEF TypeInv, LocalsOK
  <2>3. from = "create_pod" => q = loc[t].sid /\ pods[q].phase = "absent"
    BY <1>11 DEF TypeInv, LocalsOK, StoreInv, TaskOK
  <2>4. from = "delete_pod" => pods[q].phase \in {"bound", "gone"}
    BY <1>11 DEF StoreInv, TaskOK, DeleteStates
  <2>5. PodsAge
    BY <1>11, <2>1, <2>2, <2>3, <2>4 DEF PodsAge, BoundPod, Pod
  <2>6. OthersUnborn(t)
    BY <1>11, <2>1, <2>2, <2>3, <2>4 DEF OthersUnborn, Pods
  <2>7. CASE Finish(t)
    BY <1>3, <1>11, <2>5, <2>6, <2>7
  <2>8. CASE Goto(t, to, loc[t])
    <3>1. pc'[t] = to /\ loc'[t] = loc[t]
      BY <1>0, <2>8, GotoFacts
    <3>2. TaskOK(t)'
      BY <1>11, <2>1, <2>3, <2>4, <3>1
      DEF TaskOK, StoreInv, BoundPod, DeleteStates, Pod
    <3> QED
      BY <1>1, <1>11, <2>5, <2>6, <2>8, <3>2
  <2> QED
    BY <1>11, <2>7, <2>8
<1>12. ASSUME NEW t \in Tasks, PatchPod(t) \/ CreatePod(t) \/ DeletePod(t)
       PROVE  StoreInv'
  <2>1. loc[t].pod \in Pods
    BY <1>12 DEF TypeInv, LocalsOK, PatchPod, CreatePod, DeletePod, CreateStates,
                 DeleteStates, Pods
  <2>2. CASE PatchPod(t)
    BY <1>0, <1>11, <2>1, <2>2 DEF PatchPod, TypeOK
  <2>3. CASE CreatePod(t)
    BY <1>0, <1>11, <2>1, <2>3 DEF CreatePod, TypeOK
  <2>4. CASE DeletePod(t)
    BY <1>0, <1>11, <2>1, <2>4 DEF DeletePod, TypeOK
  <2> QED
    BY <1>12, <2>2, <2>3, <2>4
<1>13. ASSUME NEW t \in Tasks, BindDone(t) \/ CreateDone(t) PROVE StoreInv'
  <2>1. /\ pc'[t] = "idle" /\ UNCHANGED <<pods, issued>> /\ StoreSession(loc[t])
        /\ \A r \in Tasks \ {t} : pc'[r] = pc[r] /\ loc'[r] = loc[r]
        /\ pc[t] \in {"patched", "pod_created"} /\ pc[t] \in Minted
    BY <1>0, <1>13, GotoFacts DEF BindDone, CreateDone, Finish, Minted, CreateStates
  <2>2. /\ loc[t].sid \notin DOMAIN sessions
        /\ \A r \in Tasks \ {t} : pc[r] \in DeleteStates => loc[r].sid # loc[t].sid
    BY <2>1 DEF IdsUnique
  <2>3. /\ DOMAIN sessions' = DOMAIN sessions \cup {loc[t].sid}
        /\ \A s \in DOMAIN sessions : sessions'[s] = sessions[s]
        /\ sessions'[loc[t].sid] = [owner |-> loc[t].user, pod |-> loc[t].pod,
                                    tier |-> loc[t].tier, image |-> loc[t].image]
    BY <2>1, <2>2 DEF StoreSession
  <2>4. \A s \in DOMAIN sessions : SessionOK(s)'
    BY <1>2, <2>1, <2>3, SessionAges DEF StoreInv
  <2>5. ASSUME NEW s, s = loc[t].sid PROVE SessionOK(s)'
    <3>1. CASE pc[t] = "patched"
      <4>1. /\ loc[t].tier = Shared /\ loc[t].pod \in WarmPods
            /\ PodTag[loc[t].pod] = TagOf[loc[t].image]
            /\ pods[loc[t].pod].phase \in {"bound", "gone"}
        BY <3>1 DEF TypeInv, LocalsOK, StoreInv, TaskOK
      <4> QED
        BY <2>1, <2>3, <2>5, <4>1 DEF SessionOK, PerUser, Shared
    <3>2. CASE pc[t] = "pod_created"
      <4>1. /\ loc[t].tier = PerUser /\ loc[t].pod = loc[t].sid
            /\ pods[loc[t].sid].owner = loc[t].user
            /\ pods[loc[t].sid].sid = loc[t].sid
            /\ pods[loc[t].sid].phase \in {"bound", "gone"}
        BY <3>2 DEF TypeInv, LocalsOK, StoreInv, TaskOK
      <4> QED
        BY <2>1, <2>3, <2>5, <4>1 DEF SessionOK, PerUser, Shared
    <3> QED
      BY <2>1, <3>1, <3>2
  <2>6. ASSUME NEW r \in Tasks \ {t} PROVE TaskOK(r)'
    <3>1. pc[r] = "create_pod" => pods'[loc[r].sid].phase = "absent"
      BY <2>1 DEF StoreInv, TaskOK
    <3>2. loc[r].sid \in DOMAIN sessions' /\ pc[r] \in DeleteStates =>
            /\ loc[r].sid \in DOMAIN sessions
            /\ sessions'[loc[r].sid] = sessions[loc[r].sid]
      BY <2>2, <2>3
    <3> QED
      BY <1>2, <2>1, <3>1, <3>2, TaskAges DEF StoreInv
  <2>7. TaskOK(t)'
    BY <2>1 DEF TaskOK, DeleteStates
  <2> QED
    BY <2>1, <2>3, <2>4, <2>5, <2>6, <2>7 DEF StoreInv
<1>14. ASSUME NEW t \in Tasks, DeleteDone(t) PROVE StoreInv'
  <2>1. /\ pc'[t] = "idle" /\ UNCHANGED <<pods, issued>>
        /\ \A r \in Tasks \ {t} : pc'[r] = pc[r] /\ loc'[r] = loc[r]
        /\ DOMAIN sessions' = DOMAIN sessions \ {loc[t].sid}
        /\ \A s \in DOMAIN sessions' : sessions'[s] = sessions[s]
    BY <1>0, <1>14, GotoFacts DEF DeleteDone, Finish, Restrict
  <2>2. \A s \in DOMAIN sessions' : SessionOK(s)'
    BY <1>2, <2>1, SessionAges DEF StoreInv
  <2>3. \A r \in Tasks \ {t} : TaskOK(r)'
    BY <1>2, <2>1, TaskAges DEF StoreInv, TaskOK
  <2>4. TaskOK(t)'
    BY <2>1 DEF TaskOK, DeleteStates
  <2> QED
    BY <2>1, <2>2, <2>3, <2>4 DEF StoreInv
<1>15. ASSUME NEW p \in Pods, PodDies(p) \/ (p \in WarmPods /\ WarmPodReady(p))
       PROVE  StoreInv'
  <2>1. UNCHANGED <<pc, loc, sessions, issued>>
    BY <1>15 DEF PodDies, WarmPodReady
  <2>2. PodsAge /\ \A q \in SessionIds : pods[q].phase = "absent" => pods'[q].phase = "absent"
    BY <1>0, <1>15 DEF PodDies, WarmPodReady, PodsAge, TypeOK, Pod, Pods
  <2>3. \A s \in DOMAIN sessions' : SessionOK(s)'
    BY <2>1, <2>2, SessionAges DEF StoreInv
  <2>4. \A t \in Tasks : pc[t] = "create_pod" => pods'[loc[t].sid].phase = "absent"
    BY <2>2 DEF StoreInv, TaskOK, TypeInv, LocalsOK, CreateStates
  <2>5. \A t \in Tasks : TaskOK(t)'
    BY <2>1, <2>2, <2>4, TaskAges DEF StoreInv
  <2> QED
    BY <2>1, <2>2, <2>3, <2>5 DEF StoreInv
<1>16. CASE Restart
  <2>1. /\ DOMAIN sessions' = {} /\ UNCHANGED <<pods, issued>>
        /\ \A t \in Tasks : pc'[t] = "idle"
    BY <1>16 DEF Restart
  <2> QED
    BY <2>1 DEF StoreInv, TaskOK, DeleteStates
<1>17. CASE UNCHANGED vars
  BY <1>17 DEF vars, StoreInv, SessionOK, TaskOK
<1> QED
  BY <1>4, <1>5, <1>6, <1>7, <1>8, <1>9, <1>10, <1>12, <1>13, <1>14, <1>15, <1>16, <1>17
  DEF Next, Request, Continue, Environment, Pods

\* The inductive invariant of the store: types, ids, store and pods together.
SessionsInv == TypeInv /\ IdsUnique /\ StoreInv

LEMMA SessionsInvariant == Spec => []SessionsInv
<1>1. Init => SessionsInv
  <2> SUFFICES ASSUME Init PROVE SessionsInv
    OBVIOUS
  <2>1. IdsUnique
    BY DEF Init, IdsUnique, Minted, CreateStates, DeleteStates
  <2>2. StoreInv
    BY DEF Init, StoreInv, TaskOK, DeleteStates, Pods
  <2> QED
    BY <2>1, <2>2, TypeInit DEF SessionsInv
<1>2. SessionsInv /\ [Next]_vars => SessionsInv'
  BY TypeNext, IdsNext, StoreNext DEF SessionsInv
<1> QED
  BY <1>1, <1>2, PTL DEF Spec

\* No bind of the shared tier, and no other session, ever reaches the pod of a
\* default-tier session.
THEOREM PerUserTierIsolated == Spec => []PerUserTierExclusive
<1>1. SessionsInv => PerUserTierExclusive
  <2> SUFFICES ASSUME SessionsInv, NEW s \in DOMAIN sessions, sessions[s].tier = PerUser
               PROVE  /\ \A r \in DOMAIN sessions \ {s} : sessions[r].pod # sessions[s].pod
                      /\ pods[sessions[s].pod].owner = sessions[s].owner
                      /\ pods[sessions[s].pod].sid = s
    BY DEF PerUserTierExclusive
  <2>1. SessionOK(s) /\ s \in SessionIds
    BY DEF SessionsInv, StoreInv, TypeInv, TypeOK
  <2>2. ASSUME NEW r \in DOMAIN sessions \ {s} PROVE sessions[r].pod # s
    <3>1. SessionOK(r) /\ sessions[r].tier \in Tiers
      BY DEF SessionsInv, StoreInv, TypeInv, TypeOK, Session
    <3> QED
      BY <2>1, <3>1, SessionsAssumption DEF SessionOK, Tiers
  <2> QED
    BY <2>1, <2>2 DEF SessionOK
<1> QED
  BY <1>1, SessionsInvariant, PTL

\* A pod in use is never offered to another bind by the store's own steps.
THEOREM StoredPodsStayBound == Spec => []StoredPodsNotIdle
<1>1. SessionsInv => StoredPodsNotIdle
  BY DEF SessionsInv, StoreInv, SessionOK, StoredPodsNotIdle
<1> QED
  BY <1>1, SessionsInvariant, PTL

\* One step of the counter against one step of the store.
LEMMA OvercountNext ==
  SessionsInv /\ PlatformNeverOvercounts /\ [Next]_vars => PlatformNeverOvercounts'
<1> SUFFICES ASSUME SessionsInv, PlatformNeverOvercounts, [Next]_vars
             PROVE  PlatformNeverOvercounts'
  OBVIOUS
<1> USE SessionsAssumption DEF SessionsInv, TypeInv, store, external
<1>0. /\ IsFiniteSet(SharedSessions) /\ Cardinality(SharedSessions) \in Nat
      /\ platformCount \in Nat
  <2>1. SharedSessions \subseteq SessionIds
    BY DEF SharedSessions, TypeOK
  <2> QED
    BY <2>1, FS_Subset, FS_CardinalityType DEF TypeOK
<1>1. ASSUME NEW t \in Tasks, BindDone(t) PROVE PlatformNeverOvercounts'
  <2>1. loc[t].tier = Shared /\ loc[t].sid \notin DOMAIN sessions
    BY <1>1 DEF BindDone, LocalsOK, IdsUnique, Minted, CreateStates
  <2>2. SharedSessions' = SharedSessions \cup {loc[t].sid}
    BY <1>1, <2>1 DEF BindDone, StoreSession, SharedSessions
  <2>3. Cardinality(SharedSessions') = Cardinality(SharedSessions) + 1
    BY <1>0, <2>1, <2>2, FS_AddElement DEF SharedSessions
  <2>4. platformCount' = platformCount + 1
    BY <1>1 DEF BindDone, CountBind
  <2> QED
    BY <1>0, <2>3, <2>4 DEF PlatformNeverOvercounts
<1>2. ASSUME NEW t \in Tasks, CreateDone(t) PROVE PlatformNeverOvercounts'
  <2>1. loc[t].tier = PerUser /\ loc[t].sid \notin DOMAIN sessions
    BY <1>2 DEF CreateDone, LocalsOK, IdsUnique, Minted, CreateStates
  <2>2. SharedSessions' = SharedSessions /\ platformCount' = platformCount
    BY <1>2, <2>1 DEF CreateDone, StoreSession, SharedSessions, PerUser, Shared
  <2> QED
    BY <2>2 DEF PlatformNeverOvercounts
<1>3. ASSUME NEW t \in Tasks, DeleteDone(t) PROVE PlatformNeverOvercounts'
  <2>1. SharedSessions' = SharedSessions \ {loc[t].sid}
    BY <1>3 DEF DeleteDone, Restrict, SharedSessions
  <2>2. Cardinality(SharedSessions') = IF loc[t].sid \in SharedSessions
                                       THEN Cardinality(SharedSessions) - 1
                                       ELSE Cardinality(SharedSessions)
    BY <1>0, <2>1, FS_RemoveElement
  <2>3. loc[t].sid \in SharedSessions => loc[t].tier = Shared
    BY <1>3 DEF DeleteDone, StoreInv, TaskOK, DeleteStates, SharedSessions
  <2>4. /\ platformCount' =< platformCount /\ platformCount' \in Nat
        /\ loc[t].tier = Shared => platformCount' = IF platformCount > 0
                                                    THEN platformCount - 1 ELSE 0
    BY <1>0, <1>3 DEF DeleteDone, ReleaseSlot, Released
  <2>5. Cardinality(SharedSessions') \in Nat
    BY <1>0, <2>1, FS_RemoveElement, FS_CardinalityType
  <2> QED
    <3>1. CASE loc[t].sid \in SharedSessions
      BY <1>0, <2>2, <2>3, <2>4, <2>5, <3>1 DEF PlatformNeverOvercounts
    <3>2. CASE loc[t].sid \notin SharedSessions
      BY <1>0, <2>2, <2>4, <2>5, <3>2 DEF PlatformNeverOvercounts
    <3> QED
      BY <3>1, <3>2
<1>4. CASE Restart
  <2>1. SharedSessions' = {} /\ platformCount' = 0
    BY <1>4 DEF Restart, SharedSessions
  <2> QED
    BY <2>1, FS_EmptySet DEF PlatformNeverOvercounts
<1>5. CASE UNCHANGED <<sessions, platformCount>>
  BY <1>5 DEF PlatformNeverOvercounts, SharedSessions
<1>6. ASSUME NEW t \in Tasks,
             \/ Request(t) \/ (Continue(t) /\ ~BindDone(t) /\ ~CreateDone(t) /\ ~DeleteDone(t))
      PROVE  UNCHANGED <<sessions, platformCount>>
  BY <1>6 DEF Request, Continue, CreateSession, DeleteSession, ExchangeFails, StartPerUser,
    RateLimited, StartShared, ListIdle, ListFails, PatchPod, CreatePod, CallFails,
    DeleteExchanged, DeletePod
<1>7. (\E p \in WarmPods : WarmPodReady(p)) \/ (\E p \in Pods : PodDies(p)) \/ UNCHANGED vars
      => UNCHANGED <<sessions, platformCount>>
  BY DEF WarmPodReady, PodDies, vars
<1> QED
  BY <1>1, <1>2, <1>3, <1>4, <1>5, <1>6, <1>7 DEF Next, Environment

\* Whatever creates, deletes, failures and restarts interleave, the platform
\* counter never counts more than the shared sessions that are stored.
THEOREM PlatformCountSound == Spec => []PlatformNeverOvercounts
<1>1. Init => PlatformNeverOvercounts
  <2> SUFFICES ASSUME Init PROVE PlatformNeverOvercounts
    OBVIOUS
  <2>1. SharedSessions = {} /\ platformCount = 0
    BY DEF Init, SharedSessions
  <2> QED
    BY <2>1, FS_EmptySet DEF PlatformNeverOvercounts
<1> QED
  BY <1>1, OvercountNext, SessionsInvariant, PTL DEF Spec

-----------------------------------------------------------------------------
(* One pod per session, where no two binds overlap between list and count *)

\* What the code leaves to chance: no other request holds a pod it has picked
\* from the list and not yet counted.
PatchesApart ==
  \A r, t \in Tasks :
    pc[r] \in {"patch", "patched"} /\ pc[t] \in {"patch", "patched"} => r = t

\* The strengthening: the pod a bind has picked is not any session's.
PickedFree ==
  \A t \in Tasks : pc[t] \in {"patch", "patched"} =>
    \A s \in DOMAIN sessions : sessions[s].pod # loc[t].pod

\* Two sessions get one pod only where two binds overlap.
LEMMA OnePodNext ==
  SessionsInv /\ PatchesApart /\ PickedFree /\ OnePodPerSession /\ [Next]_vars
    => PickedFree' /\ OnePodPerSession'
<1> SUFFICES ASSUME SessionsInv, PatchesApart, PickedFree, OnePodPerSession, [Next]_vars
             PROVE  PickedFree' /\ OnePodPerSession'
  OBVIOUS
<1> USE SessionsAssumption DEF store, external
<1>0. TypeOK /\ LocalsOK /\ IdsUnique /\ StoreInv
  BY DEF SessionsInv, TypeInv
<1>1. ASSUME NEW t \in Tasks, NEW to, NEW l, Goto(t, to, l), sessions' = sessions,
             to \in {"patch", "patched"} =>
               \A s \in DOMAIN sessions : sessions[s].pod # l.pod
      PROVE  PickedFree' /\ OnePodPerSession'
  BY <1>0, <1>1, GotoFacts DEF PickedFree, OnePodPerSession
<1>2. ASSUME NEW t \in Tasks, \A r \in Tasks \ {t} : pc'[r] = pc[r] /\ loc'[r] = loc[r],
             pc'[t] \notin {"patch", "patched"}, sessions' = sessions
      PROVE  PickedFree' /\ OnePodPerSession'
  BY <1>2 DEF PickedFree, OnePodPerSession
<1>3. ASSUME NEW t \in Tasks, Request(t) PROVE PickedFree' /\ OnePodPerSession'
  <2>1. /\ \A r \in Tasks \ {t} : pc'[r] = pc[r] /\ loc'[r] = loc[r]
        /\ pc'[t] \in {"create_obo", "delete_obo"} /\ sessions' = sessions
    BY <1>0, <1>3 DEF Request, CreateSession, DeleteSession, Goto, TypeOK
  <2> QED
    BY <1>2, <2>1
<1>4. ASSUME NEW t \in Tasks,
             \/ ExchangeFails(t) \/ RateLimited(t) \/ ListFails(t) \/ CallFails(t)
             \/ DeleteExchanged(t) \/ PatchPod(t) \/ CreatePod(t) \/ DeletePod(t)
             \/ (\E s \in SessionIds : StartPerUser(t, s) \/ StartShared(t, s))
      PROVE  PickedFree' /\ OnePodPerSession'
  <2>1. sessions' = sessions
    BY <1>4 DEF ExchangeFails, RateLimited, ListFails, CallFails, DeleteExchanged,
                PatchPod, CreatePod, DeletePod, StartPerUser, StartShared
  <2>2. CASE PatchPod(t) /\ ~Finish(t)
    <3>1. Goto(t, "patched", loc[t]) /\ pc[t] = "patch"
      BY <2>2 DEF PatchPod
    <3> QED
      BY <1>1, <2>1, <3>1 DEF PickedFree
  <2>3. CASE Finish(t) \/ ~PatchPod(t)
    <3>1. /\ \A r \in Tasks \ {t} : pc'[r] = pc[r] /\ loc'[r] = loc[r]
          /\ pc'[t] \notin {"patch", "patched"}
      BY <1>0, <1>4, <2>3
      DEF ExchangeFails, RateLimited, ListFails, CallFails, DeleteExchanged, CreatePod,
          DeletePod, StartPerUser, StartShared, Finish, Goto, TypeOK
    <3> QED
      BY <1>2, <2>1, <3>1
  <2> QED
    BY <2>2, <2>3
<1>5. ASSUME NEW t \in Tasks, NEW p \in WarmPods, ListIdle(t, p)
      PROVE  PickedFree' /\ OnePodPerSession'
  <2> DEFINE l == [loc[t] EXCEPT !.pod = p]
  <2>1. l.pod = p
    BY <1>0 DEF TypeOK, Locals
  <2>2. Goto(t, "patch", l) /\ pods[p].phase = "idle" /\ sessions' = sessions
    BY <1>5 DEF ListIdle, Candidates
  <2>3. \A s \in DOMAIN sessions : sessions[s].pod # p
    BY <1>0, <2>2 DEF StoreInv, SessionOK
  <2> HIDE DEF l
  <2> QED
    BY <1>1, <2>1, <2>2, <2>3
<1>6. ASSUME NEW t \in Tasks, BindDone(t) \/ CreateDone(t)
      PROVE  PickedFree' /\ OnePodPerSession'
  <2>1. /\ pc'[t] = "idle" /\ StoreSession(loc[t])
        /\ \A r \in Tasks \ {t} : pc'[r] = pc[r] /\ loc'[r] = loc[r]
        /\ pc[t] \in {"patched", "pod_created"} /\ pc[t] \in Minted
    BY <1>0, <1>6, GotoFacts DEF BindDone, CreateDone, Finish, Minted, CreateStates
  <2>2. loc[t].sid \notin DOMAIN sessions
    BY <1>0, <2>1 DEF IdsUnique
  <2>3. /\ DOMAIN sessions' = DOMAIN sessions \cup {loc[t].sid}
        /\ \A s \in DOMAIN sessions : sessions'[s] = sessions[s]
        /\ sessions'[loc[t].sid].pod = loc[t].pod
    BY <2>1, <2>2 DEF StoreSession
  <2>4. \A s \in DOMAIN sessions : sessions[s].pod # loc[t].pod
    <3>1. CASE pc[t] = "patched"
      BY <3>1 DEF PickedFree
    <3>2. CASE pc[t] = "pod_created"
      <4>1. loc[t].pod = loc[t].sid /\ loc[t].sid \in SessionIds
        BY <1>0, <3>2 DEF LocalsOK, CreateStates
      <4>2. \A s \in DOMAIN sessions : sessions[s].tier \in Tiers /\ SessionOK(s)
        BY <1>0 DEF TypeOK, Session, StoreInv
      <4> QED
        BY <2>2, <4>1, <4>2 DEF SessionOK, Tiers
    <3> QED
      BY <2>1, <3>1, <3>2
  <2>5. OnePodPerSession'
    BY <2>3, <2>4 DEF OnePodPerSession
  <2>6. ASSUME NEW r \in Tasks, pc'[r] \in {"patch", "patched"}
        PROVE  \A s \in DOMAIN sessions' : sessions'[s].pod # loc'[r].pod
    <3>1. r # t /\ pc[r] = pc'[r] /\ loc[r] = loc'[r]
      BY <2>1, <2>6
    <3>2. pc[t] = "pod_created"
      BY <2>1, <2>6, <3>1 DEF PatchesApart
    <3>3. loc[t].pod \in SessionIds /\ loc[r].pod \in WarmPods
      BY <1>0, <2>6, <3>1, <3>2 DEF LocalsOK, CreateStates
    <3> QED
      BY <2>3, <2>6, <3>1, <3>3 DEF PickedFree
  <2> QED
    BY <2>5, <2>6 DEF PickedFree
<1>7. ASSUME NEW t \in Tasks, DeleteDone(t) PROVE PickedFree' /\ OnePodPerSession'
  <2>1. /\ pc'[t] = "idle"
        /\ \A r \in Tasks \ {t} : pc'[r] = pc[r] /\ loc'[r] = loc[r]
        /\ DOMAIN sessions' \subseteq DOMAIN sessions
        /\ \A s \in DOMAIN sessions' : sessions'[s] = sessions[s]
    BY <1>0, <1>7, GotoFacts DEF DeleteDone, Finish, Restrict
  <2> QED
    BY <2>1 DEF PickedFree, OnePodPerSession
<1>8. CASE Environment \/ UNCHANGED vars
  BY <1>8 DEF Environment, WarmPodReady, PodDies, Restart, vars, PickedFree, OnePodPerSession
<1> QED
  BY <1>3, <1>4, <1>5, <1>6, <1>7, <1>8 DEF Next, Continue

\* One session, one pod: it fails only where two requests pick a pod before
\* either has counted its own (the overlap of the run SessionsOnePod).
THEOREM OnePodWhereBindsApart == Spec /\ []PatchesApart => []OnePodPerSession
<1>1. Init => PickedFree /\ OnePodPerSession
  BY DEF Init, PickedFree, OnePodPerSession
<1> QED
  BY <1>1, OnePodNext, SessionsInvariant, PTL DEF Spec

-----------------------------------------------------------------------------
(* The counters against the sessions they count *)

LEMMA SharedFinite ==
  ASSUME TypeOK, NEW u \in Users
  PROVE  /\ IsFiniteSet(SharedOf(u)) /\ Cardinality(SharedOf(u)) \in Nat
         /\ IsFiniteSet(SharedSessions) /\ Cardinality(SharedSessions) \in Nat
         /\ userCount[u] \in Nat /\ platformCount \in Nat
<1>1. SharedOf(u) \subseteq SessionIds /\ SharedSessions \subseteq SessionIds
  BY DEF SharedOf, SharedSessions, TypeOK
<1> QED
  BY <1>1, SessionsAssumption, FS_Subset, FS_CardinalityType DEF TypeOK

\* A bind adds its session to those of its user, and to no other's.
LEMMA BindAdds ==
  ASSUME SessionsInv, NEW t \in Tasks, BindDone(t)
  PROVE  /\ loc[t].user \in Users /\ loc[t].count \in Nat
         /\ loc[t].sid \notin DOMAIN sessions
         /\ loc[t].sid \notin SharedSessions
         /\ SharedSessions' = SharedSessions \cup {loc[t].sid}
         /\ \A u \in Users :
              SharedOf(u)' = IF u = loc[t].user THEN SharedOf(u) \cup {loc[t].sid}
                                                ELSE SharedOf(u)
         /\ \A u \in Users :
              userCount'[u] = IF u = loc[t].user THEN loc[t].count + 1 ELSE userCount[u]
         /\ platformCount' = platformCount + 1
<1> USE DEF SessionsInv, TypeInv
<1>1. /\ loc[t].user \in Users /\ loc[t].count \in Nat /\ loc[t].tier = Shared
      /\ loc[t].sid \notin DOMAIN sessions
  BY DEF BindDone, LocalsOK, IdsUnique, Minted, CreateStates, TypeOK, Locals
<1>2. /\ DOMAIN sessions' = DOMAIN sessions \cup {loc[t].sid}
      /\ \A s \in DOMAIN sessions : sessions'[s] = sessions[s]
      /\ sessions'[loc[t].sid].tier = Shared /\ sessions'[loc[t].sid].owner = loc[t].user
  BY <1>1 DEF BindDone, StoreSession
<1>3. SharedSessions' = SharedSessions \cup {loc[t].sid}
  BY <1>2 DEF SharedSessions
<1>4. ASSUME NEW u \in Users
      PROVE  SharedOf(u)' = IF u = loc[t].user THEN SharedOf(u) \cup {loc[t].sid}
                                               ELSE SharedOf(u)
  <2>1. SharedOf(u)' = {s \in SharedSessions' : sessions'[s].owner = u}
    BY DEF SharedOf
  <2>2. \A s \in SharedSessions : sessions'[s] = sessions[s]
    BY <1>2 DEF SharedSessions
  <2> QED
    BY <1>2, <1>3, <2>1, <2>2 DEF SharedOf
<1>5. /\ platformCount' = platformCount + 1
      /\ \A u \in Users :
           userCount'[u] = IF u = loc[t].user THEN loc[t].count + 1 ELSE userCount[u]
  BY <1>1 DEF BindDone, CountBind, TypeOK
<1> QED
  BY <1>1, <1>3, <1>4, <1>5 DEF SharedSessions

\* A default-tier create adds to nobody's shared sessions.
LEMMA CreateAddsNone ==
  ASSUME SessionsInv, NEW t \in Tasks, CreateDone(t)
  PROVE  /\ SharedSessions' = SharedSessions
         /\ \A u \in Users : SharedOf(u)' = SharedOf(u)
         /\ DOMAIN sessions \subseteq DOMAIN sessions'
         /\ \A s \in DOMAIN sessions : sessions'[s] = sessions[s]
<1> USE DEF SessionsInv, TypeInv
<1>1. loc[t].tier = PerUser /\ loc[t].sid \notin DOMAIN sessions
  BY DEF CreateDone, LocalsOK, IdsUnique, Minted, CreateStates
<1>2. /\ DOMAIN sessions' = DOMAIN sessions \cup {loc[t].sid}
      /\ \A s \in DOMAIN sessions : sessions'[s] = sessions[s]
      /\ sessions'[loc[t].sid].tier = PerUser
  BY <1>1 DEF CreateDone, StoreSession
<1>3. SharedSessions' = SharedSessions
  BY <1>1, <1>2 DEF SharedSessions, PerUser, Shared
<1>4. ASSUME NEW u \in Users PROVE SharedOf(u)' = SharedOf(u)
  BY <1>2, <1>3 DEF SharedOf, SharedSessions
<1> QED
  BY <1>2, <1>3, <1>4

\* A delete takes its session from those of its user, and gives back one slot
\* of that user and of the platform when the session was shared.
LEMMA DeleteTakes ==
  ASSUME SessionsInv, NEW t \in Tasks, DeleteDone(t)
  PROVE  /\ SharedSessions' = SharedSessions \ {loc[t].sid}
         /\ \A u \in Users : SharedOf(u)' = SharedOf(u) \ {loc[t].sid}
         /\ loc[t].tier = Shared =>
              /\ platformCount' = Released(platformCount)
              /\ \A u \in Users : userCount'[u] = IF u = loc[t].user
                                                  THEN Released(userCount[u])
                                                  ELSE userCount[u]
         /\ loc[t].tier # Shared => UNCHANGED <<userCount, platformCount>>
         /\ loc[t].sid \in DOMAIN sessions =>
              (loc[t].sid \in SharedSessions <=> loc[t].tier = Shared)
<1> USE DEF SessionsInv, TypeInv
<1>1. /\ DOMAIN sessions' = DOMAIN sessions \ {loc[t].sid}
      /\ \A s \in DOMAIN sessions' : sessions'[s] = sessions[s]
  BY DEF DeleteDone, Restrict
<1>2. SharedSessions' = SharedSessions \ {loc[t].sid}
  BY <1>1 DEF SharedSessions
<1>3. ASSUME NEW u \in Users PROVE SharedOf(u)' = SharedOf(u) \ {loc[t].sid}
  BY <1>1, <1>2 DEF SharedOf, SharedSessions
<1>4. /\ loc[t].tier = Shared =>
           /\ platformCount' = Released(platformCount)
           /\ \A u \in Users : userCount'[u] = IF u = loc[t].user
                                               THEN Released(userCount[u])
                                               ELSE userCount[u]
      /\ loc[t].tier # Shared => UNCHANGED <<userCount, platformCount>>
  BY DEF DeleteDone, ReleaseSlot, TypeOK
<1>5. loc[t].sid \in DOMAIN sessions =>
        (loc[t].sid \in SharedSessions <=> loc[t].tier = Shared)
  BY DEF DeleteDone, StoreInv, TaskOK, DeleteStates, SharedSessions
<1> QED
  BY <1>2, <1>3, <1>4, <1>5

\* Every other step leaves the store and the counters alone, or is a restart.
LEMMA QuietSteps ==
  ASSUME SessionsInv, [Next]_vars
  PROVE  \/ \E t \in Tasks : BindDone(t) \/ CreateDone(t) \/ DeleteDone(t)
         \/ Restart
         \/ UNCHANGED <<sessions, userCount, platformCount>>
BY DEF Next, Request, Continue, Environment, CreateSession, DeleteSession, ExchangeFails,
  StartPerUser, RateLimited, StartShared, ListIdle, ListFails, PatchPod, CreatePod, CallFails,
  DeleteExchanged, DeletePod, WarmPodReady, PodDies, vars, store

\* Where a binding request comes from: it just read its user's counter, or it
\* was binding before with the locals the counting uses.
LEMMA BindingFrom ==
  ASSUME SessionsInv, [Next]_vars, NEW t \in Binding'
  PROVE  \/ /\ t \in Binding
            /\ loc'[t].user = loc[t].user /\ loc'[t].count = loc[t].count
         \/ /\ UNCHANGED <<sessions, userCount, platformCount>>
            /\ loc'[t].count = userCount[loc'[t].user]
            /\ UnderLimits(loc'[t].user)
<1> USE DEF SessionsInv, TypeInv
<1>1. t \in Tasks /\ pc'[t] \in {"list", "patch", "patched"}
  BY DEF Binding
<1>2. ASSUME pc'[t] = pc[t], loc'[t] = loc[t] PROVE t \in Binding
  BY <1>1, <1>2 DEF Binding
<1>3. ASSUME NEW r \in Tasks, r # t, Request(r) \/ Continue(r)
      PROVE  pc'[t] = pc[t] /\ loc'[t] = loc[t]
  BY <1>1, <1>3 DEF Request, Continue, CreateSession, DeleteSession, ExchangeFails,
    StartPerUser, RateLimited, StartShared, ListIdle, ListFails, PatchPod, CreatePod, CallFails,
    BindDone, CreateDone, DeleteExchanged, DeletePod, DeleteDone, Finish, Goto, TypeOK
<1>4. ASSUME NEW s \in SessionIds, StartShared(t, s)
      PROVE  /\ UNCHANGED <<sessions, userCount, platformCount>>
             /\ loc'[t].count = userCount[loc'[t].user]
             /\ UnderLimits(loc'[t].user)
  <2> DEFINE l == [loc[t] EXCEPT !.sid = s, !.count = userCount[loc[t].user]]
  <2>1. l.user = loc[t].user /\ l.count = userCount[loc[t].user]
    BY <1>1 DEF TypeOK, Locals
  <2>2. loc'[t] = l
    BY <1>1, <1>4 DEF StartShared, Goto, TypeOK
  <2> HIDE DEF l
  <2> QED
    BY <1>4, <2>1, <2>2 DEF StartShared, store
<1>5. ASSUME NEW p \in WarmPods, ListIdle(t, p)
      PROVE  t \in Binding /\ loc'[t].user = loc[t].user /\ loc'[t].count = loc[t].count
  <2> DEFINE l == [loc[t] EXCEPT !.pod = p]
  <2>1. l.user = loc[t].user /\ l.count = loc[t].count
    BY <1>1 DEF TypeOK, Locals
  <2>2. loc'[t] = l /\ pc[t] = "list"
    BY <1>1, <1>5 DEF ListIdle, Goto, TypeOK
  <2> HIDE DEF l
  <2> QED
    BY <1>1, <2>1, <2>2 DEF Binding
<1>6. ASSUME PatchPod(t)
      PROVE  t \in Binding /\ loc'[t].user = loc[t].user /\ loc'[t].count = loc[t].count
  BY <1>1, <1>6 DEF PatchPod, Finish, Goto, TypeOK, Binding
<1>7. ASSUME Request(t) \/ Continue(t), \A s \in SessionIds : ~StartShared(t, s),
             \A p \in WarmPods : ~ListIdle(t, p), ~PatchPod(t)
      PROVE  FALSE
  BY <1>1, <1>7 DEF Request, Continue, CreateSession, DeleteSession, ExchangeFails,
    StartPerUser, RateLimited, ListFails, CreatePod, CallFails,
    BindDone, CreateDone, DeleteExchanged, DeletePod, DeleteDone, Finish, Goto, TypeOK
<1>8. ASSUME Environment \/ UNCHANGED vars PROVE pc'[t] = pc[t] /\ loc'[t] = loc[t]
  BY <1>1, <1>8 DEF Environment, WarmPodReady, PodDies, Restart, vars
<1> QED
  BY <1>2, <1>3, <1>4, <1>5, <1>6, <1>7, <1>8 DEF Next

\* What the code leaves to chance: no session is being deleted twice at once.
DeletesApart ==
  \A r, t \in Tasks :
    pc[r] \in DeleteStates /\ pc[t] \in DeleteStates /\ loc[r].sid = loc[t].sid => r = t

\* Then the session a delete works on is still its user's when it is popped.
DeleteHolds ==
  \A t \in Tasks : pc[t] \in DeleteStates =>
    loc[t].sid \in DOMAIN sessions /\ sessions[loc[t].sid].owner = loc[t].user

\* Where a delete under way comes from: the look-up, or an earlier await.
LEMMA DeletingFrom ==
  ASSUME SessionsInv, [Next]_vars, NEW t \in Tasks, pc'[t] \in DeleteStates
  PROVE  \/ /\ pc[t] \in DeleteStates
            /\ loc'[t].user = loc[t].user /\ loc'[t].sid = loc[t].sid
         \/ /\ sessions' = sessions
            /\ loc'[t].sid \in DOMAIN sessions
            /\ sessions[loc'[t].sid].owner = loc'[t].user
<1> USE DEF SessionsInv, TypeInv
<1>1. ASSUME NEW r \in Tasks, r # t, Request(r) \/ Continue(r)
      PROVE  pc'[t] = pc[t] /\ loc'[t] = loc[t]
  BY <1>1 DEF Request, Continue, CreateSession, DeleteSession, ExchangeFails,
    StartPerUser, RateLimited, StartShared, ListIdle, ListFails, PatchPod, CreatePod, CallFails,
    BindDone, CreateDone, DeleteExchanged, DeletePod, DeleteDone, Finish, Goto, TypeOK
<1>2. ASSUME NEW u \in Users, NEW s \in SessionIds, DeleteSession(t, u, s)
      PROVE  /\ sessions' = sessions
             /\ loc'[t].sid \in DOMAIN sessions
             /\ sessions[loc'[t].sid].owner = loc'[t].user
  <2> DEFINE l == [NoLocals EXCEPT !.user = u, !.sid = s, !.pod = sessions[s].pod,
                                   !.tier = sessions[s].tier]
  <2>1. l.user = u /\ l.sid = s
    BY DEF NoLocals
  <2>2. loc'[t] = l
    BY <1>2 DEF DeleteSession, Goto, TypeOK
  <2> HIDE DEF l
  <2> QED
    BY <1>2, <2>1, <2>2 DEF DeleteSession, store
<1>3. ASSUME DeleteExchanged(t) \/ DeletePod(t)
      PROVE  pc[t] \in DeleteStates /\ loc'[t].user = loc[t].user /\ loc'[t].sid = loc[t].sid
  BY <1>3 DEF DeleteExchanged, DeletePod, Finish, Goto, TypeOK, DeleteStates
<1>4. ASSUME Request(t) \/ Continue(t), ~DeleteExchanged(t), ~DeletePod(t),
             \A u \in Users, s \in SessionIds : ~DeleteSession(t, u, s)
      PROVE  FALSE
  BY <1>4 DEF Request, Continue, CreateSession, ExchangeFails, StartPerUser, RateLimited,
    StartShared, ListIdle, ListFails, PatchPod, CreatePod, CallFails, BindDone, CreateDone,
    DeleteDone, Finish, Goto, TypeOK, DeleteStates
<1>5. ASSUME Environment \/ UNCHANGED vars PROVE pc'[t] = pc[t] /\ loc'[t] = loc[t]
  BY <1>5 DEF Environment, WarmPodReady, PodDies, Restart, vars, DeleteStates
<1> QED
  BY <1>1, <1>2, <1>3, <1>4, <1>5 DEF Next

LEMMA DeleteHoldsNext ==
  SessionsInv /\ DeletesApart /\ DeleteHolds /\ [Next]_vars => DeleteHolds'
<1> SUFFICES ASSUME SessionsInv, DeletesApart, DeleteHolds, [Next]_vars,
                    NEW t \in Tasks, pc'[t] \in DeleteStates
             PROVE  loc'[t].sid \in DOMAIN sessions'
                    /\ sessions'[loc'[t].sid].owner = loc'[t].user
  BY DEF DeleteHolds
<1>1. loc'[t].sid \in DOMAIN sessions /\ sessions[loc'[t].sid].owner = loc'[t].user
  BY DeletingFrom DEF DeleteHolds
<1>2. CASE UNCHANGED <<sessions, userCount, platformCount>>
  BY <1>1, <1>2
<1>3. CASE Restart
  BY <1>3 DEF Restart, DeleteStates
<1>4. ASSUME NEW r \in Tasks, BindDone(r) \/ CreateDone(r)
      PROVE  loc'[t].sid \in DOMAIN sessions'
             /\ sessions'[loc'[t].sid] = sessions[loc'[t].sid]
  <2>1. loc[r].sid \notin DOMAIN sessions
    BY <1>4 DEF SessionsInv, IdsUnique, Minted, CreateStates, BindDone, CreateDone
  <2> QED
    BY <1>1, <1>4, <2>1 DEF BindDone, CreateDone, StoreSession
<1>5. ASSUME NEW r \in Tasks, DeleteDone(r)
      PROVE  loc'[t].sid \in DOMAIN sessions'
             /\ sessions'[loc'[t].sid] = sessions[loc'[t].sid]
  <2>1. pc[r] \in DeleteStates /\ r # t /\ pc'[t] = pc[t] /\ loc'[t] = loc[t]
    BY <1>5 DEF DeleteDone, Finish, Goto, DeleteStates, SessionsInv, TypeInv, TypeOK
  <2>2. loc'[t].sid # loc[r].sid
    BY <2>1 DEF DeletesApart
  <2> QED
    BY <1>1, <1>5, <2>2 DEF DeleteDone, Restrict
<1> QED
  BY <1>1, <1>2, <1>3, <1>4, <1>5, QuietSteps

\* What the code leaves to chance: no user has two binds between the limit
\* test and the count.
BindsApart == \A r, t \in Binding : loc[r].user = loc[t].user => r = t

\* The strengthening: the counters, and the values the binds have read of
\* them, cover the sessions, and leave room below the limit.
LimitInv ==
  \A u \in Users :
    /\ Cardinality(SharedOf(u)) =< userCount[u] /\ userCount[u] =< PerUserLimit
    /\ \A t \in Binding :
         loc[t].user = u => Cardinality(SharedOf(u)) =< loc[t].count /\ loc[t].count < PerUserLimit

LEMMA LimitNext ==
  SessionsInv /\ SessionsInv' /\ BindsApart /\ DeleteHolds /\ LimitInv /\ [Next]_vars => LimitInv'
<1> SUFFICES ASSUME SessionsInv, SessionsInv', BindsApart, DeleteHolds, LimitInv, [Next]_vars,
                    NEW u \in Users
             PROVE  /\ Cardinality(SharedOf(u)') =< userCount'[u] /\ userCount'[u] =< PerUserLimit
                    /\ \A t \in Binding' : loc'[t].user = u =>
                         Cardinality(SharedOf(u)') =< loc'[t].count /\ loc'[t].count < PerUserLimit
  BY DEF LimitInv
<1> USE SessionsAssumption
<1>0. TypeOK /\ TypeOK' /\ LocalsOK /\ LocalsOK'
  BY DEF SessionsInv, TypeInv
<1> DEFINE a == Cardinality(SharedOf(u))
           b == Cardinality(SharedOf(u)')
<1>1. a \in Nat /\ userCount[u] \in Nat /\ IsFiniteSet(SharedOf(u)) /\ b \in Nat
  <2>1. TypeOK' => IsFiniteSet(SharedOf(u)') /\ Cardinality(SharedOf(u)') \in Nat
    <3>1. TypeOK' => SharedOf(u)' \subseteq SessionIds
      BY DEF SharedOf, SharedSessions, TypeOK
    <3> QED
      BY <3>1, FS_Subset, FS_CardinalityType
  <2> QED
    BY <1>0, <2>1, SharedFinite
<1>2. a =< userCount[u] /\ userCount[u] =< PerUserLimit
  BY DEF LimitInv
<1>3. ASSUME NEW t \in Binding', loc'[t].user = u
      PROVE  loc'[t].count \in Nat /\ a =< loc'[t].count /\ loc'[t].count < PerUserLimit
  <2>1. loc'[t].count \in Nat
    BY <1>0 DEF Binding, TypeOK, Locals
  <2>2. CASE t \in Binding /\ loc'[t].user = loc[t].user /\ loc'[t].count = loc[t].count
    BY <1>3, <2>1, <2>2 DEF LimitInv
  <2>3. CASE loc'[t].count = userCount[loc'[t].user] /\ UnderLimits(loc'[t].user)
    BY <1>1, <1>2, <1>3, <2>1, <2>3 DEF UnderLimits
  <2> QED
    BY <1>3, <2>1, <2>2, <2>3, BindingFrom
\* It is enough that the sessions do not grow and the counter covers them.
<1>4. SUFFICES /\ b =< userCount'[u] /\ userCount'[u] =< PerUserLimit
               /\ b =< a \/ \A t \in Binding' : loc'[t].user # u
  <2> HIDE DEF a, b
  <2>1. b =< a => \A t \in Binding' : loc'[t].user = u =>
                    b =< loc'[t].count /\ loc'[t].count < PerUserLimit
    BY <1>1, <1>3
  <2> QED
    BY <1>4, <2>1 DEF b
<1>5. CASE UNCHANGED <<sessions, userCount, platformCount>>
  <2>1. SharedOf(u)' = SharedOf(u) /\ userCount'[u] = userCount[u]
    BY <1>5 DEF SharedOf, SharedSessions
  <2> QED
    BY <1>1, <1>2, <2>1
<1>6. CASE Restart
  <2>1. SharedOf(u)' = {} /\ userCount'[u] = 0 /\ Binding' = {}
    BY <1>6 DEF Restart, SharedOf, SharedSessions, Binding
  <2>2. b = 0
    BY <2>1, FS_EmptySet
  <2> QED
    BY <2>1, <2>2
<1>7. ASSUME NEW r \in Tasks, CreateDone(r)
      PROVE  b =< userCount'[u] /\ userCount'[u] =< PerUserLimit /\ b =< a
  <2>1. SharedOf(u)' = SharedOf(u) /\ userCount'[u] = userCount[u]
    BY <1>7, CreateAddsNone DEF CreateDone
  <2> QED
    BY <1>1, <1>2, <2>1
<1>8. ASSUME NEW r \in Tasks, BindDone(r)
      PROVE  /\ b =< userCount'[u] /\ userCount'[u] =< PerUserLimit
             /\ b =< a \/ \A t \in Binding' : loc'[t].user # u
  <2>1. CASE loc[r].user # u
    <3>1. SharedOf(u)' = SharedOf(u) /\ userCount'[u] = userCount[u]
      BY <1>8, <2>1, BindAdds
    <3> QED
      BY <1>1, <1>2, <3>1
  <2>2. CASE loc[r].user = u
    <3>1. /\ SharedOf(u)' = SharedOf(u) \cup {loc[r].sid} /\ loc[r].sid \notin SharedOf(u)
          /\ userCount'[u] = loc[r].count + 1 /\ loc[r].count \in Nat
      BY <1>8, <2>2, BindAdds DEF SharedOf
    <3>2. b = a + 1
      BY <1>1, <3>1, FS_AddElement
    <3>3. r \in Binding /\ a =< loc[r].count /\ loc[r].count < PerUserLimit
      BY <1>8, <2>2 DEF BindDone, Binding, LimitInv
    <3>4. ASSUME NEW t \in Binding', loc'[t].user = u PROVE FALSE
      <4>1. /\ pc'[r] = "idle"
            /\ \A q \in Tasks \ {r} : pc'[q] = pc[q] /\ loc'[q] = loc[q]
        BY <1>0, <1>8, GotoFacts DEF BindDone, Finish
      <4>2. t # r /\ t \in Binding /\ loc[t].user = u
        BY <3>4, <4>1 DEF Binding
      <4> QED
        BY <2>2, <3>3, <4>2 DEF BindsApart
    <3> HIDE DEF a, b
    <3>5. b =< userCount'[u] /\ userCount'[u] =< PerUserLimit
      BY <1>1, <3>1, <3>2, <3>3
    <3> QED
      BY <3>4, <3>5
  <2> QED
    BY <2>1, <2>2
<1>9. ASSUME NEW r \in Tasks, DeleteDone(r)
      PROVE  b =< userCount'[u] /\ userCount'[u] =< PerUserLimit /\ b =< a
  <2>1. /\ SharedOf(u)' = SharedOf(u) \ {loc[r].sid}
        /\ userCount'[u] \in {userCount[u], Released(userCount[u])}
        /\ userCount'[u] # userCount[u] => loc[r].tier = Shared /\ u = loc[r].user
    BY <1>9, DeleteTakes
  <2>2. b = IF loc[r].sid \in SharedOf(u) THEN a - 1 ELSE a
    BY <1>1, <2>1, FS_RemoveElement
  <2>3. loc[r].tier = Shared /\ u = loc[r].user => loc[r].sid \in SharedOf(u)
    BY <1>9, DeleteTakes DEF DeleteHolds, DeleteDone, DeleteStates, SharedOf
  <2> HIDE DEF a, b
  <2>4. CASE userCount'[u] = userCount[u]
    BY <1>1, <1>2, <2>2, <2>4
  <2>5. CASE userCount'[u] # userCount[u]
    <3>1. b = a - 1 /\ userCount'[u] = Released(userCount[u])
      BY <2>1, <2>2, <2>3, <2>5
    <3> QED
      BY <1>1, <1>2, <3>1 DEF Released
  <2> QED
    BY <2>4, <2>5
<1> QED
  BY <1>5, <1>6, <1>7, <1>8, <1>9, QuietSteps

\* No user passes the limit but by two creates that both test it before either
\* counts (the run SessionsUserLimit), or by two deletes of one session that
\* both give its slot back.
THEOREM LimitWhereRequestsApart ==
  Spec /\ [](BindsApart /\ DeletesApart) => []UserLimitHolds
<1>1. Init => DeleteHolds /\ LimitInv
  <2> SUFFICES ASSUME Init PROVE DeleteHolds /\ LimitInv
    OBVIOUS
  <2>1. /\ \A u \in Users : SharedOf(u) = {} /\ userCount[u] = 0
        /\ Binding = {} /\ \A t \in Tasks : pc[t] = "idle"
    BY DEF Init, SharedOf, SharedSessions, Binding
  <2> QED
    BY <2>1, FS_EmptySet, SessionsAssumption DEF DeleteHolds, DeleteStates, LimitInv
<1>2. SessionsInv /\ LimitInv => UserLimitHolds
  <2> SUFFICES ASSUME SessionsInv, LimitInv, NEW u \in Users
               PROVE  Cardinality(SharedOf(u)) =< PerUserLimit
    BY DEF UserLimitHolds
  <2>1. Cardinality(SharedOf(u)) \in Nat /\ userCount[u] \in Nat
    BY SharedFinite DEF SessionsInv, TypeInv
  <2> QED
    BY <2>1, SessionsAssumption DEF LimitInv
<1> QED
  BY <1>1, <1>2, LimitNext, DeleteHoldsNext, SessionsInvariant, PTL DEF Spec

LEMMA OneMoreOneLess ==
  ASSUME NEW S, IsFiniteSet(S), NEW n \in Nat, Cardinality(S) = n, NEW x
  PROVE  /\ x \notin S => Cardinality(S \cup {x}) = n + 1
         /\ x \in S => Cardinality(S \ {x}) = n - 1
<1>1. x \notin S => Cardinality(S \cup {x}) = Cardinality(S) + 1
  BY FS_AddElement
<1>2. x \in S => Cardinality(S \ {x}) = Cardinality(S) - 1
  BY FS_RemoveElement
<1> QED
  BY <1>1, <1>2

\* What the code leaves to chance: no user has two requests under way.
OneEach ==
  \A r, t \in Tasks :
    pc[r] # "idle" /\ pc[t] # "idle" /\ loc[r].user = loc[t].user => r = t

\* Then no session is deleted twice at once: both deletes would be its owner's.
LEMMA OneEachApart == OneEach /\ DeleteHolds => DeletesApart
BY DEF OneEach, DeleteHolds, DeletesApart, DeleteStates

\* The strengthening: a bind holds the current value of its user's counter.
ReadIsCurrent == \A t \in Binding : loc[t].count = userCount[loc[t].user]

LEMMA CountersNext ==
  /\ SessionsInv /\ SessionsInv' /\ OneEach /\ DeleteHolds /\ ReadIsCurrent /\ CountersExact
  /\ [Next]_vars
  => ReadIsCurrent' /\ CountersExact'
<1> SUFFICES ASSUME SessionsInv, SessionsInv', OneEach, DeleteHolds, ReadIsCurrent,
                    CountersExact, [Next]_vars
             PROVE  ReadIsCurrent' /\ CountersExact'
  OBVIOUS
<1> USE SessionsAssumption
<1>0. TypeOK /\ LocalsOK
  BY DEF SessionsInv, TypeInv
<1>1. ASSUME UNCHANGED <<sessions, userCount, platformCount>>
      PROVE  ReadIsCurrent' /\ CountersExact'
  <2>1. CountersExact'
    BY <1>1 DEF CountersExact, SharedOf, SharedSessions
  <2>2. ASSUME NEW t \in Binding' PROVE loc'[t].count = userCount'[loc'[t].user]
    BY <1>1, BindingFrom DEF ReadIsCurrent
  <2> QED
    BY <2>1, <2>2 DEF ReadIsCurrent
<1>2. CASE Restart
  <2>1. /\ \A u \in Users : SharedOf(u)' = {} /\ userCount'[u] = 0
        /\ SharedSessions' = {} /\ platformCount' = 0 /\ Binding' = {}
    BY <1>2 DEF Restart, SharedOf, SharedSessions, Binding
  <2> QED
    BY <2>1, FS_EmptySet DEF CountersExact, ReadIsCurrent
<1>3. ASSUME NEW r \in Tasks, BindDone(r) \/ CreateDone(r) \/ DeleteDone(r),
             NEW t \in Binding'
      PROVE  t \in Binding /\ loc'[t] = loc[t] /\ loc[t].user # loc[r].user
  <2>1. /\ pc'[r] = "idle" /\ pc[r] # "idle"
        /\ \A q \in Tasks \ {r} : pc'[q] = pc[q] /\ loc'[q] = loc[q]
    BY <1>0, <1>3, GotoFacts DEF BindDone, CreateDone, DeleteDone, Finish
  <2>2. t # r /\ t \in Binding /\ loc'[t] = loc[t]
    BY <1>3, <2>1 DEF Binding
  <2>3. loc[t].user # loc[r].user
    BY <1>3, <2>1, <2>2 DEF OneEach, Binding
  <2> QED
    BY <2>2, <2>3
<1>4. ASSUME NEW r \in Tasks, CreateDone(r) PROVE ReadIsCurrent' /\ CountersExact'
  <2>1. CountersExact'
    BY <1>4, CreateAddsNone DEF CountersExact, CreateDone
  <2>2. ReadIsCurrent'
    BY <1>3, <1>4 DEF ReadIsCurrent, CreateDone
  <2> QED
    BY <2>1, <2>2
<1>5. ASSUME NEW r \in Tasks, BindDone(r) PROVE ReadIsCurrent' /\ CountersExact'
  <2> DEFINE s == loc[r].sid
             v == loc[r].user
  <2>1. /\ v \in Users /\ loc[r].count \in Nat /\ s \notin SharedSessions
        /\ SharedSessions' = SharedSessions \cup {s}
        /\ platformCount' = platformCount + 1
    BY <1>5, BindAdds
  <2>2. ASSUME NEW u \in Users
        PROVE  /\ SharedOf(u)' = IF u = v THEN SharedOf(u) \cup {s} ELSE SharedOf(u)
               /\ userCount'[u] = IF u = v THEN loc[r].count + 1 ELSE userCount[u]
    BY <1>5, BindAdds
  <2>3. loc[r].count = userCount[v]
    BY <1>5 DEF ReadIsCurrent, Binding, BindDone
  <2>4. Cardinality(SharedSessions') = platformCount'
    <3>1. /\ IsFiniteSet(SharedSessions) /\ Cardinality(SharedSessions) = platformCount
          /\ platformCount \in Nat
      BY <1>0, <2>1, SharedFinite DEF CountersExact
    <3> QED
      BY <2>1, <3>1, OneMoreOneLess
  <2>5. ASSUME NEW u \in Users PROVE userCount'[u] = Cardinality(SharedOf(u)')
    <3>1. /\ IsFiniteSet(SharedOf(u)) /\ Cardinality(SharedOf(u)) = userCount[u]
          /\ userCount[u] \in Nat
      BY <1>0, SharedFinite DEF CountersExact
    <3>2. CASE u = v
      <4>1. s \notin SharedOf(u) /\ SharedOf(u)' = SharedOf(u) \cup {s}
            /\ userCount'[u] = userCount[u] + 1
        BY <2>1, <2>2, <2>3, <3>2 DEF SharedOf
      <4> QED
        BY <3>1, <4>1, OneMoreOneLess
    <3>3. CASE u # v
      BY <2>2, <3>1, <3>3
    <3> QED
      BY <3>2, <3>3
  <2>6. ASSUME NEW t \in Binding' PROVE loc'[t].count = userCount'[loc'[t].user]
    <3>1. t \in Binding /\ loc'[t] = loc[t] /\ loc[t].user # v
      BY <1>3, <1>5, <2>6
    <3>2. loc[t].user \in Users
      BY <1>0, <3>1 DEF Binding, LocalsOK
    <3>3. userCount'[loc[t].user] = userCount[loc[t].user]
      BY <2>2, <3>1, <3>2
    <3> QED
      BY <3>1, <3>3 DEF ReadIsCurrent
  <2> QED
    BY <2>4, <2>5, <2>6 DEF CountersExact, ReadIsCurrent
<1>6. ASSUME NEW r \in Tasks, DeleteDone(r) PROVE ReadIsCurrent' /\ CountersExact'
  <2> DEFINE s == loc[r].sid
             v == loc[r].user
  <2>1. SharedSessions' = SharedSessions \ {s} /\ v \in Users
    BY <1>0, <1>6, DeleteTakes DEF LocalsOK, DeleteDone, DeleteStates
  <2>2. /\ s \in SharedSessions <=> loc[r].tier = Shared
        /\ \A u \in Users : s \in SharedOf(u) => u = v
        /\ loc[r].tier = Shared => s \in SharedOf(v)
    BY <1>6, DeleteTakes DEF DeleteHolds, DeleteDone, DeleteStates, SharedOf, SharedSessions
  <2>3. loc[r].tier = Shared =>
          /\ platformCount' = Released(platformCount)
          /\ \A u \in Users : userCount'[u] = IF u = v THEN Released(userCount[u])
                                                       ELSE userCount[u]
    BY <1>6, DeleteTakes
  <2>4. loc[r].tier # Shared => UNCHANGED <<userCount, platformCount>>
    BY <1>6, DeleteTakes
  <2>5. Cardinality(SharedSessions') = platformCount'
    <3>1. /\ IsFiniteSet(SharedSessions) /\ Cardinality(SharedSessions) = platformCount
          /\ platformCount \in Nat
      BY <1>0, <2>1, SharedFinite DEF CountersExact
    <3>2. CASE loc[r].tier = Shared
      <4>1. Cardinality(SharedSessions') = platformCount - 1
        BY <2>1, <2>2, <3>1, <3>2, OneMoreOneLess
      <4>2. platformCount # 0
        BY <2>2, <3>1, <3>2, FS_EmptySet
      <4> QED
        BY <2>3, <3>1, <3>2, <4>1, <4>2 DEF Released
    <3>3. CASE loc[r].tier # Shared
      <4>1. SharedSessions' = SharedSessions
        BY <2>1, <2>2, <3>3
      <4> QED
        BY <2>4, <3>1, <3>3, <4>1
    <3> QED
      BY <3>2, <3>3
  <2>6. ASSUME NEW u \in Users PROVE userCount'[u] = Cardinality(SharedOf(u)')
    <3>1. /\ IsFiniteSet(SharedOf(u)) /\ Cardinality(SharedOf(u)) = userCount[u]
          /\ userCount[u] \in Nat /\ SharedOf(u)' = SharedOf(u) \ {s}
      BY <1>0, <1>6, SharedFinite, DeleteTakes DEF CountersExact
    <3>2. CASE loc[r].tier = Shared /\ u = v
      <4>1. Cardinality(SharedOf(u)') = userCount[u] - 1
        BY <2>2, <3>1, <3>2, OneMoreOneLess
      <4>2. userCount[u] # 0
        BY <2>2, <3>1, <3>2, FS_EmptySet
      <4> QED
        BY <2>3, <3>1, <3>2, <4>1, <4>2 DEF Released
    <3>3. CASE ~(loc[r].tier = Shared /\ u = v)
      <4>1. s \notin SharedOf(u)
        BY <2>2, <3>3 DEF SharedOf
      <4>2. userCount'[u] = userCount[u]
        BY <2>3, <2>4, <3>3
      <4> QED
        <5>1. SharedOf(u)' = SharedOf(u)
          BY <3>1, <4>1
        <5> QED
          BY <3>1, <4>2, <5>1
    <3> QED
      BY <3>2, <3>3
  <2>7. ASSUME NEW t \in Binding' PROVE loc'[t].count = userCount'[loc'[t].user]
    <3>1. t \in Binding /\ loc'[t] = loc[t] /\ loc[t].user # v
      BY <1>3, <1>6, <2>7
    <3>2. loc[t].user \in Users
      BY <1>0, <3>1 DEF Binding, LocalsOK
    <3>3. userCount'[loc[t].user] = userCount[loc[t].user]
      BY <2>3, <2>4, <3>1, <3>2
    <3> QED
      BY <3>1, <3>3 DEF ReadIsCurrent
  <2> QED
    BY <2>5, <2>6, <2>7 DEF CountersExact, ReadIsCurrent
<1> QED
  BY <1>1, <1>2, <1>4, <1>5, <1>6, QuietSteps

\* Both counters are exact, whatever fails or is lost and however the requests
\* of different users interleave, as long as no user has two under way.
THEOREM CountersWhereOneEach == Spec /\ []OneEach => []CountersExact
<1>1. Init => DeleteHolds /\ ReadIsCurrent /\ CountersExact
  <2> SUFFICES ASSUME Init PROVE DeleteHolds /\ ReadIsCurrent /\ CountersExact
    OBVIOUS
  <2>1. /\ \A u \in Users : SharedOf(u) = {} /\ userCount[u] = 0
        /\ SharedSessions = {} /\ platformCount = 0
        /\ Binding = {} /\ \A t \in Tasks : pc[t] = "idle"
    BY DEF Init, SharedOf, SharedSessions, Binding
  <2> QED
    BY <2>1, FS_EmptySet DEF DeleteHolds, DeleteStates, ReadIsCurrent, CountersExact
<1> QED
  BY <1>1, CountersNext, OneEachApart, DeleteHoldsNext, SessionsInvariant, PTL DEF Spec
=============================================================================
