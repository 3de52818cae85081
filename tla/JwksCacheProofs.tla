-------------------------- MODULE JwksCacheProofs ---------------------------
(***************************************************************************)
(* Theorems about module JwksCache, for any number of requests and keys,   *)
(* any time to live and any answer latency.                                *)
(***************************************************************************)
EXTENDS JwksCache, TLAPS

\* What a suspended validation holds.
LocInv ==
  \A t \in Tasks :
    /\ pc[t] # "idle" => loc[t].kid \in Kids
    /\ pc[t] # "idle" /\ loc[t].known => loc[t].kid \in published
    /\ pc[t] = "answered" => loc[t].at \in 0..now /\ now - loc[t].at =< Latency

TypeInv == TypeOK /\ LocInv /\ OneFetch

LEMMA NowNat == TypeOK => now \in Nat /\ MaxTime \in Nat /\ Start \in Nat
BY JwksAssumption DEF TypeOK

\* The four ways a lookup of the key can end.
LEMMA MatchCases ==
  ASSUME NEW t, NEW l, NEW keys, NEW since, Match(t, l, keys, since)
  PROVE  \/ /\ End(t, "accepted", l) /\ l.kid \in keys /\ fetchedAt' = since
         \/ /\ End(t, "rejected", l) /\ l.kid \notin keys /\ l.attempt = 2
            /\ fetchedAt' = since
         \/ /\ End(t, "rejected", l) /\ l.kid \notin keys /\ fetchedAt' = 0
            /\ now - 0 < TTL
         \/ /\ Suspend(t, "lock", [l EXCEPT !.attempt = 2]) /\ l.kid \notin keys
            /\ fetchedAt' = 0 /\ ~(now - 0 < TTL)
BY DEF Match, Invalidated

LEMMA GotoFacts ==
  ASSUME TypeOK, NEW t \in Tasks, NEW to, NEW l, Goto(t, to, l)
  PROVE  /\ pc'[t] = to /\ loc'[t] = l
         /\ \A r \in Tasks \ {t} : pc'[r] = pc[r] /\ loc'[r] = loc[r]
BY DEF TypeOK, Goto

LEMMA GotoType ==
  ASSUME TypeOK, NEW t \in Tasks, NEW to \in States, NEW l \in Locals, Goto(t, to, l)
  PROVE  pc' \in [Tasks -> States] /\ loc' \in [Tasks -> Locals]
BY DEF TypeOK, Goto

\* Suspended or ended, a validation with well-typed locals stays well typed.
LEMMA StepType ==
  ASSUME TypeOK, NEW t \in Tasks, NEW l \in Locals,
         \/ \E to \in States : Suspend(t, to, l)
         \/ \E r \in {"accepted", "rejected", "error"} : End(t, r, l)
  PROVE  /\ pc' \in [Tasks -> States] /\ loc' \in [Tasks -> Locals]
         /\ verdict' \in Verdict
<1>1. CASE \E to \in States : Suspend(t, to, l)
  BY <1>1, GotoType DEF Suspend, NoVerdict, Verdict
<1>2. CASE \E r \in {"accepted", "rejected", "error"} : End(t, r, l)
  <2>1. NoLocals \in Locals /\ "idle" \in States
    BY DEF NoLocals, Locals, States
  <2>2. pc' \in [Tasks -> States] /\ loc' \in [Tasks -> Locals]
    BY <1>2, <2>1, GotoType DEF End
  <2> QED
    BY <1>2, <2>2 DEF End, Verdict, Locals
<1> QED
  BY <1>1, <1>2

\* A lookup leaves its request idle, or waiting for the lock with the same kid.
LEMMA MatchStep ==
  ASSUME TypeOK, NEW t \in Tasks, NEW l \in Locals, NEW keys, NEW since \in 0..now,
         Match(t, l, keys, since)
  PROVE  /\ pc' \in [Tasks -> States] /\ loc' \in [Tasks -> Locals]
         /\ verdict' \in Verdict /\ fetchedAt' \in 0..now
         /\ \A r \in Tasks \ {t} : pc'[r] = pc[r] /\ loc'[r] = loc[r]
         /\ \/ pc'[t] = "idle"
            \/ /\ pc'[t] = "lock" /\ loc'[t].kid = l.kid /\ loc'[t].known = l.known
<1> DEFINE m == [l EXCEPT !.attempt = 2]
<1>1. m \in Locals /\ m.kid = l.kid /\ m.known = l.known
  BY DEF Locals
<1>2. \/ \E r \in {"accepted", "rejected"} : End(t, r, l)
      \/ Suspend(t, "lock", m)
  BY MatchCases
<1>3. fetchedAt' \in 0..now
  <2>1. now \in Nat /\ 0 \in 0..now
    BY NowNat
  <2>2. fetchedAt' = since \/ fetchedAt' = 0
    BY MatchCases
  <2> QED
    BY <2>1, <2>2
<1> HIDE DEF m
<1>4. /\ pc' \in [Tasks -> States] /\ loc' \in [Tasks -> Locals] /\ verdict' \in Verdict
  BY <1>1, <1>2, StepType DEF States
<1>5. /\ \A r \in Tasks \ {t} : pc'[r] = pc[r] /\ loc'[r] = loc[r]
      /\ pc'[t] = "idle" \/ (pc'[t] = "lock" /\ loc'[t] = m)
  BY <1>2, GotoFacts DEF End, Suspend
<1> QED
  BY <1>1, <1>3, <1>4, <1>5

\* The locals a validation of a token naming k starts with.
LEMMA ValidateLocals ==
  ASSUME NEW k \in Kids
  PROVE  LET l == [NoLocals EXCEPT !.kid = k, !.known = (k \in published)]
         IN  l \in Locals /\ l.kid = k /\ (l.known => k \in published) /\ l.attempt = 1
<1> DEFINE b == k \in published
           l == [NoLocals EXCEPT !.kid = k, !.known = b]
<1>1. b = TRUE \/ b = FALSE
  OBVIOUS
<1>2. b => k \in published
  OBVIOUS
<1> SUFFICES l \in Locals /\ l.kid = k /\ (l.known => k \in published) /\ l.attempt = 1
  OBVIOUS
<1>a. l = [NoLocals EXCEPT !.kid = k, !.known = b]
  OBVIOUS
<1> HIDE DEF b, l
<1>3. l = [kid |-> k, attempt |-> 1, known |-> b, answer |-> {}, at |-> 0]
  BY <1>a DEF NoLocals
<1>4. [kid |-> k, attempt |-> 1, known |-> TRUE, answer |-> {}, at |-> 0] \in Locals
  BY DEF Locals
<1>5. [kid |-> k, attempt |-> 1, known |-> FALSE, answer |-> {}, at |-> 0] \in Locals
  BY DEF Locals
<1> QED
  BY <1>1, <1>2, <1>3, <1>4, <1>5

LEMMA TypeInit == Init => TypeInv
<1> SUFFICES ASSUME Init PROVE TypeInv
  OBVIOUS
<1>1. /\ pc \in [Tasks -> States] /\ loc \in [Tasks -> Locals] /\ verdict \in Verdict
  BY DEF Init, States, NoLocals, Locals, NoVerdict, Verdict
<1>2. /\ cache \in (SUBSET Kids) \cup {NoCache} /\ published \subseteq Kids
      /\ retiredAt \in [Kids -> Int]
  <2>1. Never \in Int
    BY JwksAssumption DEF Never
  <2> QED
    BY <2>1 DEF Init
<1>a. now \in Start..MaxTime /\ rotations \in 0..MaxRotations /\ fetchedAt \in 0..now
  <2>1. now = Start /\ rotations = 0 /\ fetchedAt \in {0, Start}
    BY DEF Init
  <2> QED
    BY <2>1, JwksAssumption
<1>3. lock \in Tasks \cup {None}
  BY DEF Init
<1>4. LocInv /\ OneFetch
  BY JwksAssumption DEF Init, LocInv, OneFetch
<1> QED
  BY <1>1, <1>2, <1>a, <1>3, <1>4 DEF TypeInv, TypeOK

\* Types, locals and the exclusion around the fetch, together.
LEMMA TypeNext == TypeInv /\ [Next]_vars => TypeInv'
<1> SUFFICES ASSUME TypeInv, [Next]_vars PROVE TypeInv'
  OBVIOUS
<1> USE JwksAssumption DEF provider
<1>0. TypeOK
  BY DEF TypeInv
<1>a. now \in Nat /\ MaxTime \in Nat /\ Start \in Nat
  BY <1>0, NowNat
<1>1. ASSUME NEW t \in Tasks, NEW k \in Kids, Validate(t, k) PROVE TypeInv'
  <2> DEFINE l == [NoLocals EXCEPT !.kid = k, !.known = (k \in published)]
  <2>1. l \in Locals /\ l.kid = k /\ (l.known => k \in published)
    BY ValidateLocals
  <2>2. /\ pc[t] = "idle" /\ UNCHANGED <<cache, lock, provider>>
        /\ \/ Match(t, l, cache, fetchedAt)
           \/ Suspend(t, "lock", l) /\ UNCHANGED fetchedAt
    BY <1>1 DEF Validate
  <2> HIDE DEF l
  <2>3. /\ pc' \in [Tasks -> States] /\ loc' \in [Tasks -> Locals]
        /\ verdict' \in Verdict /\ fetchedAt' \in 0..now
        /\ \A r \in Tasks \ {t} : pc'[r] = pc[r] /\ loc'[r] = loc[r]
        /\ \/ pc'[t] = "idle"
           \/ pc'[t] = "lock" /\ loc'[t].kid = l.kid /\ loc'[t].known = l.known
    <3>1. CASE Match(t, l, cache, fetchedAt)
      BY <1>0, <2>1, <3>1, MatchStep DEF TypeOK
    <3>2. CASE Suspend(t, "lock", l) /\ UNCHANGED fetchedAt
      BY <1>0, <2>1, <3>2, StepType, GotoFacts DEF Suspend, States, TypeOK
    <3> QED
      BY <2>2, <3>1, <3>2
  <2>4. TypeOK'
    BY <1>0, <2>2, <2>3 DEF TypeOK
  <2>5. LocInv' /\ OneFetch'
    BY <2>1, <2>2, <2>3 DEF LocInv, OneFetch, TypeInv
  <2> QED
    BY <2>4, <2>5 DEF TypeInv
<1>2. ASSUME NEW t \in Tasks, EnterFresh(t) PROVE TypeInv'
  <2>1. loc[t] \in Locals /\ fetchedAt \in 0..now
    BY <1>0 DEF TypeOK
  <2>2. /\ pc' \in [Tasks -> States] /\ loc' \in [Tasks -> Locals]
        /\ verdict' \in Verdict /\ fetchedAt' \in 0..now
        /\ \A r \in Tasks \ {t} : pc'[r] = pc[r] /\ loc'[r] = loc[r]
        /\ \/ pc'[t] = "idle"
           \/ pc'[t] = "lock" /\ loc'[t].kid = loc[t].kid /\ loc'[t].known = loc[t].known
    BY <1>0, <1>2, <2>1, MatchStep DEF EnterFresh
  <2>3. TypeOK'
    BY <1>0, <1>2, <2>2 DEF TypeOK, EnterFresh
  <2>4. LocInv' /\ OneFetch'
    BY <1>2, <2>2 DEF LocInv, OneFetch, TypeInv, EnterFresh
  <2> QED
    BY <2>3, <2>4 DEF TypeInv
<1>3. ASSUME NEW t \in Tasks, EnterStale(t) PROVE TypeInv'
  <2>1. /\ pc' \in [Tasks -> States] /\ loc' \in [Tasks -> Locals] /\ verdict' \in Verdict
    BY <1>0, <1>3, StepType DEF EnterStale, States, TypeOK
  <2>2. /\ pc'[t] = "fetch" /\ loc'[t] = loc[t]
        /\ \A r \in Tasks \ {t} : pc'[r] = pc[r] /\ loc'[r] = loc[r]
    BY <1>0, <1>3, GotoFacts DEF EnterStale, Suspend
  <2>3. TypeOK'
    BY <1>0, <1>3, <2>1 DEF TypeOK, EnterStale
  <2>4. LocInv' /\ OneFetch'
    BY <1>3, <2>2 DEF LocInv, OneFetch, TypeInv, EnterStale
  <2> QED
    BY <2>3, <2>4 DEF TypeInv
<1>4. ASSUME NEW t \in Tasks, ProviderAnswers(t) PROVE TypeInv'
  <2> DEFINE l == [loc[t] EXCEPT !.answer = published, !.at = now]
  <2>1. l \in Locals /\ l.kid = loc[t].kid /\ l.known = loc[t].known /\ l.at = now
    BY <1>0, <1>a DEF TypeOK, Locals
  <2>2. Suspend(t, "answered", l) /\ UNCHANGED <<cache, fetchedAt, lock, provider>>
        /\ pc[t] = "fetch"
    BY <1>4 DEF ProviderAnswers
  <2> HIDE DEF l
  <2>3. /\ pc' \in [Tasks -> States] /\ loc' \in [Tasks -> Locals] /\ verdict' \in Verdict
    BY <1>0, <2>1, <2>2, StepType DEF States
  <2>4. /\ pc'[t] = "answered" /\ loc'[t] = l
        /\ \A r \in Tasks \ {t} : pc'[r] = pc[r] /\ loc'[r] = loc[r]
    BY <1>0, <2>2, GotoFacts DEF Suspend
  <2>5. TypeOK'
    BY <1>0, <2>2, <2>3 DEF TypeOK
  <2>6. LocInv' /\ OneFetch'
    BY <1>a, <2>1, <2>2, <2>4 DEF LocInv, OneFetch, TypeInv
  <2> QED
    BY <2>5, <2>6 DEF TypeInv
<1>5. ASSUME NEW t \in Tasks, FetchDone(t) PROVE TypeInv'
  <2> DEFINE l == [loc[t] EXCEPT !.answer = {}, !.at = 0]
  <2>1. l \in Locals /\ l.kid = loc[t].kid /\ l.known = loc[t].known
        /\ loc[t].answer \subseteq Kids
    BY <1>0 DEF TypeOK, Locals
  <2>b. now \in 0..now
    BY <1>a
  <2>2. /\ Match(t, l, loc[t].answer, now) /\ cache' = loc[t].answer /\ lock' = None
        /\ UNCHANGED provider /\ pc[t] = "answered"
    BY <1>5 DEF FetchDone, Stamp
  <2> HIDE DEF l
  <2>3. /\ pc' \in [Tasks -> States] /\ loc' \in [Tasks -> Locals]
        /\ verdict' \in Verdict /\ fetchedAt' \in 0..now
        /\ \A r \in Tasks \ {t} : pc'[r] = pc[r] /\ loc'[r] = loc[r]
        /\ \/ pc'[t] = "idle"
           \/ pc'[t] = "lock" /\ loc'[t].kid = l.kid /\ loc'[t].known = l.known
    BY <1>0, <2>1, <2>b, <2>2, MatchStep
  <2>a. cache' \in SUBSET Kids /\ now' = now
    BY <2>1, <2>2
  <2>4. TypeOK'
    BY <1>0, <2>a, <2>2, <2>3 DEF TypeOK
  <2>5. LocInv' /\ OneFetch'
    BY <2>1, <2>2, <2>3 DEF LocInv, OneFetch, TypeInv
  <2> QED
    BY <2>4, <2>5 DEF TypeInv
<1>6. ASSUME NEW t \in Tasks, FetchFails(t) PROVE TypeInv'
  <2>1. /\ pc' \in [Tasks -> States] /\ loc' \in [Tasks -> Locals] /\ verdict' \in Verdict
    BY <1>0, <1>6, StepType DEF FetchFails, TypeOK
  <2>2. /\ pc'[t] = "idle"
        /\ \A r \in Tasks \ {t} : pc'[r] = pc[r] /\ loc'[r] = loc[r]
    BY <1>0, <1>6, GotoFacts DEF FetchFails, End
  <2>3. TypeOK'
    BY <1>0, <1>6, <2>1 DEF TypeOK, FetchFails
  <2>4. LocInv' /\ OneFetch'
    BY <1>6, <2>2 DEF LocInv, OneFetch, TypeInv, FetchFails
  <2> QED
    BY <2>3, <2>4 DEF TypeInv
<1>7. ASSUME NEW k \in Kids, Publish(k) PROVE TypeInv'
  <2>1. NoVerdict \in Verdict
    BY DEF NoVerdict, Verdict
  <2>2. TypeOK'
    BY <1>0, <1>7, <2>1 DEF TypeOK, Publish
  <2>3. LocInv' /\ OneFetch'
    BY <1>7 DEF LocInv, OneFetch, TypeInv, Publish
  <2> QED
    BY <2>2, <2>3 DEF TypeInv
<1>8. ASSUME NEW k \in Kids, Retire(k) PROVE TypeInv'
  <2>1. NoVerdict \in Verdict
    BY DEF NoVerdict, Verdict
  <2>2. \A t \in Tasks :
          /\ loc'[t] \in Locals /\ loc'[t].kid = loc[t].kid /\ loc'[t].at = loc[t].at
          /\ loc'[t].known = (loc[t].known /\ loc[t].kid # k)
    <3> SUFFICES ASSUME NEW t \in Tasks
                 PROVE  /\ loc'[t] \in Locals /\ loc'[t].kid = loc[t].kid
                        /\ loc'[t].at = loc[t].at
                        /\ loc'[t].known = (loc[t].known /\ loc[t].kid # k)
      OBVIOUS
    <3> DEFINE b == loc[t].known /\ loc[t].kid # k
    <3>1. loc[t] \in Locals
      BY <1>0 DEF TypeOK
    <3>2. b \in BOOLEAN
      BY Zenon
    <3>3. loc'[t] = [loc[t] EXCEPT !.known = b]
      BY <1>8 DEF Retire
    <3> HIDE DEF b
    <3>4. /\ loc'[t] \in Locals /\ loc'[t].kid = loc[t].kid
          /\ loc'[t].at = loc[t].at /\ loc'[t].known = b
      BY <3>1, <3>2, <3>3 DEF Locals
    <3> QED
      BY <3>4 DEF b
  <2>3. loc' \in [Tasks -> Locals]
    BY <1>8, <2>2 DEF Retire
  <2>4. TypeOK'
    BY <1>0, <1>8, <1>a, <2>1, <2>3 DEF TypeOK, Retire
  <2>5. \A t \in Tasks : loc'[t].known => loc[t].known /\ loc[t].kid # k
    BY <2>2
  <2>6. LocInv' /\ OneFetch'
    BY <1>8, <2>2, <2>5 DEF LocInv, OneFetch, TypeInv, Retire
  <2> QED
    BY <2>4, <2>6 DEF TypeInv
<1>9. CASE Tick
  <2>1. NoVerdict \in Verdict
    BY DEF NoVerdict, Verdict
  <2>2. TypeOK'
    BY <1>0, <1>9, <1>a, <2>1 DEF TypeOK, Tick
  <2>3. LocInv' /\ OneFetch'
    BY <1>0, <1>9, <1>a DEF LocInv, OneFetch, TypeInv, Tick, TypeOK, Locals
  <2> QED
    BY <2>2, <2>3 DEF TypeInv
<1>10. CASE UNCHANGED vars
  BY <1>10 DEF vars, TypeInv, TypeOK, LocInv, OneFetch
<1> QED
  BY <1>1, <1>2, <1>3, <1>4, <1>5, <1>6, <1>7, <1>8, <1>9, <1>10 DEF Next, Continue

\* However many requests validate at once, one fetch at a time, by the holder
\* of the lock.
THEOREM SingleFetch == SafetySpec => [](TypeOK /\ OneFetch)
<1>1. SafetySpec => []TypeInv
  BY TypeInit, TypeNext, PTL DEF SafetySpec
<1> QED
  BY <1>1, PTL DEF TypeInv

-----------------------------------------------------------------------------
(* Withdrawn keys expire *)

\* How old a cached or travelling answer may be, in terms of its keys.
KeysInv ==
  /\ \A k \in Kids : retiredAt[k] =< now
  /\ cache # NoCache => \A k \in cache : LastPublished(k) >= fetchedAt - Latency
  /\ \A t \in Tasks : pc[t] = "answered" =>
       \A k \in loc[t].answer : LastPublished(k) >= loc[t].at

\* The time a key was last published never goes back.
LEMMA LastPublishedGrows ==
  ASSUME TypeOK, KeysInv, NEW k \in Kids,
         \/ UNCHANGED provider
         \/ \E j \in Kids : Publish(j) \/ Retire(j)
         \/ Tick
  PROVE  LastPublished(k) \in Int /\ LastPublished(k)' \in Int /\ LastPublished(k)' >= LastPublished(k)
<1>1. now \in Nat /\ retiredAt \in [Kids -> Int] /\ retiredAt[k] =< now
  BY NowNat DEF TypeOK, KeysInv
<1>2. CASE UNCHANGED provider
  BY <1>1, <1>2 DEF LastPublished, provider
<1>3. CASE \E j \in Kids : Publish(j)
  BY <1>1, <1>3 DEF LastPublished, Publish
<1>4. CASE \E j \in Kids : Retire(j)
  BY <1>1, <1>4 DEF LastPublished, Retire
<1>5. CASE Tick
  BY <1>1, <1>5 DEF LastPublished, Tick
<1> QED
  BY <1>2, <1>3, <1>4, <1>5

\* A lookup among keys that are recent enough accepts a recent key only.
LEMMA MatchKeys ==
  ASSUME NEW t \in Tasks, NEW l \in Locals, NEW keys, NEW since, Match(t, l, keys, since),
         UNCHANGED provider,
         \A k \in keys : LastPublished(k) > now - TTL - Latency
  PROVE  /\ RetiredKeysExpire'
         /\ fetchedAt' = since \/ fetchedAt' = 0
<1>1. \A k : LastPublished(k)' = LastPublished(k)
  BY DEF LastPublished, provider
<1>2. now' = now
  BY DEF provider
<1>3. CASE End(t, "accepted", l) /\ l.kid \in keys /\ fetchedAt' = since
  <2>1. verdict'.kid = l.kid
    BY <1>3 DEF End
  <2> QED
    BY <1>1, <1>2, <1>3, <2>1 DEF RetiredKeysExpire, LastPublished, provider
<1>4. CASE \/ End(t, "rejected", l) /\ (fetchedAt' = since \/ fetchedAt' = 0)
           \/ Suspend(t, "lock", [l EXCEPT !.attempt = 2]) /\ fetchedAt' = 0
  <2>1. verdict'.result # "accepted"
    BY <1>4 DEF End, Suspend, NoVerdict
  <2> QED
    BY <1>4, <2>1 DEF RetiredKeysExpire
<1> QED
  BY <1>3, <1>4, MatchCases

LEMMA KeysInit == Init => KeysInv /\ RetiredKeysExpire
<1> SUFFICES ASSUME Init PROVE KeysInv /\ RetiredKeysExpire
  OBVIOUS
<1>1. /\ now = Start /\ Start \in Nat /\ Latency \in Nat /\ Never \in Int /\ Never =< 0
      /\ \A k \in Kids : retiredAt[k] = Never
  BY JwksAssumption DEF Init, Never
<1>2. RetiredKeysExpire
  BY DEF Init, NoVerdict, RetiredKeysExpire
<1>3. \A t \in Tasks : pc[t] # "answered"
  BY DEF Init
<1>4. cache # NoCache => \A k \in cache : LastPublished(k) >= fetchedAt - Latency
  BY <1>1 DEF Init, LastPublished
<1> QED
  BY <1>1, <1>2, <1>3, <1>4 DEF KeysInv

LEMMA KeysNext ==
  TypeInv /\ KeysInv /\ RetiredKeysExpire /\ [Next]_vars => KeysInv' /\ RetiredKeysExpire'
<1> SUFFICES ASSUME TypeInv, KeysInv, RetiredKeysExpire, [Next]_vars
             PROVE  KeysInv' /\ RetiredKeysExpire'
  OBVIOUS
<1>0. /\ TypeOK /\ now \in Nat /\ fetchedAt \in Nat /\ TTL \in Nat \ {0} /\ Latency \in Nat
      /\ fetchedAt =< now
  BY NowNat, JwksAssumption DEF TypeInv, TypeOK
<1>a. cache # NoCache => cache \subseteq Kids
  BY <1>0 DEF TypeOK
<1>b. \A k \in Kids : LastPublished(k) \in Int
  BY <1>0 DEF TypeOK, LastPublished
<1>c. Fresh(fetchedAt) => \A k \in cache : LastPublished(k) > now - TTL - Latency
  BY <1>0, <1>a, <1>b DEF Fresh, KeysInv
\* What a step of one request keeps, when it only looks at the cache.
<1>d. ASSUME NEW t \in Tasks, UNCHANGED provider, cache' = cache,
             fetchedAt' = fetchedAt \/ fetchedAt' = 0,
             \A r \in Tasks \ {t} : pc'[r] = pc[r] /\ loc'[r] = loc[r],
             pc'[t] # "answered"
      PROVE  KeysInv'
  <2>1. \A k : LastPublished(k)' = LastPublished(k)
    BY <1>d DEF LastPublished, provider
  <2>2. cache' # NoCache => \A k \in cache' : LastPublished(k)' >= fetchedAt' - Latency
    BY <1>0, <1>a, <1>b, <1>d, <2>1 DEF KeysInv
  <2>3. \A r \in Tasks : pc'[r] = "answered" => r # t /\ pc[r] = "answered" /\ loc'[r] = loc[r]
    BY <1>d
  <2>4. \A k \in Kids : retiredAt'[k] =< now'
    BY <1>d DEF KeysInv, provider
  <2> QED
    BY <2>1, <2>2, <2>3, <2>4 DEF KeysInv, LastPublished
<1>1. ASSUME NEW t \in Tasks, NEW k \in Kids, Validate(t, k) PROVE KeysInv' /\ RetiredKeysExpire'
  <2> DEFINE l == [NoLocals EXCEPT !.kid = k, !.known = (k \in published)]
  <2>1. UNCHANGED <<cache, lock, provider>>
    BY <1>1 DEF Validate
  <2>2. CASE Fresh(fetchedAt) /\ Match(t, l, cache, fetchedAt)
    <3>1. l \in Locals
      BY ValidateLocals
    <3> HIDE DEF l
    <3>2. RetiredKeysExpire' /\ (fetchedAt' = fetchedAt \/ fetchedAt' = 0)
      BY <1>c, <2>1, <2>2, <3>1, MatchKeys DEF provider
    <3>3. /\ \A r \in Tasks \ {t} : pc'[r] = pc[r] /\ loc'[r] = loc[r]
          /\ pc'[t] # "answered"
      BY <1>0, <2>2, <3>1, MatchStep DEF TypeOK
    <3> QED
      BY <1>d, <2>1, <3>2, <3>3
  <2>3. CASE Suspend(t, "lock", l) /\ UNCHANGED fetchedAt
    BY <1>0, <1>d, <2>1, <2>3, GotoFacts DEF Suspend, NoVerdict, RetiredKeysExpire
  <2> QED
    BY <1>1, <2>2, <2>3 DEF Validate
<1>2. ASSUME NEW t \in Tasks, EnterFresh(t) PROVE KeysInv' /\ RetiredKeysExpire'
  <2>1. loc[t] \in Locals /\ Match(t, loc[t], cache, fetchedAt) /\ Fresh(fetchedAt)
        /\ UNCHANGED <<cache, lock, provider>> /\ fetchedAt \in 0..now
    BY <1>0, <1>2 DEF TypeOK, EnterFresh
  <2>2. RetiredKeysExpire' /\ (fetchedAt' = fetchedAt \/ fetchedAt' = 0)
    BY <1>c, <2>1, MatchKeys DEF provider
  <2>3. /\ \A r \in Tasks \ {t} : pc'[r] = pc[r] /\ loc'[r] = loc[r]
        /\ pc'[t] # "answered"
    BY <1>0, <2>1, MatchStep
  <2> QED
    BY <1>d, <2>1, <2>2, <2>3
<1>3. ASSUME NEW t \in Tasks, EnterStale(t) PROVE KeysInv' /\ RetiredKeysExpire'
  BY <1>0, <1>3, <1>d, GotoFacts DEF EnterStale, Suspend, NoVerdict, RetiredKeysExpire
<1>4. ASSUME NEW t \in Tasks, ProviderAnswers(t) PROVE KeysInv' /\ RetiredKeysExpire'
  <2>1. \A k : LastPublished(k)' = LastPublished(k)
    BY <1>4 DEF ProviderAnswers, LastPublished, provider
  <2>2. /\ pc'[t] = "answered" /\ loc'[t].answer = published /\ loc'[t].at = now
        /\ \A r \in Tasks \ {t} : pc'[r] = pc[r] /\ loc'[r] = loc[r]
    <3>1. /\ pc'[t] = "answered" /\ loc'[t] = [loc[t] EXCEPT !.answer = published, !.at = now]
          /\ \A r \in Tasks \ {t} : pc'[r] = pc[r] /\ loc'[r] = loc[r]
      BY <1>0, <1>4, GotoFacts DEF ProviderAnswers, Suspend
    <3>2. loc[t] \in Locals
      BY <1>0 DEF TypeOK
    <3> QED
      BY <3>1, <3>2 DEF Locals
  <2>3. \A r \in Tasks : pc'[r] = "answered" =>
          \A k \in loc'[r].answer : LastPublished(k)' >= loc'[r].at
    BY <1>0, <2>1, <2>2 DEF KeysInv, LastPublished
  <2>4. RetiredKeysExpire'
    BY <1>4 DEF ProviderAnswers, Suspend, NoVerdict, RetiredKeysExpire
  <2> QED
    BY <1>4, <2>1, <2>3, <2>4 DEF KeysInv, ProviderAnswers, provider
<1>5. ASSUME NEW t \in Tasks, FetchDone(t) PROVE KeysInv' /\ RetiredKeysExpire'
  <2> DEFINE l == [loc[t] EXCEPT !.answer = {}, !.at = 0]
  <2>1. /\ loc[t] \in Locals /\ loc[t].answer \subseteq Kids /\ l \in Locals
        /\ Match(t, l, loc[t].answer, now) /\ cache' = loc[t].answer
        /\ UNCHANGED provider /\ pc[t] = "answered"
    BY <1>0, <1>5 DEF TypeOK, Locals, FetchDone, Stamp
  <2>2. loc[t].at \in Nat /\ loc[t].at >= now - Latency
    BY <1>0, <2>1 DEF TypeInv, LocInv
  <2>3. \A k \in loc[t].answer : LastPublished(k) >= now - Latency
    BY <1>0, <1>b, <2>1, <2>2 DEF KeysInv
  <2>4. \A k \in loc[t].answer : LastPublished(k) > now - TTL - Latency
    BY <1>0, <1>b, <2>1, <2>3
  <2> HIDE DEF l
  <2>5. RetiredKeysExpire' /\ (fetchedAt' = now \/ fetchedAt' = 0)
    BY <2>1, <2>4, MatchKeys
  <2>6. now \in 0..now
    BY <1>0
  <2>7. /\ \A r \in Tasks \ {t} : pc'[r] = pc[r] /\ loc'[r] = loc[r]
        /\ pc'[t] # "answered"
    BY <1>0, <2>1, <2>6, MatchStep
  <2>8. \A k : LastPublished(k)' = LastPublished(k)
    BY <2>1 DEF LastPublished, provider
  <2>9. \A k \in cache' : LastPublished(k)' >= fetchedAt' - Latency
    BY <1>0, <1>b, <2>1, <2>3, <2>5, <2>8
  <2> QED
    BY <2>1, <2>5, <2>7, <2>8, <2>9 DEF KeysInv, provider
<1>6. ASSUME NEW t \in Tasks, FetchFails(t) PROVE KeysInv' /\ RetiredKeysExpire'
  BY <1>0, <1>6, <1>d, GotoFacts DEF FetchFails, End, RetiredKeysExpire
<1>7. ASSUME \/ \E k \in Kids : Publish(k) \/ Retire(k)
             \/ Tick
      PROVE  KeysInv' /\ RetiredKeysExpire'
  <2>1. \A k \in Kids : LastPublished(k)' \in Int /\ LastPublished(k)' >= LastPublished(k)
    BY <1>0, <1>7, LastPublishedGrows
  <2>2. UNCHANGED <<cache, fetchedAt, pc>> /\ verdict' = NoVerdict
    BY <1>7 DEF Publish, Retire, Tick
  <2>3. \A t \in Tasks : loc'[t].answer = loc[t].answer /\ loc'[t].at = loc[t].at
    BY <1>0, <1>7 DEF Publish, Retire, Tick, TypeOK, Locals
  <2>4. \A k \in Kids : retiredAt'[k] =< now'
    BY <1>0, <1>7 DEF Publish, Retire, Tick, KeysInv, TypeOK
  <2>5. \A t \in Tasks : loc[t].answer \subseteq Kids /\ loc[t].at \in Nat
    BY <1>0 DEF TypeOK, Locals
  <2>6. cache' # NoCache => \A k \in cache' : LastPublished(k)' >= fetchedAt' - Latency
    BY <1>0, <1>a, <1>b, <2>1, <2>2 DEF KeysInv
  <2>7. \A t \in Tasks : pc'[t] = "answered" =>
          \A k \in loc'[t].answer : LastPublished(k)' >= loc'[t].at
    BY <1>b, <2>1, <2>2, <2>3, <2>5 DEF KeysInv
  <2>8. RetiredKeysExpire'
    BY <2>2 DEF NoVerdict, RetiredKeysExpire
  <2> QED
    BY <2>4, <2>6, <2>7, <2>8 DEF KeysInv
<1>8. CASE UNCHANGED vars
  BY <1>8 DEF vars, KeysInv, RetiredKeysExpire, LastPublished
<1> QED
  BY <1>1, <1>2, <1>3, <1>4, <1>5, <1>6, <1>7, <1>8 DEF Next, Continue

\* A key that was withdrawn TTL plus one answer's travel ago is not accepted,
\* whatever the schedule of refreshes and invalidations.
THEOREM KeysExpire == SafetySpec => []RetiredKeysExpire
<1>1. SafetySpec => [](TypeInv /\ KeysInv /\ RetiredKeysExpire)
  BY TypeInit, TypeNext, KeysInit, KeysNext, PTL DEF SafetySpec
<1> QED
  BY <1>1, PTL

-----------------------------------------------------------------------------
(* Only unknown keys are rejected, once the clock has passed TTL *)

\* A known key that is looked up a second time: while it waits, a fresh cache
\* and every answer on its way hold it.  The lock is held only while stale.
RejInv ==
  /\ TTL =< now
  /\ lock # None => ~Fresh(fetchedAt)
  /\ \A t \in Tasks : pc[t] # "idle" /\ loc[t].attempt = 2 /\ loc[t].known =>
       /\ pc[t] = "lock" /\ Fresh(fetchedAt) => loc[t].kid \in cache
       /\ \A u \in Tasks : pc[u] = "answered" => loc[t].kid \in loc[u].answer

\* A lookup in a cache that holds every known second-time key.
LEMMA MatchRejects ==
  ASSUME TypeOK, TTL =< now, NEW t \in Tasks, NEW l \in Locals, NEW keys, NEW since,
         Match(t, l, keys, since),
         l.attempt = 2 /\ l.known => l.kid \in keys
  PROVE  /\ RejectedOnlyUnknown'
         /\ \A r \in Tasks \ {t} : pc'[r] = pc[r] /\ loc'[r] = loc[r]
         /\ \/ pc'[t] = "idle" /\ fetchedAt' = since
            \/ pc'[t] = "lock" /\ fetchedAt' = 0
<1>1. now \in Nat /\ TTL \in Nat /\ ~(now - 0 < TTL)
  BY NowNat, JwksAssumption
<1>2. CASE End(t, "accepted", l) /\ fetchedAt' = since
  BY <1>2, GotoFacts DEF End, RejectedOnlyUnknown
<1>3. CASE End(t, "rejected", l) /\ l.kid \notin keys /\ l.attempt = 2 /\ fetchedAt' = since
  BY <1>3, GotoFacts DEF End, RejectedOnlyUnknown
<1>4. CASE Suspend(t, "lock", [l EXCEPT !.attempt = 2]) /\ fetchedAt' = 0
  BY <1>4, GotoFacts DEF Suspend, NoVerdict, RejectedOnlyUnknown
<1> QED
  BY <1>1, <1>2, <1>3, <1>4, MatchCases

LEMMA RejInit == TTL =< Start /\ Init => RejInv /\ RejectedOnlyUnknown
BY JwksAssumption DEF Init, RejInv, RejectedOnlyUnknown, NoVerdict

LEMMA RejNext ==
  TypeInv /\ RejInv /\ RejectedOnlyUnknown /\ [Next]_vars => RejInv' /\ RejectedOnlyUnknown'
<1> SUFFICES ASSUME TypeInv, RejInv, RejectedOnlyUnknown, [Next]_vars
             PROVE  RejInv' /\ RejectedOnlyUnknown'
  OBVIOUS
<1>0. TypeOK /\ now \in Nat /\ TTL \in Nat \ {0} /\ fetchedAt \in Nat /\ TTL =< now /\ None \notin Tasks
  BY NowNat, JwksAssumption DEF TypeInv, TypeOK, RejInv
<1>a. ~(now - 0 < TTL)
  BY <1>0
\* Another request's lookup, while the cache is what it was or invalidated.
<1>b. ASSUME NEW t \in Tasks, UNCHANGED <<cache, lock, provider>>,
             \A r \in Tasks \ {t} : pc'[r] = pc[r] /\ loc'[r] = loc[r],
             \/ pc'[t] = "idle" /\ fetchedAt' = fetchedAt
             \/ pc'[t] = "lock" /\ fetchedAt' = 0 /\ lock = None
      PROVE  RejInv'
  <2>1. now' = now /\ TTL =< now'
    BY <1>0, <1>b DEF provider
  <2>2. Fresh(fetchedAt)' => Fresh(fetchedAt) /\ fetchedAt' = fetchedAt /\ pc'[t] = "idle"
    BY <1>a, <1>b, <2>1 DEF Fresh
  <2>3. lock' # None => ~Fresh(fetchedAt)'
    BY <1>b, <2>2 DEF RejInv
  <2>4. \A u \in Tasks : pc'[u] = "answered" => pc[u] = "answered" /\ loc'[u] = loc[u] /\ u # t
    BY <1>b
  <2>5. pc'[t] = "lock" => \A u \in Tasks : pc'[u] # "answered"
    BY <1>0, <1>b, <2>4 DEF TypeInv, OneFetch
  <2> QED
    BY <1>b, <2>1, <2>2, <2>3, <2>4, <2>5 DEF RejInv
<1>1. ASSUME NEW t \in Tasks, NEW k \in Kids, Validate(t, k) PROVE RejInv' /\ RejectedOnlyUnknown'
  <2> DEFINE l == [NoLocals EXCEPT !.kid = k, !.known = (k \in published)]
  <2>1. UNCHANGED <<cache, lock, provider>> /\ l \in Locals /\ l.attempt = 1
    BY <1>1, ValidateLocals DEF Validate
  <2>2. CASE Fresh(fetchedAt) /\ Match(t, l, cache, fetchedAt)
    <3>1. lock = None
      BY <2>2 DEF RejInv
    <3> HIDE DEF l
    <3> QED
      BY <1>0, <1>b, <2>1, <2>2, <3>1, MatchRejects
  <2>3. CASE Suspend(t, "lock", l) /\ UNCHANGED fetchedAt /\ ~Fresh(fetchedAt)
    <3> HIDE DEF l
    <3>1. /\ pc'[t] = "lock" /\ loc'[t].attempt = 1
          /\ \A r \in Tasks \ {t} : pc'[r] = pc[r] /\ loc'[r] = loc[r]
      BY <1>0, <2>1, <2>3, GotoFacts DEF Suspend
    <3>2. ~Fresh(fetchedAt)' /\ now' = now
      BY <2>1, <2>3 DEF Fresh, provider
    <3>3. RejectedOnlyUnknown'
      BY <2>3 DEF Suspend, NoVerdict, RejectedOnlyUnknown
    <3> QED
      BY <1>0, <3>1, <3>2, <3>3 DEF RejInv
  <2> QED
    BY <1>1, <2>2, <2>3 DEF Validate
<1>2. ASSUME NEW t \in Tasks, EnterFresh(t) PROVE RejInv' /\ RejectedOnlyUnknown'
  <2>1. loc[t] \in Locals /\ Match(t, loc[t], cache, fetchedAt) /\ Fresh(fetchedAt)
        /\ UNCHANGED <<cache, lock, provider>> /\ lock = None /\ pc[t] = "lock"
    BY <1>0, <1>2 DEF TypeOK, EnterFresh
  <2>2. loc[t].attempt = 2 /\ loc[t].known => loc[t].kid \in cache
    BY <2>1 DEF RejInv
  <2> QED
    BY <1>0, <1>b, <2>1, <2>2, MatchRejects
<1>3. ASSUME NEW t \in Tasks, EnterStale(t) PROVE RejInv' /\ RejectedOnlyUnknown'
  <2>1. /\ pc'[t] = "fetch" /\ loc'[t] = loc[t] /\ pc[t] = "lock"
        /\ \A r \in Tasks \ {t} : pc'[r] = pc[r] /\ loc'[r] = loc[r]
    BY <1>0, <1>3, GotoFacts DEF EnterStale, Suspend
  <2>2. ~Fresh(fetchedAt)' /\ now' = now
    BY <1>3 DEF EnterStale, Fresh, provider
  <2>3. RejectedOnlyUnknown'
    BY <1>3 DEF EnterStale, Suspend, NoVerdict, RejectedOnlyUnknown
  <2> QED
    BY <1>0, <2>1, <2>2, <2>3 DEF RejInv
<1>4. ASSUME NEW t \in Tasks, ProviderAnswers(t) PROVE RejInv' /\ RejectedOnlyUnknown'
  <2>1. /\ pc[t] = "fetch" /\ pc'[t] = "answered"
        /\ loc'[t] = [loc[t] EXCEPT !.answer = published, !.at = now]
        /\ \A r \in Tasks \ {t} : pc'[r] = pc[r] /\ loc'[r] = loc[r]
    BY <1>0, <1>4, GotoFacts DEF ProviderAnswers, Suspend
  <2>2. /\ loc'[t].answer = published /\ loc'[t].attempt = loc[t].attempt
        /\ loc'[t].known = loc[t].known /\ loc'[t].kid = loc[t].kid
    BY <1>0, <2>1 DEF TypeOK, Locals
  <2>3. UNCHANGED <<cache, fetchedAt, lock, provider>> /\ verdict' = NoVerdict
    BY <1>4 DEF ProviderAnswers, Suspend
  <2>4. Fresh(fetchedAt)' = Fresh(fetchedAt) /\ now' = now
    BY <2>3 DEF Fresh, provider
  <2>5. \A r \in Tasks : pc[r] # "idle" /\ loc[r].known => loc[r].kid \in published
    BY DEF TypeInv, LocInv
  <2>6. RejectedOnlyUnknown'
    BY <2>3 DEF NoVerdict, RejectedOnlyUnknown
  <2>7. ASSUME NEW r \in Tasks, pc'[r] # "idle", loc'[r].attempt = 2, loc'[r].known
        PROVE  /\ pc'[r] = "lock" /\ Fresh(fetchedAt)' => loc'[r].kid \in cache'
               /\ \A u \in Tasks : pc'[u] = "answered" => loc'[r].kid \in loc'[u].answer
    <3>1. /\ pc[r] # "idle" /\ loc[r].attempt = 2 /\ loc[r].known /\ loc'[r].kid = loc[r].kid
          /\ pc'[r] = "lock" => pc[r] = "lock"
      BY <2>1, <2>2, <2>7
    <3>2. pc'[r] = "lock" /\ Fresh(fetchedAt)' => loc'[r].kid \in cache'
      BY <2>3, <2>4, <3>1 DEF RejInv
    <3>3. \A u \in Tasks : pc'[u] = "answered" => loc'[r].kid \in loc'[u].answer
      BY <2>1, <2>2, <2>5, <3>1 DEF RejInv
    <3> QED
      BY <3>2, <3>3
  <2>8. TTL =< now' /\ (lock' # None => ~Fresh(fetchedAt)')
    BY <1>0, <2>3, <2>4 DEF RejInv
  <2> QED
    BY <2>6, <2>7, <2>8 DEF RejInv
<1>5. ASSUME NEW t \in Tasks, FetchDone(t) PROVE RejInv' /\ RejectedOnlyUnknown'
  <2> DEFINE l == [loc[t] EXCEPT !.answer = {}, !.at = 0]
  <2>1. /\ l \in Locals /\ l.attempt = loc[t].attempt /\ l.known = loc[t].known
        /\ l.kid = loc[t].kid /\ Match(t, l, loc[t].answer, now)
        /\ cache' = loc[t].answer /\ lock' = None /\ UNCHANGED provider /\ pc[t] = "answered"
    BY <1>0, <1>5 DEF TypeOK, Locals, FetchDone, Stamp
  <2>2. l.attempt = 2 /\ l.known => l.kid \in loc[t].answer
    BY <2>1 DEF RejInv
  <2> HIDE DEF l
  <2>3. /\ RejectedOnlyUnknown'
        /\ \A r \in Tasks \ {t} : pc'[r] = pc[r] /\ loc'[r] = loc[r]
        /\ \/ pc'[t] = "idle"
           \/ pc'[t] = "lock" /\ fetchedAt' = 0
    BY <1>0, <2>1, <2>2, MatchRejects
  <2>4. now' = now
    BY <2>1 DEF provider
  <2>5. pc'[t] = "lock" => ~Fresh(fetchedAt)'
    BY <1>a, <2>3, <2>4 DEF Fresh
  <2>6. \A u \in Tasks : pc'[u] # "answered"
    BY <2>1, <2>3 DEF TypeInv, OneFetch
  <2>7. \A r \in Tasks \ {t} : pc[r] # "idle" /\ loc[r].attempt = 2 /\ loc[r].known =>
          loc[r].kid \in cache'
    BY <2>1 DEF RejInv
  <2> QED
    BY <1>0, <2>1, <2>3, <2>4, <2>5, <2>6, <2>7 DEF RejInv
<1>6. ASSUME NEW t \in Tasks, FetchFails(t) PROVE RejInv' /\ RejectedOnlyUnknown'
  <2>1. /\ pc'[t] = "idle"
        /\ \A r \in Tasks \ {t} : pc'[r] = pc[r] /\ loc'[r] = loc[r]
    BY <1>0, <1>6, GotoFacts DEF FetchFails, End
  <2>2. Fresh(fetchedAt)' = Fresh(fetchedAt) /\ now' = now /\ lock' = None /\ cache' = cache
    BY <1>6 DEF FetchFails, Fresh, provider
  <2>3. RejectedOnlyUnknown'
    BY <1>6 DEF FetchFails, End, RejectedOnlyUnknown
  <2> QED
    BY <1>0, <2>1, <2>2, <2>3 DEF RejInv
<1>7. ASSUME \/ \E k \in Kids : Publish(k) \/ Retire(k)
             \/ Tick
      PROVE  RejInv' /\ RejectedOnlyUnknown'
  <2>1. UNCHANGED <<cache, fetchedAt, pc, lock>> /\ verdict' = NoVerdict
    BY <1>7 DEF Publish, Retire, Tick
  <2>2. now' \in Nat /\ now =< now'
    BY <1>0, <1>7 DEF Publish, Retire, Tick
  <2>3. Fresh(fetchedAt)' => Fresh(fetchedAt)
    <3>1. now' - fetchedAt < TTL => now - fetchedAt < TTL
      <4>1. ASSUME NEW a \in Nat, NEW b \in Nat, a =< b, b - fetchedAt < TTL
            PROVE  a - fetchedAt < TTL
        BY <1>0, <4>1
      <4> QED
        BY <1>0, <2>2, <4>1
    <3> QED
      BY <2>1, <3>1 DEF Fresh
  <2>4. \A t \in Tasks :
          /\ loc'[t].answer = loc[t].answer /\ loc'[t].kid = loc[t].kid
          /\ loc'[t].attempt = loc[t].attempt /\ (loc'[t].known => loc[t].known)
    <3>1. \A t \in Tasks : loc[t] \in Locals
      BY <1>0 DEF TypeOK
    <3>2. CASE \E k \in Kids : Retire(k)
      BY <3>1, <3>2 DEF Retire, Locals
    <3> QED
      BY <1>7, <3>2 DEF Publish, Tick
  <2>5. RejectedOnlyUnknown'
    BY <2>1 DEF NoVerdict, RejectedOnlyUnknown
  <2>6. TTL =< now'
    BY <1>0, <2>2
  <2> QED
    BY <2>1, <2>3, <2>4, <2>5, <2>6 DEF RejInv
<1>8. CASE UNCHANGED vars
  BY <1>8 DEF vars, RejInv, RejectedOnlyUnknown, Fresh
<1> QED
  BY <1>1, <1>2, <1>3, <1>4, <1>5, <1>6, <1>7, <1>8 DEF Next, Continue

\* When the process starts with the clock at TTL or later, a token whose key
\* stays published during its validation is never turned away as unknown.
THEOREM KnownKeysAccepted ==
  ASSUME TTL =< Start
  PROVE  SafetySpec => []RejectedOnlyUnknown
<1>1. SafetySpec => [](TypeInv /\ RejInv /\ RejectedOnlyUnknown)
  BY TypeInit, TypeNext, RejInit, RejNext, PTL DEF SafetySpec
<1> QED
  BY <1>1, PTL

-----------------------------------------------------------------------------
(* A refresh is not repeated *)

\* While the lock is held, whatever is in the cache is stale: nobody fills it
\* but the holder, and time does not make it fresh.
StaleInv == lock # None => ~Fresh(fetchedAt)

\* What the property allows to overwrite.
LEMMA NotFresh == TypeOK => (~Fresh(fetchedAt) <=> cache = NoCache \/ now - fetchedAt >= TTL)
<1> SUFFICES ASSUME TypeOK
             PROVE  ~Fresh(fetchedAt) <=> cache = NoCache \/ now - fetchedAt >= TTL
  OBVIOUS
<1>1. now \in Nat /\ fetchedAt \in Nat /\ TTL \in Nat
  BY NowNat, JwksAssumption DEF TypeOK
<1>2. now - fetchedAt < TTL <=> ~(now - fetchedAt >= TTL)
  BY <1>1
<1> QED
  BY <1>2 DEF Fresh

LEMMA StaleNext == TypeInv /\ StaleInv /\ [Next]_vars => StaleInv'
<1> SUFFICES ASSUME TypeInv, StaleInv, [Next]_vars, lock' # None PROVE ~Fresh(fetchedAt)'
  BY DEF StaleInv
<1>0. TypeOK /\ now \in Nat /\ fetchedAt \in Nat /\ TTL \in Nat
  BY NowNat, JwksAssumption DEF TypeInv, TypeOK
<1>1. ASSUME NEW t \in Tasks, NEW k \in Kids, Validate(t, k) PROVE ~Fresh(fetchedAt)'
  <2>1. ~Fresh(fetchedAt) /\ UNCHANGED <<cache, fetchedAt, now>>
    BY <1>1 DEF Validate, StaleInv, provider
  <2> QED
    BY <2>1 DEF Fresh
<1>2. ASSUME NEW t \in Tasks, EnterFresh(t) \/ FetchDone(t) \/ FetchFails(t) PROVE FALSE
  BY <1>2 DEF EnterFresh, FetchDone, FetchFails
<1>3. ASSUME NEW t \in Tasks, EnterStale(t) PROVE ~Fresh(fetchedAt)'
  BY <1>3 DEF EnterStale, Fresh, provider
<1>4. ASSUME NEW t \in Tasks, ProviderAnswers(t) PROVE ~Fresh(fetchedAt)'
  BY <1>4 DEF ProviderAnswers, StaleInv, Fresh, provider
<1>5. ASSUME \/ \E k \in Kids : Publish(k) \/ Retire(k)
             \/ Tick
      PROVE  ~Fresh(fetchedAt)'
  <2>1. UNCHANGED <<cache, fetchedAt, lock>> /\ now' \in Nat /\ now =< now'
    BY <1>0, <1>5 DEF Publish, Retire, Tick
  <2>2. ASSUME NEW a \in Nat, NEW b \in Nat, a =< b, b - fetchedAt < TTL
        PROVE  a - fetchedAt < TTL
    BY <1>0, <2>2
  <2>3. now' - fetchedAt < TTL => now - fetchedAt < TTL
    BY <1>0, <2>1, <2>2
  <2> QED
    BY <2>1, <2>3 DEF StaleInv, Fresh
<1>6. CASE UNCHANGED vars
  BY <1>6 DEF vars, StaleInv, Fresh
<1> QED
  BY <1>1, <1>2, <1>3, <1>4, <1>5, <1>6 DEF Next, Continue

\* No refresh overwrites a fresh cache, however many requests were waiting for
\* the lock, and wherever the clock started.
THEOREM NoRepeatedRefresh == SafetySpec => RefillOnlyWhenStale
<1>1. Init => StaleInv
  BY DEF Init, StaleInv
<1>2. TypeInv /\ StaleInv => \A t \in Tasks : FetchDone(t) => cache = NoCache \/ now - fetchedAt >= TTL
  <2> SUFFICES ASSUME TypeInv, StaleInv, NEW t \in Tasks, FetchDone(t)
               PROVE  cache = NoCache \/ now - fetchedAt >= TTL
    OBVIOUS
  <2>1. lock = t /\ t # None
    BY JwksAssumption DEF FetchDone, TypeInv, OneFetch
  <2> QED
    BY <2>1, NotFresh DEF StaleInv, TypeInv
<1> QED
  BY <1>1, <1>2, TypeInit, TypeNext, StaleNext, PTL DEF SafetySpec, RefillOnlyWhenStale

-----------------------------------------------------------------------------
(* What bounds a validation *)

\* It ends, starts its second attempt, or goes from the lock to the provider
\* and back: at most twice each, as there is no third attempt.
ValidationOnward ==
  [][\A t \in Tasks : Continue(t) =>
       \/ pc'[t] = "idle"
       \/ loc[t].attempt = 1 /\ loc'[t].attempt = 2
       \/ /\ loc'[t].attempt = loc[t].attempt
          /\ <<pc[t], pc'[t]>> \in {<<"lock", "fetch">>, <<"fetch", "answered">>}]_vars

LEMMA MatchOnward ==
  ASSUME TypeOK, NEW t \in Tasks, NEW l \in Locals, NEW keys, NEW since,
         Match(t, l, keys, since)
  PROVE  pc'[t] = "idle" \/ (l.attempt = 1 /\ loc'[t].attempt = 2)
<1> DEFINE m == [l EXCEPT !.attempt = 2]
<1>1. m.attempt = 2 /\ l.attempt \in {1, 2}
  BY DEF Locals
<1>2. \/ \E r \in {"accepted", "rejected"} : End(t, r, l)
      \/ l.attempt # 2 /\ Suspend(t, "lock", m)
  BY DEF Match
<1> HIDE DEF m
<1>3. pc'[t] = "idle" \/ (l.attempt # 2 /\ loc'[t] = m)
  BY <1>2, GotoFacts DEF End, Suspend
<1> QED
  BY <1>1, <1>3

\* No validation keeps coming back to the lock or to the provider, whatever
\* other requests and the rotations do to the cache meanwhile.
THEOREM ValidationsBounded == SafetySpec => ValidationOnward
<1> DEFINE A == \A t \in Tasks : Continue(t) =>
                  \/ pc'[t] = "idle"
                  \/ loc[t].attempt = 1 /\ loc'[t].attempt = 2
                  \/ /\ loc'[t].attempt = loc[t].attempt
                     /\ <<pc[t], pc'[t]>> \in {<<"lock", "fetch">>, <<"fetch", "answered">>}
<1>1. TypeInv => A
  <2> SUFFICES ASSUME TypeOK, NEW t \in Tasks, Continue(t)
               PROVE  \/ pc'[t] = "idle"
                      \/ loc[t].attempt = 1 /\ loc'[t].attempt = 2
                      \/ /\ loc'[t].attempt = loc[t].attempt
                         /\ <<pc[t], pc'[t]>> \in {<<"lock", "fetch">>, <<"fetch", "answered">>}
    BY DEF TypeInv
  <2>0. loc[t] \in Locals /\ now \in Nat
    BY NowNat DEF TypeOK
  <2>1. CASE EnterFresh(t)
    BY <2>0, <2>1, MatchOnward DEF EnterFresh
  <2>2. CASE EnterStale(t)
    BY <2>2, GotoFacts DEF EnterStale, Suspend
  <2>3. CASE ProviderAnswers(t)
    <3> DEFINE m == [loc[t] EXCEPT !.answer = published, !.at = now]
    <3>1. m.attempt = loc[t].attempt
      BY <2>0 DEF Locals
    <3>2. Goto(t, "answered", m) /\ pc[t] = "fetch"
      BY <2>3 DEF ProviderAnswers, Suspend
    <3> HIDE DEF m
    <3> QED
      BY <3>1, <3>2, GotoFacts
  <2>4. CASE FetchDone(t)
    <3> DEFINE m == [loc[t] EXCEPT !.answer = {}, !.at = 0]
    <3>1. m \in Locals /\ m.attempt = loc[t].attempt
      BY <2>0 DEF Locals
    <3>2. Match(t, m, loc[t].answer, Stamp)
      BY <2>4 DEF FetchDone
    <3> HIDE DEF m
    <3> QED
      BY <3>1, <3>2, MatchOnward
  <2>5. CASE FetchFails(t)
    BY <2>5, GotoFacts DEF FetchFails, End
  <2> QED
    BY <2>1, <2>2, <2>3, <2>4, <2>5 DEF Continue
<1> QED
  BY <1>1, TypeInit, TypeNext, PTL DEF SafetySpec, ValidationOnward
=============================================================================
