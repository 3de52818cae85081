----------------------------- MODULE JwksCache ------------------------------
(***************************************************************************)
(* The signing-key cache of the control plane (auth/jwt_validator.py):     *)
(* get_jwks with its lock, and validate_token, which forces one refresh    *)
(* when a token names a key the cache does not hold.                       *)
(*                                                                         *)
(* A validation is suspended in two places: waiting for the lock, and in   *)
(* the HTTP request to the identity provider, which has an instant at      *)
(* which the provider reads its keys and a later one at which the answer   *)
(* arrives.  Keys are published and retired by the provider meanwhile.     *)
(* Time is time.monotonic(), counted in steps of a clock that starts at 0  *)
(* when the host boots.                                                    *)
(***************************************************************************)
EXTENDS Integers, FiniteSets

CONSTANTS
  Tasks,         \* requests that can be validating together
  Kids,          \* key ids, published or not, that tokens may name
  TTL,           \* settings.jwks_cache_ttl_seconds
  Start,         \* clock reading when the process starts
  Latency,       \* bound: steps an answer may travel (httpx timeout)
  MaxTime,       \* bound: the clock stops here
  MaxRotations   \* bound: how often the provider changes its keys

None    == "none"
NoCache == {"no cache"}   \* the initial None, which is not a set of kids
NoKid   == "no kid"

ASSUME JwksAssumption ==
  /\ TTL \in Nat \ {0} /\ Start \in Nat /\ Latency \in Nat
  /\ MaxTime \in Nat /\ Start =< MaxTime /\ MaxRotations \in Nat
  /\ None \notin Tasks /\ NoKid \notin Kids /\ NoCache \notin SUBSET Kids

VARIABLES
  cache,      \* _jwks_cache: the kids in it, or NoCache
  fetchedAt,  \* _jwks_fetched_at
  lock,       \* the request holding _jwks_lock, or None
  pc,         \* where each validation is suspended
  loc,        \* its locals: the kid, the attempt, the answer on its way
  verdict,    \* how a validation ended, if the last step ended one
  published,  \* the keys the provider publishes now
  retiredAt,  \* when a key was last published, for the keys that are not now
  now,        \* time.monotonic()
  rotations   \* bound: changes of the keys so far

vars == <<cache, fetchedAt, lock, pc, loc, verdict, published, retiredAt, now, rotations>>

States == {"idle", "lock", "fetch", "answered"}

Locals == [kid : Kids \cup {NoKid}, attempt : 1..2, known : BOOLEAN,
           answer : SUBSET Kids, at : Nat]
Verdict == [result : {"none", "accepted", "rejected", "error"},
            kid : Kids \cup {NoKid}, known : BOOLEAN]

NoLocals  == [kid |-> NoKid, attempt |-> 1, known |-> FALSE, answer |-> {}, at |-> 0]
NoVerdict == [result |-> "none", kid |-> NoKid, known |-> FALSE]

\* No key of this name was ever published, as far as a request can care.
Never == -(TTL + Latency)

\* The lifespan hook warms the cache; it goes on without it when that fails.
Init ==
  /\ published \in SUBSET Kids
  /\ \/ cache = NoCache /\ fetchedAt = 0
     \/ cache = published /\ fetchedAt = Start
  /\ lock = None
  /\ pc = [t \in Tasks |-> "idle"]
  /\ loc = [t \in Tasks |-> NoLocals]
  /\ verdict = NoVerdict
  /\ retiredAt = [k \in Kids |-> Never]
  /\ now = Start
  /\ rotations = 0

provider == <<published, retiredAt, now, rotations>>

-----------------------------------------------------------------------------
(* validate_token and get_jwks *)

\* Seeded bug: an invalidated time stamp counts as fresh for ever.
FreshOnceFilled(since) == cache # NoCache /\ since =< now

\* The test of the fast path, repeated under the lock.
Fresh(since) == cache # NoCache /\ now - since < TTL

Goto(t, to, l) ==
  /\ pc' = [pc EXCEPT ![t] = to]
  /\ loc' = [loc EXCEPT ![t] = l]

\* The validation goes on at the await `to'.
Suspend(t, to, l) == Goto(t, to, l) /\ verdict' = NoVerdict

\* The validation of l ends; its locals are gone.  The checks of signature,
\* audience and issuer that follow a match touch no state.
End(t, result, l) ==
  /\ Goto(t, "idle", NoLocals)
  /\ verdict' = [result |-> result, kid |-> l.kid, known |-> l.known]

\* Seeded bug: the time stamp is left alone, the second get_jwks is a no-op.
KeepStamp(since) == since

\* _jwks_fetched_at = 0.0
Invalidated(since) == 0

\* get_jwks returned keys, cached since the time `since'.  A match ends the
\* validation.  Otherwise the first attempt invalidates the cache and calls
\* get_jwks again: the fast path may answer at once (with the same keys: no
\* await has passed), or the lock is needed.  The second attempt rejects.
Match(t, l, keys, since) ==
  IF l.kid \in keys
  THEN End(t, "accepted", l) /\ fetchedAt' = since
  ELSE IF l.attempt = 2
  THEN End(t, "rejected", l) /\ fetchedAt' = since
  ELSE /\ fetchedAt' = Invalidated(since)
       /\ IF now - Invalidated(since) < TTL
          THEN End(t, "rejected", l)
          ELSE Suspend(t, "lock", [l EXCEPT !.attempt = 2])

\* A token that names key k arrives; the fast path needs no lock.
Validate(t, k) ==
  /\ pc[t] = "idle"
  /\ LET l == [NoLocals EXCEPT !.kid = k, !.known = (k \in published)]
     IN  IF Fresh(fetchedAt)
         THEN Match(t, l, cache, fetchedAt)
         ELSE Suspend(t, "lock", l) /\ UNCHANGED fetchedAt
  /\ UNCHANGED <<cache, lock, provider>>

\* Seeded bug: the lock is not taken around the fetch.
EnterUnlocked(t) ==
  /\ pc[t] = "lock"
  /\ ~Fresh(fetchedAt)
  /\ Suspend(t, "fetch", loc[t])
  /\ UNCHANGED <<cache, fetchedAt, lock, provider>>

\* The lock is free: someone may have refreshed meanwhile, so test again.
EnterFresh(t) ==
  /\ pc[t] = "lock"
  /\ lock = None
  /\ Fresh(fetchedAt)
  /\ Match(t, loc[t], cache, fetchedAt)
  /\ UNCHANGED <<cache, lock, provider>>

\* Seeded bug: no second test under the lock.
EnterAlways(t) ==
  /\ pc[t] = "lock"
  /\ lock = None
  /\ lock' = t
  /\ Suspend(t, "fetch", loc[t])
  /\ UNCHANGED <<cache, fetchedAt, provider>>

EnterStale(t) ==
  /\ pc[t] = "lock"
  /\ lock = None
  /\ ~Fresh(fetchedAt)
  /\ lock' = t
  /\ Suspend(t, "fetch", loc[t])
  /\ UNCHANGED <<cache, fetchedAt, provider>>

\* The provider reads its keys for this answer.
ProviderAnswers(t) ==
  /\ pc[t] = "fetch"
  /\ Suspend(t, "answered", [loc[t] EXCEPT !.answer = published, !.at = now])
  /\ UNCHANGED <<cache, fetchedAt, lock, provider>>

\* _jwks_fetched_at = time.monotonic()
Stamp == now

\* The answer arrives: fill the cache, release the lock, look for the key.
FetchDone(t) ==
  /\ pc[t] = "answered"
  /\ cache' = loc[t].answer
  /\ lock' = None
  /\ Match(t, [loc[t] EXCEPT !.answer = {}, !.at = 0], loc[t].answer, Stamp)
  /\ UNCHANGED provider

\* Seeded bug: an exception in the fetch leaves the lock taken.
FailKeepingLock(t) ==
  /\ pc[t] \in {"fetch", "answered"}
  /\ End(t, "error", loc[t])
  /\ UNCHANGED <<cache, fetchedAt, lock, provider>>

\* The request fails or times out: the lock is released, the cache stays.
FetchFails(t) ==
  /\ pc[t] \in {"fetch", "answered"}
  /\ lock' = None
  /\ End(t, "error", loc[t])
  /\ UNCHANGED <<cache, fetchedAt, provider>>

-----------------------------------------------------------------------------
(* The provider and the clock *)

Publish(k) ==
  /\ rotations < MaxRotations
  /\ k \notin published
  /\ published' = published \cup {k}
  /\ rotations' = rotations + 1
  /\ verdict' = NoVerdict
  /\ UNCHANGED <<cache, fetchedAt, lock, pc, loc, retiredAt, now>>

\* A validation under way for k no longer concerns a key that stays published.
Retire(k) ==
  /\ rotations < MaxRotations
  /\ k \in published
  /\ published' = published \ {k}
  /\ retiredAt' = [retiredAt EXCEPT ![k] = now]
  /\ loc' = [t \in Tasks |->
       [loc[t] EXCEPT !.known = @ /\ loc[t].kid # k]]
  /\ rotations' = rotations + 1
  /\ verdict' = NoVerdict
  /\ UNCHANGED <<cache, fetchedAt, lock, pc, now>>

\* Time passes, but no answer travels for longer than Latency.
Tick ==
  /\ now < MaxTime
  /\ \A t \in Tasks : pc[t] = "answered" => now - loc[t].at < Latency
  /\ now' = now + 1
  /\ verdict' = NoVerdict
  /\ UNCHANGED <<cache, fetchedAt, lock, pc, loc, published, retiredAt, rotations>>

-----------------------------------------------------------------------------
Continue(t) ==
  \/ EnterFresh(t) \/ EnterStale(t)
  \/ ProviderAnswers(t) \/ FetchDone(t) \/ FetchFails(t)

Next ==
  \/ \E t \in Tasks : Continue(t) \/ \E k \in Kids : Validate(t, k)
  \/ \E k \in Kids : Publish(k) \/ Retire(k)
  \/ Tick

\* A request in flight is answered or fails (httpx has a timeout); asyncio.Lock
\* wakes its waiters first come, first served, so no waiter starves.
Fairness ==
  \A t \in Tasks :
    /\ WF_vars(ProviderAnswers(t) \/ FetchDone(t) \/ FetchFails(t))
    /\ SF_vars(EnterFresh(t) \/ EnterStale(t))

SafetySpec == Init /\ [][Next]_vars

Spec == SafetySpec /\ Fairness

-----------------------------------------------------------------------------
(* Properties *)

TypeOK ==
  /\ cache \in (SUBSET Kids) \cup {NoCache}
  /\ fetchedAt \in 0..now
  /\ lock \in Tasks \cup {None}
  /\ pc \in [Tasks -> States]
  /\ loc \in [Tasks -> Locals]
  /\ verdict \in Verdict
  /\ published \subseteq Kids
  /\ retiredAt \in [Kids -> Int]
  /\ now \in Start..MaxTime
  /\ rotations \in 0..MaxRotations

\* Stampede protection: whatever requests arrive together, one fetch is under
\* way at a time, and it is the lock holder's.
OneFetch ==
  \A t \in Tasks : pc[t] \in {"fetch", "answered"} <=> lock = t

LastPublished(k) == IF k \in published THEN now ELSE retiredAt[k]

\* A key the provider has withdrawn stops being accepted: the key of an
\* accepted token was published less than TTL plus one answer's travel ago,
\* also when another request has invalidated the cache in between.
RetiredKeysExpire ==
  verdict.result = "accepted" => LastPublished(verdict.kid) > now - TTL - Latency

\* The cache is refilled only when it was empty or its time was up, also by a
\* request that invalidated it: those that queued behind a refresh do not
\* refresh again.
RefillOnlyWhenStale ==
  [][\A t \in Tasks : FetchDone(t) => cache = NoCache \/ now - fetchedAt >= TTL]_vars

\* Once the clock is past TTL, a token is turned away for an unknown key only
\* if its key was not published during the whole validation: no interleaving
\* with another request's refresh makes the forced refresh see older keys.
RejectedOnlyUnknown == verdict.result = "rejected" => ~verdict.known

\* Every validation ends: the lock is given back on every path.
ValidationsEnd == \A t \in Tasks : pc[t] # "idle" ~> pc[t] = "idle"
=============================================================================
