------------------------------ MODULE OboCache ------------------------------
(***************************************************************************)
(* The on-behalf-of token cache of the control plane                       *)
(* (auth/obo_exchange.py: exchange_for_aks).  One lock is held over the    *)
(* look-up, the exchange on an executor thread and the store, for all      *)
(* users.  The identity provider issues the token at some instant of the   *)
(* exchange and the answer arrives later; nothing bounds how much later.   *)
(***************************************************************************)
EXTENDS Integers, FiniteSets

CONSTANTS
  Tasks,     \* requests that can be exchanging together
  Users,     \* user object ids; the scope is the same for all
  Margin,    \* the 300 s a cached token must still live
  Lives,     \* values of expires_in the provider may grant
  MaxTime    \* bound: the clock stops here

None    == "none"
NoEntry == [user |-> None, expires |-> 0, until |-> 0]

ASSUME OboAssumption ==
  /\ Margin \in Nat /\ Lives \subseteq Nat /\ MaxTime \in Nat
  /\ None \notin Tasks /\ None \notin Users

VARIABLES
  ready,    \* init_obo_client has run: _msal_app is not None
  entries,  \* _token_cache: the token of each user (whose, when it expires
            \*   for the provider) and until when it may be served
  lock,     \* the request holding _cache_lock, or None
  pc,       \* where each request is suspended
  loc,      \* its user, its reading of the clock, the token on its way
  served,   \* the token handed out by the last step, if it handed one out
  now       \* time.monotonic()

vars == <<ready, entries, lock, pc, loc, served, now>>

States == {"idle", "lock", "exchange", "issued"}

Entry  == [user : Users \cup {None}, expires : Nat, until : Nat]
Locals == [user : Users \cup {None}, at : Nat, life : Nat, expires : Nat]
Served == [to : Users \cup {None}, user : Users \cup {None}, expires : Nat, cached : BOOLEAN]

NoLocals == [user |-> None, at |-> 0, life |-> 0, expires |-> 0]
Nothing  == [to |-> None, user |-> None, expires |-> 0, cached |-> FALSE]

\* The lifespan hook initialises the client, and starts without it on failure.
Init ==
  /\ ready \in BOOLEAN
  /\ entries = [u \in Users |-> NoEntry]
  /\ lock = None
  /\ pc = [t \in Tasks |-> "idle"]
  /\ loc = [t \in Tasks |-> NoLocals]
  /\ served = Nothing
  /\ now = 0

Goto(t, to, l) ==
  /\ pc' = [pc EXCEPT ![t] = to]
  /\ loc' = [loc EXCEPT ![t] = l]

Leave(t) == Goto(t, "idle", NoLocals)

-----------------------------------------------------------------------------
(* exchange_for_aks *)

\* Seeded bug: the cache is keyed by the scope alone.
KeyOfScope(u) == CHOOSE v \in Users : TRUE

\* cache_key = (user_oid, scope)
Key(u) == u

\* A request of user u; the lock is taken by a step of its own.
Request(t, u) ==
  /\ pc[t] = "idle"
  /\ Goto(t, "lock", [NoLocals EXCEPT !.user = u])
  /\ served' = Nothing
  /\ UNCHANGED <<ready, entries, lock, now>>

Hit(u) == entries[Key(u)] # NoEntry /\ now < entries[Key(u)].until

\* The lock is free and the cached token is young enough.
CacheHit(t) ==
  /\ pc[t] = "lock" /\ lock = None
  /\ Hit(loc[t].user)
  /\ LET e == entries[Key(loc[t].user)]
     IN  served' = [to |-> loc[t].user, user |-> e.user, expires |-> e.expires, cached |-> TRUE]
  /\ Leave(t)
  /\ UNCHANGED <<ready, entries, lock, now>>

\* Seeded bug: the lock protects the look-up only.
MissUnlocked(t) ==
  /\ pc[t] = "lock" /\ lock = None /\ ready
  /\ ~Hit(loc[t].user)
  /\ Goto(t, "exchange", [loc[t] EXCEPT !.at = now])
  /\ served' = Nothing
  /\ UNCHANGED <<ready, entries, lock, now>>

\* No token, or it is over: the exchange starts, with the lock held.
CacheMiss(t) ==
  /\ pc[t] = "lock" /\ lock = None /\ ready
  /\ ~Hit(loc[t].user)
  /\ lock' = t
  /\ Goto(t, "exchange", [loc[t] EXCEPT !.at = now])
  /\ served' = Nothing
  /\ UNCHANGED <<ready, entries, now>>

\* The client was never initialised: RuntimeError, inside the lock.
NotInitialised(t) ==
  /\ pc[t] = "lock" /\ lock = None /\ ~ready
  /\ ~Hit(loc[t].user)
  /\ Leave(t)
  /\ served' = Nothing
  /\ UNCHANGED <<ready, entries, lock, now>>

\* The provider issues a token for the user who is asking.
Issue(t, life) ==
  /\ pc[t] = "exchange"
  /\ Goto(t, "issued", [loc[t] EXCEPT !.life = life, !.expires = now + life])
  /\ served' = Nothing
  /\ UNCHANGED <<ready, entries, lock, now>>

\* Seeded bug: the clock is read again when the answer has arrived.
UntilFromArrival(at, life) == now + (IF life > Margin THEN life - Margin ELSE 0)

\* now + max(0, expires_in - 300), with the clock of the look-up
Until(at, life) == at + (IF life > Margin THEN life - Margin ELSE 0)

\* The answer arrives: store the token, release the lock, hand it out.
ExchangeDone(t) ==
  /\ pc[t] = "issued"
  /\ LET l == loc[t]
     IN  /\ entries' = [entries EXCEPT ![Key(l.user)] =
              [user |-> l.user, expires |-> l.expires, until |-> Until(l.at, l.life)]]
         /\ served' = [to |-> l.user, user |-> l.user, expires |-> l.expires, cached |-> FALSE]
  /\ lock' = None
  /\ Leave(t)
  /\ UNCHANGED <<ready, now>>

\* Seeded bug: the lock is not released when the exchange is refused.
FailKeepingLock(t) ==
  /\ pc[t] \in {"exchange", "issued"}
  /\ Leave(t)
  /\ served' = Nothing
  /\ UNCHANGED <<ready, entries, lock, now>>

\* The provider refuses or the call raises: nothing is stored.
ExchangeFails(t) ==
  /\ pc[t] \in {"exchange", "issued"}
  /\ lock' = None
  /\ Leave(t)
  /\ served' = Nothing
  /\ UNCHANGED <<ready, entries, now>>

Tick ==
  /\ now < MaxTime
  /\ now' = now + 1
  /\ served' = Nothing
  /\ UNCHANGED <<ready, entries, lock, pc, loc>>

-----------------------------------------------------------------------------
Enter(t) == CacheHit(t) \/ CacheMiss(t) \/ NotInitialised(t)

Answered(t) == ExchangeDone(t) \/ ExchangeFails(t)

Next ==
  \/ \E t \in Tasks :
       \/ \E u \in Users : Request(t, u)
       \/ Enter(t)
       \/ \E life \in Lives : Issue(t, life)
       \/ Answered(t)
  \/ Tick

\* asyncio.Lock wakes its waiters in turn.  That an exchange ends is the
\* provider's doing: the code sets no timeout, so this is assumed of it.
Fairness ==
  \A t \in Tasks :
    /\ SF_vars(Enter(t))
    /\ WF_vars((\E life \in Lives : Issue(t, life)) \/ Answered(t))

SafetySpec == Init /\ [][Next]_vars

Spec == SafetySpec /\ Fairness

-----------------------------------------------------------------------------
(* Properties *)

TypeOK ==
  /\ ready \in BOOLEAN
  /\ entries \in [Users -> Entry]
  /\ lock \in Tasks \cup {None}
  /\ pc \in [Tasks -> States]
  /\ loc \in [Tasks -> Locals]
  /\ served \in Served
  /\ now \in 0..MaxTime

\* Whoever waits behind whose exchange: a request gets its own user's token.
OwnToken == served.user = served.to

\* A token that comes from the cache is good for more than Margin, however
\* long the exchange took that fetched it and whatever life it was given.
CachedTokenLives == served.cached => served.expires - now > Margin

\* A cached token is replaced only when its time is over: of the requests that
\* wait for one exchange of their user, none repeats it.
ReplacedOnlyWhenOver ==
  [][\A u \in Users :
       entries'[u] # entries[u] /\ entries[u] # NoEntry => now >= entries[u].until]_vars

\* Every request gets its token or an error: no path keeps the lock.
RequestsEnd == \A t \in Tasks : pc[t] # "idle" ~> pc[t] = "idle"
=============================================================================
