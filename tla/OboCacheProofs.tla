--------------------------- MODULE OboCacheProofs ---------------------------
(***************************************************************************)
(* Theorems about module OboCache, for any users, requests, margin and     *)
(* token lives.                                                            *)
(***************************************************************************)
EXTENDS OboCache, TLAPS

Exchanging == {"exchange", "issued"}

\* Only the lock holder exchanges.
HolderInv ==
  /\ \A t \in Tasks : pc[t] \in Exchanging <=> lock = t
  /\ \A t \in Tasks : pc[t] # "idle" => loc[t].user \in Users

\* What an entry, and a token on its way, are worth.
EntryInv ==
  /\ \A u \in Users :
       entries[u].user = u \/ entries[u] = NoEntry
  /\ \A u \in Users :
       entries[u].until = 0 \/ entries[u].until =< now \/ entries[u].until =< entries[u].expires - Margin
  /\ \A t \in Tasks : pc[t] = "issued" => loc[t].expires >= loc[t].at + loc[t].life
  /\ \A t \in Tasks : pc[t] \in Exchanging => loc[t].at =< now
  /\ \A t \in Tasks : pc[t] \in Exchanging =>
       entries[loc[t].user] = NoEntry \/ entries[loc[t].user].until =< now

OboInv == TypeOK /\ HolderInv /\ EntryInv /\ OwnToken /\ CachedTokenLives

LEMMA GotoFacts ==
  ASSUME TypeOK, NEW t \in Tasks, NEW to \in States, NEW l \in Locals, Goto(t, to, l)
  PROVE  /\ pc'[t] = to /\ loc'[t] = l
         /\ \A r \in Tasks \ {t} : pc'[r] = pc[r] /\ loc'[r] = loc[r]
         /\ pc' \in [Tasks -> States] /\ loc' \in [Tasks -> Locals]
BY DEF TypeOK, Goto

LEMMA LeaveFacts ==
  ASSUME TypeOK, NEW t \in Tasks, Leave(t)
  PROVE  /\ pc'[t] = "idle"
         /\ \A r \in Tasks \ {t} : pc'[r] = pc[r] /\ loc'[r] = loc[r]
         /\ pc' \in [Tasks -> States] /\ loc' \in [Tasks -> Locals]
<1>1. NoLocals \in Locals /\ "idle" \in States
  BY DEF NoLocals, Locals, States
<1> QED
  BY <1>1, GotoFacts DEF Leave

LEMMA NothingServed ==
  served' = Nothing => served' \in Served /\ OwnToken' /\ CachedTokenLives'
<1>1. Nothing \in Served
  BY DEF Nothing, Served
<1> QED
  BY <1>1 DEF Nothing, OwnToken, CachedTokenLives

LEMMA OboInit == Init => OboInv
<1> SUFFICES ASSUME Init PROVE OboInv
  OBVIOUS
<1>1. NoEntry \in Entry /\ NoLocals \in Locals /\ Nothing \in Served
  BY DEF NoEntry, Entry, NoLocals, Locals, Nothing, Served
<1>2. TypeOK
  BY <1>1, OboAssumption DEF Init, TypeOK, States
<1>3. HolderInv
  BY OboAssumption DEF Init, HolderInv, Exchanging
<1>4. EntryInv
  BY DEF Init, EntryInv, NoEntry, Exchanging
<1>5. OwnToken /\ CachedTokenLives
  BY DEF Init, OwnToken, CachedTokenLives, Nothing
<1> QED
  BY <1>2, <1>3, <1>4, <1>5 DEF OboInv

LEMMA OboNext == OboInv /\ [Next]_vars => OboInv'
<1> SUFFICES ASSUME OboInv, [Next]_vars PROVE OboInv'
  OBVIOUS
<1> USE OboAssumption
<1>0. /\ TypeOK /\ HolderInv /\ EntryInv /\ now \in Nat /\ Margin \in Nat /\ MaxTime \in Nat
      /\ None \notin Tasks
  BY DEF OboInv, TypeOK
<1>1. ASSUME NEW t \in Tasks, NEW u \in Users, Request(t, u) PROVE OboInv'
  <2> DEFINE l == [NoLocals EXCEPT !.user = u]
  <2>1. l \in Locals /\ l.user = u
    BY DEF NoLocals, Locals
  <2>2. Goto(t, "lock", l) /\ pc[t] = "idle" /\ UNCHANGED <<ready, entries, lock, now>>
        /\ served' = Nothing
    BY <1>1 DEF Request
  <2> HIDE DEF l
  <2>3. /\ pc'[t] = "lock" /\ loc'[t] = l
        /\ \A r \in Tasks \ {t} : pc'[r] = pc[r] /\ loc'[r] = loc[r]
        /\ pc' \in [Tasks -> States] /\ loc' \in [Tasks -> Locals]
    BY <1>0, <2>1, <2>2, GotoFacts DEF States
  <2>4. TypeOK'
    BY <1>0, <2>2, <2>3, NothingServed DEF TypeOK
  <2>5. HolderInv'
    BY <1>0, <2>1, <2>2, <2>3 DEF HolderInv, Exchanging
  <2>6. EntryInv'
    BY <1>0, <2>1, <2>2, <2>3 DEF EntryInv, Exchanging
  <2> QED
    BY <2>2, <2>4, <2>5, <2>6, NothingServed DEF OboInv
<1>2. ASSUME NEW t \in Tasks, CacheHit(t) PROVE OboInv'
  <2> DEFINE u == loc[t].user
  <2>1. /\ pc[t] = "lock" /\ lock = None /\ Hit(u) /\ Leave(t) /\ UNCHANGED <<ready, entries, lock, now>>
        /\ served' = [to |-> u, user |-> entries[u].user,
                      expires |-> entries[u].expires, cached |-> TRUE]
    BY <1>2 DEF CacheHit, Key
  <2>2. u \in Users /\ entries[u] \in Entry
    BY <1>0, <2>1 DEF HolderInv, TypeOK
  <2>3. /\ pc'[t] = "idle"
        /\ \A r \in Tasks \ {t} : pc'[r] = pc[r] /\ loc'[r] = loc[r]
        /\ pc' \in [Tasks -> States] /\ loc' \in [Tasks -> Locals]
    BY <1>0, <2>1, LeaveFacts
  <2> HIDE DEF u
  <2>4. served' \in Served
    BY <2>1, <2>2 DEF Served, Entry
  <2>5. OwnToken'
    BY <1>0, <2>1, <2>2 DEF OwnToken, EntryInv, Hit, Key
  <2>6. CachedTokenLives'
    <3>1. /\ now < entries[u].until /\ entries[u].until \in Nat /\ entries[u].expires \in Nat
      BY <2>1, <2>2 DEF Hit, Key, Entry
    <3>2. entries[u].until =< entries[u].expires - Margin
      BY <1>0, <2>2, <3>1 DEF EntryInv
    <3>3. served'.expires = entries[u].expires /\ now' = now
      BY <2>1
    <3> QED
      BY <1>0, <3>1, <3>2, <3>3 DEF CachedTokenLives
  <2>7. TypeOK'
    BY <1>0, <2>1, <2>3, <2>4 DEF TypeOK
  <2>8. HolderInv'
    BY <1>0, <2>1, <2>3 DEF HolderInv, Exchanging
  <2>9. EntryInv'
    BY <1>0, <2>1, <2>3 DEF EntryInv, Exchanging
  <2> QED
    BY <2>5, <2>6, <2>7, <2>8, <2>9 DEF OboInv
<1>3. ASSUME NEW t \in Tasks, CacheMiss(t) PROVE OboInv'
  <2> DEFINE l == [loc[t] EXCEPT !.at = now]
  <2>1. /\ pc[t] = "lock" /\ lock = None /\ ~Hit(loc[t].user) /\ lock' = t
        /\ Goto(t, "exchange", l) /\ served' = Nothing /\ UNCHANGED <<ready, entries, now>>
    BY <1>3 DEF CacheMiss
  <2>2. l \in Locals /\ l.user = loc[t].user /\ l.at = now
    BY <1>0 DEF TypeOK, Locals
  <2>3. loc[t].user \in Users /\ entries[loc[t].user] \in Entry
    BY <1>0, <2>1 DEF HolderInv, TypeOK
  <2>4. entries[loc[t].user] = NoEntry \/ entries[loc[t].user].until =< now
    BY <1>0, <2>1, <2>3 DEF Hit, Key, Entry
  <2> HIDE DEF l
  <2>5. /\ pc'[t] = "exchange" /\ loc'[t] = l
        /\ \A r \in Tasks \ {t} : pc'[r] = pc[r] /\ loc'[r] = loc[r]
        /\ pc' \in [Tasks -> States] /\ loc' \in [Tasks -> Locals]
    BY <1>0, <2>1, <2>2, GotoFacts DEF States
  <2>6. TypeOK'
    BY <1>0, <2>1, <2>5, NothingServed DEF TypeOK
  <2>7. HolderInv'
    BY <1>0, <2>1, <2>2, <2>3, <2>5 DEF HolderInv, Exchanging
  <2>8. EntryInv'
    BY <1>0, <2>1, <2>2, <2>4, <2>5 DEF EntryInv, Exchanging
  <2> QED
    BY <2>1, <2>6, <2>7, <2>8, NothingServed DEF OboInv
<1>4. ASSUME NEW t \in Tasks, NotInitialised(t) PROVE OboInv'
  <2>1. /\ pc'[t] = "idle" /\ pc[t] = "lock"
        /\ \A r \in Tasks \ {t} : pc'[r] = pc[r] /\ loc'[r] = loc[r]
        /\ pc' \in [Tasks -> States] /\ loc' \in [Tasks -> Locals]
        /\ served' = Nothing /\ UNCHANGED <<ready, entries, lock, now>>
    BY <1>0, <1>4, LeaveFacts DEF NotInitialised
  <2>2. TypeOK'
    BY <1>0, <2>1, NothingServed DEF TypeOK
  <2>3. HolderInv' /\ EntryInv'
    BY <1>0, <2>1 DEF HolderInv, EntryInv, Exchanging
  <2> QED
    BY <2>1, <2>2, <2>3, NothingServed DEF OboInv
<1>5. ASSUME NEW t \in Tasks, NEW life \in Lives, Issue(t, life) PROVE OboInv'
  <2> DEFINE l == [loc[t] EXCEPT !.life = life, !.expires = now + life]
  <2>1. /\ pc[t] = "exchange" /\ Goto(t, "issued", l) /\ served' = Nothing
        /\ UNCHANGED <<ready, entries, lock, now>>
    BY <1>5 DEF Issue
  <2>2. /\ l \in Locals /\ l.user = loc[t].user /\ l.at = loc[t].at
        /\ l.life = life /\ l.expires = now + life /\ life \in Nat /\ loc[t].at \in Nat
    <3>1. life \in Nat /\ now + life \in Nat
      BY <1>0
    <3>2. loc[t] \in Locals
      BY <1>0 DEF TypeOK
    <3> QED
      BY <3>1, <3>2 DEF Locals
  <2> HIDE DEF l
  <2>3. /\ pc'[t] = "issued" /\ loc'[t] = l
        /\ \A r \in Tasks \ {t} : pc'[r] = pc[r] /\ loc'[r] = loc[r]
        /\ pc' \in [Tasks -> States] /\ loc' \in [Tasks -> Locals]
    BY <1>0, <2>1, <2>2, GotoFacts DEF States
  <2>4. TypeOK'
    BY <1>0, <2>1, <2>3, NothingServed DEF TypeOK
  <2>5. HolderInv'
    BY <1>0, <2>1, <2>2, <2>3 DEF HolderInv, Exchanging
  <2>6. l.expires >= l.at + l.life
    BY <1>0, <2>1, <2>2 DEF EntryInv, Exchanging
  <2>7. EntryInv'
    BY <1>0, <2>1, <2>2, <2>3, <2>6 DEF EntryInv, Exchanging
  <2> QED
    BY <2>1, <2>4, <2>5, <2>7, NothingServed DEF OboInv
<1>6. ASSUME NEW t \in Tasks, ExchangeDone(t) PROVE OboInv'
  <2> DEFINE l == loc[t]
             e == [user |-> l.user, expires |-> l.expires, until |-> Until(l.at, l.life)]
  <2>1. /\ pc[t] = "issued" /\ entries' = [entries EXCEPT ![l.user] = e] /\ lock' = None
        /\ served' = [to |-> l.user, user |-> l.user, expires |-> l.expires, cached |-> FALSE]
        /\ Leave(t) /\ UNCHANGED <<ready, now>>
    BY <1>6 DEF ExchangeDone, Key
  <2>2. /\ l \in Locals /\ l.user \in Users /\ l.at \in Nat /\ l.life \in Nat /\ l.expires \in Nat
        /\ l.expires >= l.at + l.life /\ l.at =< now /\ lock = t
    BY <1>0, <2>1 DEF TypeOK, Locals, HolderInv, EntryInv, Exchanging
  <2>3. /\ Until(l.at, l.life) \in Nat
        /\ Until(l.at, l.life) =< now \/ Until(l.at, l.life) =< l.expires - Margin
    BY <1>0, <2>2 DEF Until
  <2>4. /\ pc'[t] = "idle"
        /\ \A r \in Tasks \ {t} : pc'[r] = pc[r] /\ loc'[r] = loc[r]
        /\ pc' \in [Tasks -> States] /\ loc' \in [Tasks -> Locals]
    BY <1>0, <2>1, LeaveFacts
  <2>5. e \in Entry /\ e.user = l.user
        /\ (e.until =< now \/ e.until =< e.expires - Margin)
    BY <2>2, <2>3 DEF Entry
  <2>6. served' \in Served /\ OwnToken' /\ CachedTokenLives'
    BY <2>1, <2>2 DEF Served, OwnToken, CachedTokenLives
  <2> HIDE DEF l, e
  <2>7. entries' \in [Users -> Entry]
    BY <1>0, <2>1, <2>5 DEF TypeOK
  <2>8. TypeOK'
    BY <1>0, <2>1, <2>4, <2>6, <2>7 DEF TypeOK
  <2>9. \A r \in Tasks : pc'[r] \notin Exchanging
    BY <1>0, <2>2, <2>4 DEF HolderInv, Exchanging
  <2>10. HolderInv'
    BY <1>0, <2>1, <2>4, <2>9 DEF HolderInv
  <2>11. \A u \in Users : entries'[u] = IF u = l.user THEN e ELSE entries[u]
    BY <1>0, <2>1 DEF TypeOK
  <2>12. EntryInv'
    BY <1>0, <2>1, <2>5, <2>9, <2>11 DEF EntryInv, Exchanging
  <2> QED
    BY <2>6, <2>8, <2>10, <2>12 DEF OboInv
<1>7. ASSUME NEW t \in Tasks, ExchangeFails(t) PROVE OboInv'
  <2>1. /\ pc'[t] = "idle" /\ pc[t] \in Exchanging /\ lock' = None
        /\ \A r \in Tasks \ {t} : pc'[r] = pc[r] /\ loc'[r] = loc[r]
        /\ pc' \in [Tasks -> States] /\ loc' \in [Tasks -> Locals]
        /\ served' = Nothing /\ UNCHANGED <<ready, entries, now>>
    BY <1>0, <1>7, LeaveFacts DEF ExchangeFails, Exchanging
  <2>2. TypeOK'
    BY <1>0, <2>1, NothingServed DEF TypeOK
  <2>3. HolderInv'
    BY <1>0, <2>1 DEF HolderInv, Exchanging
  <2>4. EntryInv'
    BY <1>0, <2>1 DEF EntryInv, Exchanging
  <2> QED
    BY <2>1, <2>2, <2>3, <2>4, NothingServed DEF OboInv
<1>8. CASE Tick
  <2>1. now' \in Nat /\ now' >= now /\ now' =< MaxTime /\ served' = Nothing
        /\ UNCHANGED <<ready, entries, lock, pc, loc>>
    BY <1>0, <1>8 DEF Tick, TypeOK
  <2>2. TypeOK'
    BY <1>0, <2>1, NothingServed DEF TypeOK
  <2>3. HolderInv'
    BY <1>0, <2>1 DEF HolderInv
  <2>4. \A u \in Users : entries[u].until \in Nat /\ entries[u].expires \in Nat
    BY <1>0 DEF TypeOK, Entry
  <2>5. \A t \in Tasks : loc[t].at \in Nat
    BY <1>0 DEF TypeOK, Locals
  <2>6. ASSUME NEW n \in Nat, n =< now PROVE n =< now'
    BY <1>0, <2>1, <2>6
  <2>7. \A t \in Tasks : pc[t] # "idle" => loc[t].user \in Users
    BY <1>0 DEF HolderInv
  <2>8. EntryInv'
    BY <1>0, <2>1, <2>4, <2>5, <2>6, <2>7 DEF EntryInv, Exchanging
  <2> QED
    BY <2>1, <2>2, <2>3, <2>8, NothingServed DEF OboInv
<1>9. CASE UNCHANGED vars
  BY <1>9 DEF vars, OboInv, TypeOK, HolderInv, EntryInv, OwnToken, CachedTokenLives
<1> QED
  BY <1>1, <1>2, <1>3, <1>4, <1>5, <1>6, <1>7, <1>8, <1>9 DEF Next, Enter, Answered

LEMMA OboAlways == SafetySpec => []OboInv
BY OboInit, OboNext, PTL DEF SafetySpec

\* A cached token is handed to the user it was issued for, with more than
\* Margin of its life left, for every provider delay and token life.
THEOREM CachedTokensGood == SafetySpec => [](TypeOK /\ OwnToken /\ CachedTokenLives)
BY OboAlways, PTL DEF OboInv

\* A request is served a token issued for its own user and for nobody else,
\* whichever exchanges of other users are under way.
THEOREM OwnTokenServed == SafetySpec => []OwnToken
BY OboAlways, PTL DEF OboInv

\* One exchange serves all the requests of its user that wait for it.
THEOREM NoRepeatedExchange == SafetySpec => ReplacedOnlyWhenOver
<1> DEFINE A == \A u \in Users :
                  entries'[u] # entries[u] /\ entries[u] # NoEntry => now >= entries[u].until
<1>1. OboInv /\ [Next]_vars => [A]_vars
  <2> SUFFICES ASSUME OboInv, Next, NEW u \in Users, entries'[u] # entries[u],
                      entries[u] # NoEntry
               PROVE  now >= entries[u].until
    BY DEF vars
  <2>1. PICK t \in Tasks : ExchangeDone(t)
    BY DEF Next, Enter, Answered, Request, CacheHit, CacheMiss, NotInitialised, Issue,
           ExchangeFails, Tick
  <2>2. u = loc[t].user /\ pc[t] \in Exchanging
    BY <2>1 DEF ExchangeDone, Key, OboInv, TypeOK, Exchanging
  <2>3. entries[u].until =< now
    BY <2>2 DEF OboInv, EntryInv
  <2>4. entries[u].until \in Nat /\ now \in Nat
    BY DEF OboInv, TypeOK, Entry
  <2> QED
    BY <2>3, <2>4
<1> QED
  BY <1>1, OboAlways, PTL DEF SafetySpec, ReplacedOnlyWhenOver
=============================================================================
