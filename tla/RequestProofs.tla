---------------------------- MODULE RequestProofs ----------------------------
(***************************************************************************)
(* Proofs about the chat proxy, the pool's capacity and the Kata webhook,  *)
(* for any number of requests, deployments, attempts, bodies and fields of *)
(* a pod.                                                                  *)
(***************************************************************************)
EXTENDS KimiChat, PoolPatch, KataWebhook, TLAPS

-----------------------------------------------------------------------------
(* KimiChat *)

\* Whoever posts has a token to post with.
Posts(k) == k.pc = "posting" => k.with \in Tokens

\* A token that was refused is in the cache only if az has brought it since.
CacheRenewed == token \in Tokens => verdict[token] # "refused"

ChatInv == ChatTypeOK /\ CacheRenewed /\ \A c \in Chats : Posts(chat[c])

LEMMA ChatInitial == ChatInit => ChatInv
BY KimiAssumption DEF ChatInit, ChatInv, ChatTypeOK, CacheRenewed, Places, NoChat, Posts, Waits, Ends

\* The loops lead from a place to a place.
LEMMA LoopTypes ==
  ASSUME NEW k \in Places, NEW tok \in Tokens \cup {NoToken}
  PROVE  /\ Attempt(k, tok) \in Places /\ Posts(Attempt(k, tok))
         /\ NextDeployment(k) \in Places
         /\ NextTry(k) \in Places
         /\ Backoff(k) \in Places /\ Posts(Backoff(k))
<1>0. k.dep \in Nat /\ k.order \in Nat /\ k.try \in Nat
  BY DEF Places
<1> DEFINE PCs == {"idle"} \cup Waits \cup Ends
<1>1. ASSUME NEW pc \in PCs, NEW w \in Tokens \cup {NoToken}, pc = "posting" => w \in Tokens
      PROVE  At(k, pc, w) \in Places /\ Posts(At(k, pc, w))
  BY <1>0, <1>1 DEF At, Places, Posts
<1>2. Attempt(k, tok) \in Places /\ Posts(Attempt(k, tok))
  BY <1>0, <1>1 DEF Attempt, Waits, Ends
<1>3. NextDeployment(k) \in Places
  <2>1. [k EXCEPT !.dep = @ + 1] \in Places
    BY <1>0 DEF Places
  <2>2. \A m \in Places : [m EXCEPT !.try = 1] \in Places
    BY DEF Places
  <2> QED
    BY <2>1, <2>2 DEF NextDeployment
<1>4. NextTry(k) \in Places
  <2>1. [k EXCEPT !.try = @ + 1] \in Places
    BY <1>0 DEF Places, Waits, Ends
  <2> QED
    BY <1>3, <2>1 DEF NextTry
<1>5. Backoff(k) \in Places /\ Posts(Backoff(k))
  BY <1>0, <1>1 DEF Backoff, Waits
<1> QED
  BY <1>2, <1>3, <1>4, <1>5

LEMMA AfterErrorType ==
  ASSUME NEW k \in Places, token \in Tokens \cup {NoToken}
  PROVE  AfterError(k) \in Places /\ Posts(AfterError(k))
BY LoopTypes DEF AfterError

\* What a step of a chat may do: it takes this chat to a place, and to a post
\* only with the token that is in the cache after the step.
LEMMA ChatMoves ==
  ChatInv => \A c \in Chats : AskKimi(c) \/ ChatStep(c) =>
    \E m \in Places : /\ chat' = [chat EXCEPT ![c] = m] /\ Posts(m)
                      /\ m.pc = "posting" => m.with = token'
<1> HAVE ChatInv
<1> TAKE c \in Chats
<1> HAVE AskKimi(c) \/ ChatStep(c)
<1>0. /\ token \in Tokens \cup {NoToken} /\ NoToken \in Tokens \cup {NoToken}
      /\ chat[c] \in Places /\ Posts(chat[c])
  BY DEF ChatInv, ChatTypeOK
<1>1. ASSUME NEW k \in Places, NEW tok \in Tokens \cup {NoToken}
      PROVE  /\ Attempt(k, tok) \in Places /\ Posts(Attempt(k, tok))
             /\ Attempt(k, tok).pc = "posting" => Attempt(k, tok).with = tok
  BY LoopTypes DEF Attempt, At
<1>2. ASSUME NEW k \in Places PROVE Backoff(k) \in Places /\ Posts(Backoff(k)) /\ Backoff(k).pc = "sleeping"
  BY <1>0, LoopTypes DEF Backoff, At
<1>3. CASE AskKimi(c)
  <2>1. PICK n \in {Deployments, Deployments + 1} :
          chat' = [chat EXCEPT ![c] = Attempt(Begin(n), token)]
    BY <1>3 DEF AskKimi
  <2>2. Begin(n) \in Places
    BY KimiAssumption DEF Begin, Places
  <2>3. token' = token
    BY <1>3 DEF AskKimi
  <2> QED
    BY <1>0, <1>1, <2>1, <2>2, <2>3
<1>4. CASE AzAnswers(c)
  <2>1. PICK t \in Tokens : token' = t /\ chat' = [chat EXCEPT ![c] = Attempt(chat[c], t)]
    BY <1>4 DEF AzAnswers
  <2>2. /\ Attempt(chat[c], t) \in Places /\ Posts(Attempt(chat[c], t))
        /\ Attempt(chat[c], t).pc = "posting" => Attempt(chat[c], t).with = token'
    BY <1>0, <1>1, <2>1
  <2> QED
    BY <2>1, <2>2
<1>5. NextTry(chat[c]) \in Places /\ NextDeployment(chat[c]) \in Places
  BY <1>0, LoopTypes
<1>6. CASE CallRaises(c)
  <2>1. chat' = [chat EXCEPT ![c] = AfterError(chat[c])] /\ token' = token
    BY <1>6 DEF CallRaises
  <2>2. \/ AfterError(chat[c]) = Backoff(NextTry(chat[c]))
        \/ AfterError(chat[c]) = Attempt(NextDeployment(chat[c]), token)
    BY DEF AfterError
  <2> QED
    BY <1>0, <1>1, <1>2, <1>5, <2>1, <2>2
<1>7. CASE Refused(c)
  <2>1. chat' = [chat EXCEPT ![c] = Attempt(NextTry(chat[c]), NoToken)] /\ token' = NoToken
    BY <1>7 DEF Refused
  <2> QED
    BY <1>0, <1>1, <1>5, <2>1
<1>8. CASE Throttled(c)
  BY <1>2, <1>5, <1>8 DEF Throttled
<1>9. CASE GivenUp(c)
  BY <1>0, <1>1, <1>5, <1>9 DEF GivenUp
<1>10. CASE Replied(c)
  <2>1. /\ At(chat[c], "answered", NoToken) \in Places /\ Posts(At(chat[c], "answered", NoToken))
        /\ At(chat[c], "answered", NoToken).pc = "answered"
    BY <1>0 DEF At, Places, Ends, Posts
  <2> QED
    BY <1>10, <2>1 DEF Replied
<1>11. CASE Wakes(c)
  BY <1>0, <1>1, <1>11 DEF Wakes
<1> QED
  BY <1>3, <1>4, <1>6, <1>7, <1>8, <1>9, <1>10, <1>11 DEF ChatStep

\* What a step does to the cache: a refusal empties it, az puts in a token that
\* no refusal has met since.
LEMMA CacheMoves ==
  ASSUME ChatInv, [ChatNext]_chatVars
  PROVE  /\ token' \in Tokens \cup {NoToken} /\ CacheRenewed'
         /\ verdict' \in [Tokens -> {"none", "refused", "brought again"}]
         /\ turns' \subseteq Chats \X {"user", "assistant"}
<1> USE KimiAssumption
<1>0. /\ token \in Tokens \cup {NoToken} /\ CacheRenewed
      /\ verdict \in [Tokens -> {"none", "refused", "brought again"}]
      /\ turns \subseteq Chats \X {"user", "assistant"}
      /\ \A c \in Chats : Posts(chat[c])
  BY DEF ChatInv, ChatTypeOK
<1>1. ASSUME NEW c \in Chats, AzAnswers(c)
      PROVE  /\ token' \in Tokens /\ verdict'[token'] # "refused" /\ turns' = turns
             /\ verdict' \in [Tokens -> {"none", "refused", "brought again"}]
  BY <1>0, <1>1 DEF AzAnswers
<1>2. ASSUME NEW c \in Chats, Refused(c)
      PROVE  /\ token' = NoToken /\ turns' = turns
             /\ verdict' \in [Tokens -> {"none", "refused", "brought again"}]
  BY <1>0, <1>2 DEF Refused, Posts
<1>3. ASSUME NEW c \in Chats, AskKimi(c) \/ CallRaises(c) \/ Throttled(c) \/ GivenUp(c) \/ Replied(c)
                               \/ Wakes(c)
      PROVE  token' = token /\ verdict' = verdict /\ turns' \subseteq Chats \X {"user", "assistant"}
  <2>1. token' = token /\ verdict' = verdict
    BY <1>3 DEF AskKimi, CallRaises, Throttled, GivenUp, Replied, Wakes
  <2>2. turns' \in {turns, turns \cup {<<c, "user">>}, turns \cup {<<c, "assistant">>}}
    BY <1>3 DEF AskKimi, CallRaises, Throttled, GivenUp, Replied, Wakes
  <2>3. <<c, "user">> \in Chats \X {"user", "assistant"} /\ <<c, "assistant">> \in Chats \X {"user", "assistant"}
    OBVIOUS
  <2> QED
    BY <1>0, <2>1, <2>2, <2>3
<1>4. CASE TokenAges
  BY <1>0, <1>4 DEF TokenAges, CacheRenewed
<1>5. CASE UNCHANGED chatVars
  BY <1>0, <1>5 DEF chatVars, CacheRenewed
<1> QED
  BY <1>0, <1>1, <1>2, <1>3, <1>4, <1>5 DEF ChatNext, ChatStep, CacheRenewed

LEMMA ChatInductive == ChatInv /\ [ChatNext]_chatVars => ChatInv'
<1> SUFFICES ASSUME ChatInv, [ChatNext]_chatVars PROVE ChatInv'
  OBVIOUS
<1>1. chat \in [Chats -> Places] /\ \A c \in Chats : Posts(chat[c])
  BY DEF ChatInv, ChatTypeOK
<1>2. chat' \in [Chats -> Places] /\ \A c \in Chats : Posts(chat'[c])
  <2>1. CASE \E c \in Chats : AskKimi(c) \/ ChatStep(c)
    <3>1. PICK c \in Chats : AskKimi(c) \/ ChatStep(c)
      BY <2>1
    <3>2. PICK m \in Places : chat' = [chat EXCEPT ![c] = m] /\ Posts(m)
      BY <3>1, ChatMoves
    <3> QED
      BY <1>1, <3>2
  <2>2. CASE TokenAges \/ UNCHANGED chatVars
    BY <1>1, <2>2 DEF TokenAges, chatVars
  <2> QED
    BY <2>1, <2>2 DEF ChatNext
<1> QED
  BY <1>2, CacheMoves DEF ChatInv, ChatTypeOK, Posts

\* However many chats share the cache, post, are refused and wait for az at a
\* time, and whichever tokens az hands out: no attempt begins with a token that
\* has been answered 401 since az brought it last.
THEOREM NoRefusedToken == ChatSpec => []ChatTypeOK /\ RetriesRenewed
<1>1. ChatInv => ChatTypeOK
  BY DEF ChatInv
<1>2. ChatInv /\ [ChatNext]_chatVars => [\A c \in Chats : NotRefusedBefore(c)]_chatVars
  <2> SUFFICES ASSUME ChatInv, [ChatNext]_chatVars, NEW d \in Chats,
                      chat'[d].pc = "posting", chat'[d] # chat[d]
               PROVE  verdict'[chat'[d].with] # "refused"
    BY DEF NotRefusedBefore
  <2>1. chat \in [Chats -> Places]
    BY DEF ChatInv, ChatTypeOK
  <2>2. PICK c \in Chats : AskKimi(c) \/ ChatStep(c)
    BY DEF ChatNext, TokenAges, chatVars
  <2>3. PICK m \in Places : /\ chat' = [chat EXCEPT ![c] = m] /\ Posts(m)
                            /\ m.pc = "posting" => m.with = token'
    BY <2>2, ChatMoves
  <2>4. d = c /\ chat'[d] = m
    BY <2>1, <2>3
  <2>5. token' \in Tokens /\ chat'[d].with = token'
    BY <2>3, <2>4 DEF Posts
  <2> QED
    BY <2>5, CacheMoves DEF CacheRenewed
<1> QED
  BY <1>1, <1>2, ChatInitial, ChatInductive, PTL DEF ChatSpec, RetriesRenewed

\* A place in the loops: a deployment of the order and an attempt at it.  Only
\* the sleep after the last attempt of all is past the order.
InLoops(k) ==
  k.pc \in Waits =>
    /\ k.order =< Deployments + 1 /\ k.dep \in 1..(k.order + 1) /\ k.try \in 1..Attempts
    /\ k.pc # "sleeping" => k.dep =< k.order

\* A chat that sleeps, asks az and posts at one place does so in this order.
Further(a, b) == <<a, b>> \in {<<"sleeping", "asking_az">>, <<"sleeping", "posting">>,
                               <<"asking_az", "posting">>}

\* m is further on in the loops than k, or at their end.
Onward(k, m) ==
  \/ m.pc \in Ends
  \/ m.dep > k.dep
  \/ m.dep = k.dep /\ m.try > k.try
  \/ m.dep = k.dep /\ m.try = k.try /\ Further(k.pc, m.pc)

\* An attempt takes place where the loops are.
LEMMA AttemptStays ==
  ASSUME NEW k \in Places, NEW tok,
         k.order =< Deployments + 1, k.dep \in 1..(k.order + 1), k.try \in 1..Attempts
  PROVE  /\ InLoops(Attempt(k, tok))
         /\ \/ Attempt(k, tok).pc \in Ends
            \/ /\ Attempt(k, tok).pc = IF tok # NoToken THEN "posting" ELSE "asking_az"
               /\ Attempt(k, tok).dep = k.dep /\ Attempt(k, tok).try = k.try
<1>0. k.order \in Nat /\ k.dep \in Nat /\ k.try \in Nat
  BY DEF Places
<1>1. CASE k.dep > k.order
  BY <1>0, <1>1 DEF Attempt, At, InLoops, Ends, Waits
<1>2. CASE ~(k.dep > k.order)
  BY <1>0, <1>2, KimiAssumption DEF Attempt, At, InLoops, Ends, Waits
<1> QED
  BY <1>1, <1>2

\* The next deployment or attempt is further on.
LEMMA NextPlaces ==
  ASSUME NEW k \in Places, k.pc \in Waits, InLoops(k), k.dep =< k.order
  PROVE  /\ NextDeployment(k) \in Places /\ NextTry(k) \in Places
         /\ NextDeployment(k).order = k.order /\ NextDeployment(k).try = 1
         /\ NextDeployment(k).dep = k.dep + 1
         /\ NextTry(k).order = k.order /\ NextTry(k).try \in 1..Attempts
         /\ \/ NextTry(k).dep = k.dep + 1
            \/ NextTry(k).dep = k.dep /\ NextTry(k).try = k.try + 1
         /\ k.try < Attempts => NextTry(k).dep = k.dep /\ NextTry(k).try = k.try + 1
<1>0. k.order \in Nat /\ k.dep \in Nat /\ k.try \in 1..Attempts
  BY DEF Places, InLoops
<1>1. /\ NextDeployment(k) \in Places /\ NextDeployment(k).dep = k.dep + 1
      /\ NextDeployment(k).try = 1 /\ NextDeployment(k).order = k.order
  <2>1. [k EXCEPT !.dep = @ + 1] \in Places
    BY <1>0 DEF Places
  <2>2. [k EXCEPT !.dep = @ + 1].dep = k.dep + 1 /\ [k EXCEPT !.dep = @ + 1].order = k.order
    BY DEF Places
  <2> DEFINE m == [k EXCEPT !.dep = @ + 1]
  <2>3. m \in Places /\ m.dep = k.dep + 1 /\ m.order = k.order
    BY <2>1, <2>2
  <2>4. NextDeployment(k) = [m EXCEPT !.try = 1]
    BY DEF NextDeployment
  <2> HIDE DEF m
  <2> QED
    BY <2>3, <2>4 DEF Places
<1>2. CASE k.try < Attempts
  <2>1. /\ NextTry(k) = [k EXCEPT !.try = @ + 1]
    BY <1>2 DEF NextTry
  <2> QED
    BY <1>0, <1>1, <1>2, <2>1, KimiAssumption DEF Places
<1>3. CASE ~(k.try < Attempts)
  <2>1. NextTry(k) = NextDeployment(k)
    BY <1>3 DEF NextTry
  <2> QED
    BY <1>0, <1>1, <1>3, <2>1, KimiAssumption
<1> QED
  BY <1>2, <1>3

\* Every step of a chat stays in the loops and takes it onward.
LEMMA ChatMovesOn ==
  ASSUME ChatInv, NEW c \in Chats, InLoops(chat[c]), ChatStep(c)
  PROVE  \E m : chat' = [chat EXCEPT ![c] = m] /\ InLoops(m) /\ Onward(chat[c], m)
<1> USE KimiAssumption
<1> DEFINE k == chat[c]
<1>0. k \in Places /\ k.pc \in Waits
  BY DEF ChatInv, ChatTypeOK, ChatStep, AzAnswers, CallRaises, Refused, Throttled, GivenUp,
         Replied, Wakes, Waits
<1>1. /\ k.order \in Nat /\ k.dep \in Nat /\ k.try \in Nat
      /\ k.order =< Deployments + 1 /\ k.dep \in 1..(k.order + 1) /\ k.try \in 1..Attempts
      /\ k.pc # "sleeping" => k.dep =< k.order
  BY <1>0 DEF Places, InLoops
<1>2. ASSUME NEW tok, chat' = [chat EXCEPT ![c] = Attempt(k, tok)],
             Further(k.pc, IF tok # NoToken THEN "posting" ELSE "asking_az")
      PROVE  \E m : chat' = [chat EXCEPT ![c] = m] /\ InLoops(m) /\ Onward(k, m)
  <2>1. InLoops(Attempt(k, tok)) /\ Onward(k, Attempt(k, tok))
    BY <1>0, <1>1, <1>2, AttemptStays DEF Onward
  <2> QED
    BY <1>2, <2>1
<1>3. ASSUME NEW tok, NEW q \in {NextDeployment(k), NextTry(k)},
             chat' = [chat EXCEPT ![c] = Attempt(q, tok)], k.pc # "sleeping"
      PROVE  \E m : chat' = [chat EXCEPT ![c] = m] /\ InLoops(m) /\ Onward(k, m)
  <2>1. /\ q \in Places /\ q.order = k.order /\ q.try \in 1..Attempts
        /\ \/ q.dep = k.dep + 1
           \/ q.dep = k.dep /\ q.try = k.try + 1
    BY <1>0, <1>1, <1>3, NextPlaces, KimiAssumption
  <2>2. q.dep \in 1..(q.order + 1) /\ q.order =< Deployments + 1
    BY <1>1, <1>3, <2>1
  <2>3. InLoops(Attempt(q, tok)) /\ Onward(k, Attempt(q, tok))
    BY <1>0, <1>1, <2>1, <2>2, AttemptStays DEF Onward
  <2> QED
    BY <1>3, <2>3
<1>4. ASSUME chat' = [chat EXCEPT ![c] = Backoff(NextTry(k))], k.pc # "sleeping"
      PROVE  \E m : chat' = [chat EXCEPT ![c] = m] /\ InLoops(m) /\ Onward(k, m)
  <2> DEFINE q == NextTry(k)
  <2>1. /\ q \in Places /\ q.order = k.order /\ q.try \in 1..Attempts
        /\ \/ q.dep = k.dep + 1
           \/ q.dep = k.dep /\ q.try = k.try + 1
    BY <1>0, <1>1, <1>4, NextPlaces
  <2> HIDE DEF q
  <2>2. Backoff(q).order = q.order /\ Backoff(q).dep = q.dep /\ Backoff(q).try = q.try
          /\ Backoff(q).pc = "sleeping"
    BY DEF Backoff, At
  <2>3. InLoops(Backoff(q)) /\ Onward(k, Backoff(q))
    BY <1>1, <1>4, <2>1, <2>2 DEF InLoops, Onward
  <2> QED
    BY <1>4, <2>3 DEF q
<1>5. CASE AzAnswers(c)
  <2>1. k.pc = "asking_az" /\ chat' = [chat EXCEPT ![c] = Attempt(k, token')] /\ token' # NoToken
    BY <1>0, <1>5 DEF AzAnswers
  <2> QED
    BY <1>2, <2>1 DEF Further
<1>6. CASE CallRaises(c)
  <2>1. k.pc # "sleeping" /\ chat' = [chat EXCEPT ![c] = AfterError(k)]
    BY <1>6 DEF CallRaises
  <2> QED
    BY <1>3, <1>4, <2>1 DEF AfterError
<1>7. CASE Refused(c)
  BY <1>3, <1>7 DEF Refused
<1>8. CASE Throttled(c)
  BY <1>4, <1>8 DEF Throttled
<1>9. CASE GivenUp(c)
  BY <1>3, <1>9 DEF GivenUp
<1>10. CASE Replied(c)
  <2>1. chat' = [chat EXCEPT ![c] = At(k, "answered", NoToken)]
    BY <1>10 DEF Replied
  <2>2. At(k, "answered", NoToken).pc = "answered"
    BY DEF At
  <2>3. InLoops(At(k, "answered", NoToken)) /\ Onward(k, At(k, "answered", NoToken))
    BY <2>2 DEF InLoops, Onward, Ends, Waits
  <2> QED
    BY <2>1, <2>3
<1>11. CASE Wakes(c)
  <2>1. k.pc = "sleeping" /\ chat' = [chat EXCEPT ![c] = Attempt(k, token)]
    BY <1>11 DEF Wakes
  <2> QED
    BY <1>2, <2>1 DEF Further
<1> QED
  BY <1>5, <1>6, <1>7, <1>8, <1>9, <1>10, <1>11 DEF ChatStep

\* What bounds the waits of one chat, whatever the endpoint, az and the other
\* chats do to it: its steps never return to an earlier place of the loops, and
\* the loops have at most Attempts places at each of Deployments + 1 deployments.
ChatBounded == \A c \in Chats : InLoops(chat[c])
ChatOnward  == [][\A c \in Chats : ChatStep(c) => Onward(chat[c], chat'[c])]_chatVars

THEOREM ChatAlwaysOnward == ChatSpec => []ChatBounded /\ ChatOnward
<1> DEFINE A == \A c \in Chats : ChatStep(c) => Onward(chat[c], chat'[c])
<1>1. ChatInit => ChatBounded
  BY DEF ChatInit, ChatBounded, InLoops, NoChat, Waits
<1>2. ChatInv /\ ChatBounded /\ [ChatNext]_chatVars => ChatBounded'
  <2> SUFFICES ASSUME ChatInv, ChatBounded, [ChatNext]_chatVars PROVE ChatBounded'
    OBVIOUS
  <2>0. DOMAIN chat = Chats
    BY DEF ChatInv, ChatTypeOK
  <2>1. ASSUME NEW c \in Chats, AskKimi(c) PROVE ChatBounded'
    <3>1. PICK n \in {Deployments, Deployments + 1} :
            chat' = [chat EXCEPT ![c] = Attempt(Begin(n), token)]
      BY <2>1 DEF AskKimi
    <3>2. InLoops(Attempt(Begin(n), token))
      <4>1. Begin(n) \in Places /\ Begin(n).order = n /\ Begin(n).dep = 1 /\ Begin(n).try = 1
        BY KimiAssumption DEF Begin, Places
      <4> QED
        BY <4>1, KimiAssumption, AttemptStays
    <3> QED
      BY <2>0, <3>1, <3>2 DEF ChatBounded
  <2>2. ASSUME NEW c \in Chats, ChatStep(c) PROVE ChatBounded'
    BY <2>0, <2>2, ChatMovesOn DEF ChatBounded
  <2>3. CASE TokenAges \/ UNCHANGED chatVars
    BY <2>3 DEF TokenAges, chatVars, ChatBounded
  <2> QED
    BY <2>1, <2>2, <2>3 DEF ChatNext
<1>3. ChatInv /\ ChatBounded /\ [ChatNext]_chatVars => [A]_chatVars
  <2> SUFFICES ASSUME ChatInv, ChatBounded, NEW c \in Chats, ChatStep(c)
               PROVE  Onward(chat[c], chat'[c])
    BY DEF chatVars
  <2>1. PICK m : chat' = [chat EXCEPT ![c] = m] /\ Onward(chat[c], m)
    BY ChatMovesOn DEF ChatBounded
  <2> QED
    BY <2>1 DEF ChatInv, ChatTypeOK
<1> QED
  BY <1>1, <1>2, <1>3, ChatInitial, ChatInductive, PTL DEF ChatSpec, ChatOnward

-----------------------------------------------------------------------------
(* PoolPatch *)

\* What a request is about to write is consistent with the pool of now, unless
\* somebody has overtaken it.
WritesConsistent ==
  \A q \in Patches :
    patch[q].pc = "writing" /\ ~patch[q].overtaken => Consistent(Merged(patch[q].body, pool))

PoolInv == PoolTypeOK /\ ConsistentUnlessStale /\ WritesConsistent

PatchStates == [pc : {"idle", "reading", "writing"}, body : Bodies \cup {NoBody}, overtaken : BOOLEAN]

LEMMA PoolInitial == PoolInit => PoolInv
<1>1. NoPatch \in PatchStates /\ NoPatch.pc = "idle"
  BY DEF NoPatch, PatchStates
<1> QED
  BY <1>1, PoolAssumption
     DEF PoolInit, PoolInv, PoolTypeOK, ConsistentUnlessStale, WritesConsistent, PatchStates

LEMMA MergedType ==
  ASSUME NEW body \in Bodies \cup {NoBody}, NEW p \in [Fields -> Int]
  PROVE  Merged(body, p) \in [Fields -> Int]
<1>1. CASE body \in Bodies
  <2>1. \A f \in DOMAIN body : body[f] \in Int
    BY <1>1, PoolAssumption
  <2> QED
    BY <2>1 DEF Merged
<1>2. CASE body = NoBody
  <2>1. DOMAIN body = {}
    BY <1>2 DEF NoBody
  <2> QED
    BY <2>1 DEF Merged
<1> QED
  BY <1>1, <1>2

\* One request moves, the pool does not.
LEMMA OnePatchMoves ==
  ASSUME PoolInv, NEW q \in Patches, NEW k \in PatchStates,
         patch' = [patch EXCEPT ![q] = k], UNCHANGED <<pool, stale>>,
         k.pc = "writing" /\ ~k.overtaken => Consistent(Merged(k.body, pool))
  PROVE  PoolInv'
BY DEF PoolInv, PoolTypeOK, ConsistentUnlessStale, WritesConsistent, PatchStates

\* The pool moves: who has not been overtaken by that, sees it as it was.
LEMMA ChangeKeeps ==
  ASSUME PoolInv, NEW p \in [Fields -> Int], NEW but, Change(p, but),
         stale' \in BOOLEAN, Consistent(p) \/ stale'
  PROVE  PoolInv'
<1>0. /\ \A q \in Patches : patch[q] \in PatchStates
      /\ pool' = p
      /\ patch' = [q \in Patches |->
           IF q \in but THEN NoPatch
           ELSE [patch[q] EXCEPT !.overtaken = patch[q].pc = "writing" /\ (@ \/ p # pool)]]
  BY DEF PoolInv, PoolTypeOK, PatchStates, Change
<1>1. ASSUME NEW q \in Patches
      PROVE  /\ patch'[q] \in PatchStates
             /\ patch'[q].pc = "writing" /\ ~patch'[q].overtaken => Consistent(Merged(patch'[q].body, p))
  <2>1. CASE q \in but
    BY <1>0, <2>1 DEF NoPatch, PatchStates
  <2>2. CASE q \notin but
    <3>1. /\ patch'[q] \in PatchStates
          /\ patch'[q].pc = patch[q].pc /\ patch'[q].body = patch[q].body
          /\ patch'[q].overtaken = (patch[q].pc = "writing" /\ (patch[q].overtaken \/ p # pool))
      BY <1>0, <2>2 DEF PatchStates
    <3>2. patch'[q].pc = "writing" /\ ~patch'[q].overtaken
            => patch[q].pc = "writing" /\ ~patch[q].overtaken /\ p = pool
      BY <3>1
    <3> QED
      BY <3>1, <3>2 DEF PoolInv, WritesConsistent
  <2> QED
    BY <2>1, <2>2
<1>2. PoolTypeOK'
  BY <1>0, <1>1 DEF PoolTypeOK, PatchStates
<1>3. ConsistentUnlessStale' /\ WritesConsistent'
  BY <1>0, <1>1 DEF ConsistentUnlessStale, WritesConsistent
<1> QED
  BY <1>2, <1>3 DEF PoolInv

LEMMA PoolInductive == PoolInv /\ [PoolNext]_poolVars => PoolInv'
<1> SUFFICES ASSUME PoolInv, [PoolNext]_poolVars PROVE PoolInv'
  OBVIOUS
<1>0. pool \in [Fields -> Int] /\ \A q \in Patches : patch[q] \in PatchStates
  BY DEF PoolInv, PoolTypeOK, PatchStates
<1>1. NoPatch \in PatchStates /\ NoPatch.pc = "idle"
  BY DEF NoPatch, PatchStates
<1>2. ASSUME NEW q \in Patches, NEW body \in Bodies, PatchPool(q, body) PROVE PoolInv'
  BY <1>2, OnePatchMoves DEF PatchPool, PatchStates
<1>3. ASSUME NEW q \in Patches, ReadPool(q) PROVE PoolInv'
  <2>1. CASE Accepted(patch[q].body, pool)
    <3>1. /\ [patch[q] EXCEPT !.pc = "writing"] \in PatchStates
          /\ [patch[q] EXCEPT !.pc = "writing"].body = patch[q].body
      BY <1>0 DEF PatchStates
    <3>2. patch' = [patch EXCEPT ![q] = [patch[q] EXCEPT !.pc = "writing"]] /\ UNCHANGED <<pool, stale>>
      BY <1>3, <2>1 DEF ReadPool
    <3> QED
      BY <2>1, <3>1, <3>2, OnePatchMoves DEF Accepted
  <2>2. CASE ~Accepted(patch[q].body, pool)
    BY <1>1, <1>3, <2>2, OnePatchMoves DEF ReadPool
  <2> QED
    BY <2>1, <2>2
<1>4. ASSUME NEW q \in Patches, WritePool(q) PROVE PoolInv'
  <2>1. /\ patch[q].pc = "writing" /\ stale' = patch[q].overtaken
        /\ Change(Merged(patch[q].body, pool), {q})
    BY <1>4 DEF WritePool
  <2>2. patch[q].body \in Bodies \cup {NoBody} /\ stale' \in BOOLEAN
    BY <1>0, <2>1 DEF PatchStates
  <2>3. Consistent(Merged(patch[q].body, pool)) \/ stale'
    BY <2>1, <2>2 DEF PoolInv, WritesConsistent
  <2>4. Merged(patch[q].body, pool) \in [Fields -> Int]
    BY <1>0, <2>2, MergedType
  <2> QED
    BY <2>1, <2>2, <2>3, <2>4, ChangeKeeps
<1>5. ASSUME NEW q \in Patches, PoolCallFails(q) PROVE PoolInv'
  BY <1>1, <1>5, OnePatchMoves DEF PoolCallFails
<1>6. ASSUME ManifestApplied PROVE PoolInv'
  BY <1>6, PoolAssumption, ChangeKeeps DEF ManifestApplied
<1>7. CASE UNCHANGED poolVars
  BY <1>7 DEF poolVars, PoolInv, PoolTypeOK, ConsistentUnlessStale, WritesConsistent
<1> QED
  BY <1>2, <1>3, <1>4, <1>5, <1>6, <1>7 DEF PoolNext

\* Whatever the bodies and however many requests overlap, the pool itself obeys
\* the limits that each request was tested for, unless the last patch was
\* overtaken between its read and its write.
THEOREM PoolConsistent == PoolSpec => [](PoolTypeOK /\ ConsistentUnlessStale)
<1>1. PoolInv => PoolTypeOK /\ ConsistentUnlessStale
  BY DEF PoolInv
<1> QED
  BY <1>1, PoolInitial, PoolInductive, PTL DEF PoolSpec

-----------------------------------------------------------------------------
(* KataWebhook *)

\* A pod has the five fields and no others.
IsPod(p) ==
  p = [runtime |-> p.runtime, pooled |-> p.pooled, kataNamed |-> p.kataNamed,
       tolerations |-> p.tolerations, selector |-> p.selector]

KataInv == submitted \in SubmittedPods /\ IsPod(pod) /\ AdmittedAsMeant

LEMMA SubmittedTypes ==
  ASSUME NEW p \in SubmittedPods
  PROVE  /\ IsPod(p)
         /\ p.tolerations \in Seq(Tolerations) \cup {NoTolerations}
         /\ p.selector \in Selectors \cup {NoSelector}
<1>1. p.tolerations \in Lists \cup {NoTolerations}
  BY DEF SubmittedPods
<1>2. ASSUME NEW s \in Lists PROVE s \in Seq(Tolerations)
  <2>1. PICK n \in 0..MaxTolerations : s \in [1..n -> Tolerations]
    BY DEF Lists
  <2>2. n \in Nat
    BY KataAssumption
  <2> QED
    BY <2>1, <2>2
<1>3. p.tolerations \in Seq(Tolerations) \cup {NoTolerations}
  BY <1>1, <1>2
<1>4. p.selector \in Selectors \cup {NoSelector}
  BY DEF SubmittedPods
<1>5. IsPod(p)
  BY DEF SubmittedPods, IsPod
<1> QED
  BY <1>3, <1>4, <1>5

\* Every patch is one that the API server can apply.
LEMMA AlwaysApplicable ==
  ASSUME NEW p
  PROVE  Applicable(Mutate(p), p)
<1>1. TolerationOp(p) = "append" => p.tolerations # NoTolerations
  BY DEF TolerationOp, Listed
<1>2. SelectorOp(p) = "key" => p.selector # NoSelector
  <2>1. DOMAIN [l \in {} |-> "kata"] = {}
    OBVIOUS
  <2> QED
    BY <2>1 DEF SelectorOp, Selected
<1>3. CASE Skipped(p)
  BY <1>3 DEF Mutate, NoOps, Applicable
<1>4. CASE ~Skipped(p)
  BY <1>1, <1>2, <1>4 DEF Mutate, Patch, Applicable
<1> QED
  BY <1>3, <1>4

\* No operations, no change.
LEMMA NothingApplied ==
  ASSUME NEW p, IsPod(p)
  PROVE  Applied(NoOps, p) = p
BY DEF IsPod, Applied, NoOps

\* The three cases of the tolerations.
LEMMA TolerationsApplied ==
  ASSUME NEW p \in SubmittedPods, NEW q, q.tolerations = Applied(Patch(p), p).tolerations
  PROVE  Listed(q) = WithKata(Listed(p))
<1> DEFINE s == p.tolerations
<1>1. s \in Seq(Tolerations) \cup {NoTolerations} /\ IsPod(p)
  BY SubmittedTypes
<1>2. q.tolerations = CASE TolerationOp(p) = "none"   -> s
                        [] TolerationOp(p) = "array"  -> <<"kata">>
                        [] TolerationOp(p) = "append" -> Append(s, "kata")
  BY <1>1 DEF Applied, Patch, IsPod
<1>3. CASE TolerationOp(p) = "none"
  <2>1. q.tolerations = s
    BY <1>2, <1>3
  <2> QED
    BY <1>3, <2>1 DEF TolerationOp, Listed, WithKata
<1>4. CASE TolerationOp(p) = "array"
  <2>1. q.tolerations = <<"kata">> /\ Listed(p) = <<>>
    BY <1>2, <1>4 DEF TolerationOp
  <2>2. <<"kata">> # NoTolerations
    BY DEF NoTolerations
  <2>3. WithKata(<<>>) = <<"kata">>
    BY DEF WithKata
  <2> QED
    BY <2>1, <2>2, <2>3 DEF Listed
<1>5. CASE TolerationOp(p) = "append"
  <2>1. q.tolerations = Append(s, "kata")
    BY <1>2, <1>5
  <2>2. s # NoTolerations /\ s \in Seq(Tolerations) /\ Listed(p) = s
          /\ ~\E i \in 1..Len(s) : s[i] = "kata"
    BY <1>1, <1>5 DEF TolerationOp, Listed
  <2>3. Append(s, "kata") # NoTolerations
    <3>1. Len(Append(s, "kata")) = Len(s) + 1 /\ Append(s, "kata")[Len(s) + 1] = "kata"
      BY <2>2
    <3>2. Len(NoTolerations) = 1 /\ NoTolerations[1] = "absent"
      BY DEF NoTolerations
    <3>3. ASSUME Append(s, "kata") = NoTolerations PROVE FALSE
      <4>1. Len(s) + 1 = 1
        BY <3>1, <3>2, <3>3
      <4>2. NoTolerations[1] = "kata"
        BY <3>1, <3>3, <4>1
      <4> QED
        BY <3>2, <4>2
    <3> QED
      BY <3>3
  <2> QED
    BY <2>1, <2>2, <2>3 DEF Listed, WithKata
<1> QED
  BY <1>3, <1>4, <1>5 DEF TolerationOp

\* The three cases of the node selector.
LEMMA SelectorApplied ==
  ASSUME NEW p \in SubmittedPods, NEW q, q.selector = Applied(Patch(p), p).selector
  PROVE  Selected(q) = OnKata(Selected(p))
<1> DEFINE s == p.selector
<1>1. s \in Selectors \cup {NoSelector} /\ IsPod(p)
  BY SubmittedTypes
<1>2. q.selector = CASE SelectorOp(p) = "none" -> s
                     [] SelectorOp(p) = "map"  -> [l \in {NodeLabel} |-> "kata"]
                     [] SelectorOp(p) = "key"  ->
                          [l \in DOMAIN s \cup {NodeLabel} |-> IF l = NodeLabel THEN "kata" ELSE s[l]]
  BY <1>1 DEF Applied, Patch, IsPod
<1>3. DOMAIN NoSelector = {"absent"} /\ NodeLabel # "absent" /\ DOMAIN [l \in {} |-> "kata"] = {}
  BY KataAssumption DEF NoSelector
<1>4. CASE SelectorOp(p) = "none"
  <2>1. q.selector = s /\ NodeLabel \in DOMAIN Selected(p) /\ Selected(p)[NodeLabel] = "kata"
    BY <1>2, <1>4 DEF SelectorOp
  <2>2. s # NoSelector /\ Selected(p) = s /\ Selected(q) = s
    BY <1>3, <2>1 DEF Selected
  <2>3. s = [l \in DOMAIN s |-> s[l]] /\ DOMAIN s \cup {NodeLabel} = DOMAIN s
    BY <1>1, <2>1, <2>2 DEF Selectors
  <2> QED
    BY <2>1, <2>2, <2>3 DEF OnKata
<1>5. CASE SelectorOp(p) = "map"
  <2>1. q.selector = [l \in {NodeLabel} |-> "kata"] /\ DOMAIN Selected(p) = {}
    BY <1>2, <1>5 DEF SelectorOp
  <2>2. q.selector # NoSelector
    BY <1>3, <2>1
  <2> QED
    BY <2>1, <2>2 DEF Selected, OnKata
<1>6. CASE SelectorOp(p) = "key"
  <2>1. /\ q.selector = [l \in DOMAIN s \cup {NodeLabel} |-> IF l = NodeLabel THEN "kata" ELSE s[l]]
        /\ DOMAIN Selected(p) # {}
    BY <1>2, <1>6 DEF SelectorOp
  <2>2. s # NoSelector /\ Selected(p) = s
    BY <1>3, <2>1 DEF Selected
  <2>3. NodeLabel \in DOMAIN q.selector
    BY <2>1
  <2>4. q.selector # NoSelector
    BY <1>3, <2>3
  <2> QED
    BY <2>1, <2>2, <2>4 DEF Selected, OnKata
<1> QED
  BY <1>4, <1>5, <1>6 DEF SelectorOp

LEMMA KataInitial == KataInit => KataInv
BY SubmittedTypes, AlwaysApplicable DEF KataInit, KataInv, AdmittedAsMeant

LEMMA KataInductive == KataInv /\ [KataNext]_kataVars => KataInv'
<1> SUFFICES ASSUME KataInv, [KataNext]_kataVars PROVE KataInv'
  OBVIOUS
<1>1. CASE Admit /\ Skipped(pod)
  <2>1. pod' = pod /\ reached' /\ submitted' = submitted
    BY <1>1, NothingApplied DEF Admit, Mutate, KataInv
  <2>2. CASE reached
    BY <2>1, <2>2 DEF KataInv, AdmittedAsMeant, IsPod
  <2>3. CASE ~reached
    BY <1>1, <2>1, <2>3 DEF KataInv, AdmittedAsMeant
  <2> QED
    BY <2>2, <2>3
<1>2. CASE Admit /\ ~Skipped(pod)
  <2>1. pod' = Applied(Patch(pod), pod) /\ reached' /\ submitted' = submitted
    BY <1>2 DEF Admit, Mutate
  <2>2. pod = submitted /\ submitted \in SubmittedPods /\ ~Skipped(submitted) /\ IsPod(pod)
    BY <1>2 DEF KataInv, AdmittedAsMeant, Skipped
  <2>3. /\ IsPod(pod') /\ pod'.runtime = "kata"
        /\ pod'.pooled = pod.pooled /\ pod'.kataNamed = pod.kataNamed
    BY <2>1, <2>2 DEF Applied, Patch, IsPod
  <2>4. /\ Listed(pod') = WithKata(Listed(submitted))
        /\ Selected(pod') = OnKata(Selected(submitted))
    BY <2>1, <2>2, TolerationsApplied, SelectorApplied
  <2> QED
    BY <2>1, <2>2, <2>3, <2>4, AlwaysApplicable DEF KataInv, AdmittedAsMeant, Skipped
<1>3. CASE UNCHANGED kataVars
  BY <1>3 DEF kataVars, KataInv, AdmittedAsMeant
<1> QED
  BY <1>1, <1>2, <1>3 DEF KataNext, AdmitOpen

\* Whatever a pod's tolerations and node selector, and however often it is
\* admitted and the webhook is down in between: it ends as submitted or on Kata
\* with nothing lost and nothing twice, and every patch can be applied.
THEOREM AdmissionRight == KataSpec => []AdmittedAsMeant
<1>1. KataInv => AdmittedAsMeant
  BY DEF KataInv
<1> QED
  BY <1>1, KataInitial, KataInductive, PTL DEF KataSpec
=============================================================================
