------------------------------ MODULE KimiChat ------------------------------
(***************************************************************************)
(* The chat proxy of the portal: kimi_chat of main.py, which keeps both    *)
(* turns of a conversation, and KimiClient of clients.py, which tries the  *)
(* deployments in order, several times each, with a token that all chats   *)
(* share and that no lock protects.                                        *)
(*                                                                         *)
(* az keeps tokens of its own: each of its answers is any token, a new one *)
(* or one that it has handed out before, to this chat or another, also     *)
(* after the endpoint has refused it.  What the endpoint answers is an     *)
(* input, and so is the age of the token in KimiClient: a token within     *)
(* five minutes of its expiry is as good as none.                          *)
(***************************************************************************)
EXTENDS Integers

CONSTANTS
  Chats,        \* requests to /api/kimi/chat
  Tokens,       \* bound: the tokens that az hands out
  NoToken,      \* None
  Deployments,  \* how many deployments are configured
  Attempts      \* attempts at each of them

ASSUME KimiAssumption ==
  Deployments \in Nat /\ Attempts \in Nat \ {0} /\ NoToken \notin Tokens

VARIABLES
  token,        \* KimiClient._token while it is fresh, else NoToken
  chat,         \* each request: where it is, its place in the loops, its token
  turns,        \* chat_messages: which turns of which request
  verdict       \* of each token: refused with 401, and brought by az since

chatVars == <<token, chat, turns, verdict>>

Waits == {"asking_az", "posting", "sleeping"}
Ends  == {"answered", "failed"}

\* order: length of dep_order; dep, try: the place in the two loops
NoChat   == [pc |-> "idle", order |-> 0, dep |-> 0, try |-> 0, with |-> NoToken]

Begin(n) == [pc |-> "idle", order |-> n, dep |-> 1, try |-> 1, with |-> NoToken]

Places == [pc : {"idle"} \cup Waits \cup Ends, order : Nat, dep : Nat, try : Nat,
           with : Tokens \cup {NoToken}]

ChatInit ==
  /\ token = NoToken
  /\ chat = [c \in Chats |-> NoChat]
  /\ turns = {}
  /\ verdict = [t \in Tokens |-> "none"]

-----------------------------------------------------------------------------
(* The loops of chat *)

\* k at the same place in the loops, doing something else
At(k, pc, tok) == [pc |-> pc, order |-> k.order, dep |-> k.dep, try |-> k.try, with |-> tok]

\* An attempt at the place of k, with tok in the cache: post with it, or ask
\* az for one.  Past the last deployment the chat has failed.
Attempt(k, tok) ==
  IF k.dep > k.order THEN At(k, "failed", NoToken)
  ELSE IF tok # NoToken THEN At(k, "posting", tok)
  ELSE At(k, "asking_az", NoToken)

NextDeployment(k) == [k EXCEPT !.dep = @ + 1, !.try = 1]

NextTry(k) == IF k.try < Attempts THEN [k EXCEPT !.try = @ + 1] ELSE NextDeployment(k)

Backoff(k) == At(k, "sleeping", NoToken)

\* The handlers of exceptions sleep, but not after the last attempt.
AfterError(k) == IF k.try < Attempts THEN Backoff(NextTry(k)) ELSE Attempt(NextDeployment(k), token)

-----------------------------------------------------------------------------
\* The question is kept and the first attempt begins.  A deployment that is
\* asked for by a name the configuration lacks makes the order longer by one.
AskKimi(c) ==
  /\ chat[c].pc = "idle"
  /\ turns' = turns \cup {<<c, "user">>}
  /\ \E n \in {Deployments, Deployments + 1} :
       chat' = [chat EXCEPT ![c] = Attempt(Begin(n), token)]
  /\ UNCHANGED <<token, verdict>>

\* The cache is written and the post begins, with nothing in between; what
\* another chat put into the cache meanwhile is overwritten.
AzAnswers(c) ==
  /\ chat[c].pc = "asking_az"
  /\ \E t \in Tokens :
       /\ token' = t
       /\ chat' = [chat EXCEPT ![c] = Attempt(chat[c], t)]
       /\ verdict' = [verdict EXCEPT ![t] = IF @ = "refused" THEN "brought again" ELSE @]
  /\ UNCHANGED turns

\* az fails or times out, or the post raises.
CallRaises(c) ==
  /\ chat[c].pc \in {"asking_az", "posting"}
  /\ chat' = [chat EXCEPT ![c] = AfterError(chat[c])]
  /\ UNCHANGED <<token, turns, verdict>>

\* Seeded bug: the refused token stays in the cache.
RefusedKept(c) ==
  /\ chat[c].pc = "posting"
  /\ verdict' = [verdict EXCEPT ![chat[c].with] = "refused"]
  /\ chat' = [chat EXCEPT ![c] = Attempt(NextTry(chat[c]), token)]
  /\ UNCHANGED <<token, turns>>

\* 401: the cache is emptied, whatever token is in it by now; next attempt.
Refused(c) ==
  /\ chat[c].pc = "posting"
  /\ verdict' = [verdict EXCEPT ![chat[c].with] = "refused"]
  /\ token' = NoToken
  /\ chat' = [chat EXCEPT ![c] = Attempt(NextTry(chat[c]), NoToken)]
  /\ UNCHANGED turns

\* Seeded bug: an attempt that was throttled is not counted.
ThrottledUncounted(c) ==
  /\ chat[c].pc = "posting"
  /\ chat' = [chat EXCEPT ![c] = Backoff(chat[c])]
  /\ UNCHANGED <<token, turns, verdict>>

\* 429: sleep, after the last attempt too.
Throttled(c) ==
  /\ chat[c].pc = "posting"
  /\ chat' = [chat EXCEPT ![c] = Backoff(NextTry(chat[c]))]
  /\ UNCHANGED <<token, turns, verdict>>

\* Another status, or an empty reply: the deployment is given up.
GivenUp(c) ==
  /\ chat[c].pc = "posting"
  /\ chat' = [chat EXCEPT ![c] = Attempt(NextDeployment(chat[c]), token)]
  /\ UNCHANGED <<token, turns, verdict>>

\* The reply is kept and returned.
Replied(c) ==
  /\ chat[c].pc = "posting"
  /\ turns' = turns \cup {<<c, "assistant">>}
  /\ chat' = [chat EXCEPT ![c] = At(chat[c], "answered", NoToken)]
  /\ UNCHANGED <<token, verdict>>

Wakes(c) ==
  /\ chat[c].pc = "sleeping"
  /\ chat' = [chat EXCEPT ![c] = Attempt(chat[c], token)]
  /\ UNCHANGED <<token, turns, verdict>>

\* The cached token comes within five minutes of its expiry.
TokenAges ==
  /\ token # NoToken
  /\ token' = NoToken
  /\ UNCHANGED <<chat, turns, verdict>>

ChatStep(c) ==
  \/ AzAnswers(c) \/ CallRaises(c) \/ Refused(c) \/ Throttled(c)
  \/ GivenUp(c) \/ Replied(c) \/ Wakes(c)

ChatNext == TokenAges \/ \E c \in Chats : AskKimi(c) \/ ChatStep(c)

\* az is cut off after 30 s and a post after 120 s; sleepers wake.
ChatFairness == \A c \in Chats : WF_chatVars(ChatStep(c))

ChatSpec == ChatInit /\ [][ChatNext]_chatVars

-----------------------------------------------------------------------------
(* Properties *)

ChatTypeOK ==
  /\ token \in Tokens \cup {NoToken}
  /\ verdict \in [Tokens -> {"none", "refused", "brought again"}]
  /\ turns \subseteq Chats \X {"user", "assistant"}
  /\ chat \in [Chats -> Places]

\* "Force token refresh on next attempt" (clients.py:480): an attempt that
\* begins after a refusal, of this chat or of another, does not use the refused
\* token, though chats hold it, are refused it later, or wait for az all the
\* while; unless an answer of az that came after the refusal has brought it
\* again, which the code does not exclude.
NotRefusedBefore(c) ==
  chat'[c].pc = "posting" /\ chat'[c] # chat[c] => verdict'[chat'[c].with] # "refused"

RetriesRenewed == [][\A c \in Chats : NotRefusedBefore(c)]_chatVars

\* Every chat ends in an answer or an error, even if every token is refused,
\* every post is throttled and other chats empty the cache all the time.
ChatsEnd == \A c \in Chats : chat[c].pc \in Waits ~> chat[c].pc \in Ends
=============================================================================
