# DarkForge in TLA+

DarkForge runs untrusted code in sandboxes on AKS. This directory holds TLA+
models of the parts of it that keep state and can go wrong in ways a test hardly
reaches, the TLC configurations that check them on small instances, and proofs,
checked by TLAPS, of what matters most for instances of any size.

`PROJECT.json` lists the components, the runs, the hazards with the line where
each bites, the theorems, and for every definition the source lines it models.

## The system

| Component | State it keeps | Operations | What is hard |
|---|---|---|---|
| sandbox sessions (`control-plane/app/routers/sessions.py`, `aks_client.py`) | `_sessions`, the warm-pool counters per user and for the platform; pods and labels in Kubernetes | create (default tier, shared tier), delete, get, run | every handler awaits several times between a test and what depends on it; calls fail after taking effect; the counters die with the process, the pods do not |
| token validation (`auth/jwt_validator.py`) | `_jwks_cache`, `_jwks_fetched_at`, `_jwks_lock` | `get_jwks`, `validate_token`, warm-up | stampedes, one request invalidating what another waits for, keys rotating during a fetch, a clock that starts at zero |
| on-behalf-of tokens (`auth/obo_exchange.py`) | cache per user, lock, MSAL client | `exchange_for_aks` | a blocking exchange under one lock of all users, expiry near the margin |
| provisioning, audit, probes (`routers/users.py`, `middleware/audit.py`, `routers/healthz.py`) | the audit producer | provision, emit, probe | time-out and retry; failures that must not block |
| swarm runs (`portal-api/app/swarm.py`) | `_registry`; per run state, events, queue, process; `swarm_runs` | start, cancel, stream, drain thread | a thread and the event loop write the same fields; streams share a queue; eviction of live runs |
| cluster start/stop (`portal-api/app/main.py`, `cluster_history.py`, `clients.py`) | the record file, the state cache | start, stop, poll, view | requests overlap in one record; errors, deadline, restart |
| sandbox history (`portal-api/app/main.py`, `history.py`) | `sandbox_creations` | create, delete, expiry poller | a list that is old when it is compared; errors; the limit of 200 rows |
| chat, pool capacity (`portal-api/app`) | `chat_messages`, token cache; the Pool resource | chat, patch | retries and deployments; read, validate, write |
| code interpreter (`portal-api/app/main.py`, `examples/run_in_sandbox.py`) | a worker thread, a helper process and a snippet file per request | exec | a helper that hangs, nested time-outs, worker threads shared with swarm runs |
| kata webhook (`kata-webhook/app/main.py`) | none | mutate | idempotence of the patch |
| demo agent (`examples/kimi-agent-demo`) | one slot for the active session; container groups at Azure | create, run and delete as the model calls them, cleanup | any order of calls; creates that raise after their effect; a model that never stops |
| swarm script (`examples/hypothesis_swarm.py`) | hypotheses, one result each | ask, race, rank | one failing sandbox among many; exit codes that are not known |
| SDKs, front end, other examples | client side only | HTTP calls, event source | answers lost after their effect |
| infrastructure, scripts, workflows | declarative | | not program logic |

The control plane is one asyncio event loop. It calls Kubernetes, the identity
provider and Azure; its handlers share the caches above. The portal is another
process with its own event loop, its drain threads and its SQLite file; it calls
the control plane over HTTP, `az` as a subprocess, and spawns the swarm script.

What makes each part correct:

* sessions: an id is granted once, for one user and one pod, and given up only
  after its pod; limits hold or are passed by a bounded amount; no slot is
  counted that nobody holds; the default tier is isolated from the shared one;
* signing keys: one fetch at a time, withdrawn keys stop working, known keys
  work, the lock is always given back;
* on-behalf-of tokens: one's own token, with life left, exchanged once;
* swarm runs: the state tells the truth about the process, a viewer is told the
  end, event lists stay bounded, an end once written to the history stays;
* cluster actions: a record in progress is attended and settles;
* sandbox history: rows are closed when sandboxes are gone, and only then;
* chat: an attempt that starts after a refusal uses no refused token that `az`
  has not brought again, every chat ends;
* pool capacity: the pool itself is consistent, not only what a patch looked at;
* webhook: a pod ends as submitted or on Kata, with nothing lost or added twice;
* code interpreter: every request is answered, and neither a process nor a file
  stays behind;
* demo agent: it ends unless a call to Azure never does, and only groups it has
  lost hold of are left;
* swarm script: a named winner repairs the program, whatever the others do;
* audit and status: a command leaves one event or an excuse; a status is newer
  than the question.

## The modules

An action is the code between two awaits, or the effect of an awaited call at
the other side, so that everything another request can do in between is a
behaviour of the model. A call that changes something elsewhere may take effect
and still fail.

| Module | Models | Checked by | Proved in |
|---|---|---|---|
| `Sessions` | create and delete with both tiers, Kubernetes calls, restarts | `MCSessions` | `SessionsProofs` |
| `SandboxLeases` | what the session API promises; `Sessions` implements it | `MCSessions` | `SessionsRefinement` |
| `JwksCache` | `get_jwks`, `validate_token`, the provider's keys, time | `MCJwksCache` | `JwksCacheProofs` |
| `OboCache` | `exchange_for_aks`, the executor, time | `MCOboCache` | `OboCacheProofs` |
| `SessionCommands` | `get_session`, `run_command` and its audit event, over `SandboxLeases` | `MCSwarm` | `ClientProofs` |
| `SwarmRuns` | start, drain thread, cancel, event streams, registry, rows | `MCStreams`, `MCSwarm` | `SwarmProofs` |
| `HypothesisRace` | the script behind a swarm run | `MCSwarm` | `ClientProofs` |
| `ClusterActions` | start, stop, the poller, the record, the state cache | `MCPortal` | `PortalProofs` |
| `SandboxHistory` | create and delete through the portal, the expiry poller | `MCPortal` | `PortalProofs` |
| `KimiChat` | the chat proxy: deployments, attempts, the shared token, the turns | `MCPortal` | `RequestProofs` |
| `CodeExec` | `sandbox_exec`, the worker threads, the helper process | `MCPortal` | `ClientProofs` |
| `AciAgent` | `run_agent`, `dispatch_tool`, `ACISandbox`, the container groups | `MCPortal` | `ClientProofs` |
| `PoolPatch` | a change of the pool's capacity: read, test, write | `MCSwarm` | `RequestProofs` |
| `KataWebhook` | the admission patch, and the API server that applies it | `MCSwarm` | `RequestProofs` |

State and code correspond by name: `sessions` is `_sessions`, `cache` and
`fetchedAt` are `_jwks_cache` and `_jwks_fetched_at`, `entries` is the
on-behalf-of cache, `registry`, `events` and `queue` are those of `swarm.py`,
`row` and `newest` the rows of `sandbox_creations`. `pc` (or a field of that
name) says in which await a request is suspended, and `loc` holds its locals.

**Sessions.** A default-tier create exchanges the token (`StartPerUser`), then
creates a pod named after the session (`CreatePod`). A shared-tier create tests
both limits (`StartShared`, `RateLimited`), lists the idle pods (`ListIdle`),
patches the first (`PatchPod`) and writes the counters (`CountBind`), the user's
from the value read before the awaits. Deletes run the other way. `ListFails`,
`CallFails` and `ExchangeFails` are the error paths; `CallFails` covers a call
that took effect. `WarmPodReady`, `PodDies` and `Restart` are the environment.

**JwksCache, OboCache.** Time is `time.monotonic()` in steps. A fetch has an
instant at which the provider answers and a later one at which the answer
arrives. `Match` is the code after `get_jwks` returned, up to the next await.

**SwarmRuns.** The drain thread runs against the event loop at any point, so
`_push_event` is split where the other side can come between its test and its
append (`MakeRoom`, `AppendEvent`), and a cancellation is split the same way;
`busy` keeps the other tasks of the loop out while a cancellation that does not
await is under way. `DrainError` is a line that cannot be decoded. Every write of
the history may fail, which the code swallows: the row stays as it was, and the
thread ends as `unsaved` instead of `finished`, the cancellation as `unsaved`
instead of `replied` (it replies in either case). The drain thread takes the
state for the row (`DrainRead`) before it writes it (`DrainRecord`), and a
cancellation can come between. `Attach` answers a run that is not in the registry
with 404 (`refused`), which an `EventSource` takes as final.

**KimiChat.** `token` is `KimiClient._token` while it is fresh, shared by all
chats; `chat` holds each request's place in the two loops. `az` keeps a token
cache of its own, so each of its answers is any of `Tokens`, to several chats at
once and after a refusal, too. `verdict` is a history variable: which tokens were
answered 401, and which of these `az` has brought again since. What the endpoint
answers is a choice: `Refused` is 401, `Throttled` 429, `GivenUp` any other
status or an empty reply, `CallRaises` an exception. The handlers of exceptions
do not sleep after the last attempt, a 429 does.

**PoolPatch.** `overtaken` is a history variable: it says that the pool changed
between a request's read and its write. `stale` says so of the last write.

**KataWebhook.** `Mutate` is the function from a pod to the operations of the
patch, `Applied` what the API server makes of them. The initial pod is any pod
of the bounded set; `Admit` and `AdmitOpen` may follow in any order.

**SessionCommands.** These requests change neither sessions nor pods, so what
happens to both is taken from `SandboxLeases`, the specification that `Sessions`
implements: any of its steps may come between two awaits (`LeasesMove`), and a
restart (`ControlPlaneRestarts`) loses the requests in flight with it.
`delivered` counts a command's events at Event Hubs; `EventStored` and
`EventSent` are the effect of the send and its return, and `EventFails` may
follow the effect. `goneBefore` is a history variable, the pods that were gone
when a request came. A GET answers 404 of Kubernetes with an empty record
(`Status`).

**CodeExec.** A job is a request or the reader of a swarm run; both take a
thread of the loop's default executor, in order (`waiting`, `TakeJob`). `helper`
is the process: it may hang or die anywhere, and `OuterCap` kills it. `file` holds the
requests whose snippet is on disk.

**AciAgent.** `at` says what the agent waits for. The replies of the model are
any sequences of tool calls from `Replies`. A creation is first waited for without
a limit (`creating`), then asked about for 180 s (`polling`); a deletion is waited
for without a limit. The session is recorded after both (`Created`), so a create that raises after its effect
(`CreationFails`), like one that replaces an active session and a cleanup that
raises, leaves a group nobody can delete; `adrift` collects exactly these.

**HypothesisRace.** An element of the answer is a patch that repairs the
program, one that does not, none, or one `main` cannot read. `Reports` is what
the sandbox may say: the script runs under `set -e`, so it prints its marker
only after a pass, and the SDK knows the exit code or not. `passedIn` is a
history variable, the hypotheses that were seen to pass.

Modules that share no state need no interleaving: `MCPortal` instantiates those
with liveness properties (`ClusterActions`, `SandboxHistory`, `KimiChat`,
`CodeExec`, `AciAgent`), `MCSwarm` those with safety properties (`SwarmRuns`,
`HypothesisRace`, `PoolPatch`, `KataWebhook`, `SessionCommands`), and each lets
one of them move per behaviour: TLC explores the sum of the state spaces. In
`MCPortal` a module at rest has no fair action enabled in its initial state but
the history's poller, whose fairness is restricted to its own behaviours;
otherwise the liveness properties of the others would hold vacuously.

## The runs

| Run | Instance | Shows |
|---|---|---|
| `Sessions` | 2 requests of one user, 3 ids, 3 warm pods, platform limit 1, 1 restart | types, bounded overshoot, no over-count, isolation, refinement of `SandboxLeases` |
| `SessionsSerial` | 1 request at a time, 2 users, 3 ids, 2 image tags, 1 restart | exact counters, per-user limit, one session per pod, pods in use never idle |
| `SessionsUserLimit` | 2 requests of one user, limit 1 | violation: the per-user limit is exceeded |
| `SessionsOnePod` | 2 requests, 2 pods | violation: two sessions in one pod |
| `JwksCache` | 2 validations, 2 keys, 2 rotations, TTL 2, clock from TTL | one fetch, keys expire, known keys accepted, no repeated refresh, validations end |
| `JwksBoot` | clock from 0, TTL 3 | violation: within TTL of the boot a new key is rejected |
| `OboCache` | 3 requests of 2 users, lives 0 and 3, margin 1 | own token, life left, no repeated exchange, requests end |
| `Swarm` | 2 runs (1 watched), registry of 1, 2 cancellations, 2 lines, event list of 2, failing writes; 2 hypotheses, 2 deployments, 2 posts, 3 clock values; 2 patches; every small pod; 2 requests, 2 sessions, 2 pods, restarts | truth of the reports, bound of the list, replay ends with done, a row written at the end is final; the winner repairs; the pool inconsistent only after an overtaken patch; the webhook's effect; audited commands, timely status |
| `SwarmStreams` | 2 runs (1 watched), registry of 1, 2 connections, 1 cancellation | a lone viewer gets every line; every browser learns the end, or that the run was evicted |
| `SwarmCancelled` | 1 run, 1 cancellation | violation: a cancelled run stays in the history as failed |
| `Portal` | 2 cluster requests, 2 polls, 1 restart, 1 lost write; 2 sandboxes, 1 tracked row; 2 chats, 2 tokens, 2 attempts; 2 snippets, 1 swarm reader, 1 worker; 2 groups, 3 turns, 2 tries | records attended and settled; rows closed rightly and eventually; no attempt with a refused token that `az` has not brought again, chats end; snippets answered and cleaned up; the agent ends unless ACI never answers, and only lost groups remain |
| `ClusterOutcome` | 2 cluster requests | violation: one request's poller replaces the other's outcome |

### Bounds

Two requests are enough for every race of a test with what follows it, and the
limits are set so low that two requests reach them. Three ids and three warm
pods let two binds pass the limit while a third session holds the last slot: with
two, the counter could not exceed its bound whatever the code did. One user is
enough in `Sessions`, as no property there compares users beyond a pod's owner;
`SessionsSerial` has two, one of them being refused by the per-user limit. The warm pods' number bounds the binds, so exhaustion (an empty
list) is reached. `MaxRestarts`, `MaxBoots` and `MaxLost` are 1: a restart
clears everything a second one would. In `JwksCache`, `MaxTime` is three times
TTL, so a cache is filled, goes stale and is refilled; `MaxRotations` lets a key
be withdrawn and published again. In `SwarmRuns`, the list of 2 events is full
after a line and a done, or two dones, and `MaxRuns` of 1 makes every start an
eviction. Runs share nothing but the registry and the event loop, so in
`MCStreams` all but the watched run only start (`OthersOnlyStart`), which evicts
the watched one wherever it is. In `SwarmStreams` the writes of the history
succeed (`WritesSucceed`), as no stream reads them; in `Swarm` any of them fails. `Limit` of 1 against two sandboxes makes an open row fall out of the
poller's sight. In `KimiChat`, two tokens let `az` hand out the refused
one again or another, to one chat or both; one deployment is configured and
another may be asked for, each is tried twice: the last attempt differs from the
one before it, and the last deployment from the other. `SmallBodies` are the
patches of one field, of all four and of none, with numbers from 0 to a capacity
of 2, so that every one of the tests refuses some; two overlap. The webhook gets
all pods with up to two tolerations of two kinds and selectors over two keys and
two values, fields missing included. In `CodeExec`, one worker makes a request
wait behind another one and behind a swarm run. In `AciAgent`, replies have up to
two calls, the first of two being a create, so that a session is replaced,
deleted twice, used after its deletion; three turns are enough for create, a
failed delete and another create, and two groups for one lost and one active. In
`HypothesisRace`, an answer may have one element more than `N`, and with three
clock values one hypothesis is faster, slower or as fast as the other. In
`SessionCommands`, one of two requests can find the producer as the other left
it. Symmetry is used only in runs without liveness properties
(`Sessions`, `SessionsSerial`, `Swarm`), over sets whose members nothing tells
apart. The
swarm runs switch the deadlock check off, because every run ends and every
cancellation and request is used up; all others check it.

### Fairness

* `JwksCache`, `OboCache`: a call to the provider ends (httpx has a timeout; for
  the exchange, which has none, this is an assumption about the provider, and
  without it requests may wait for ever). A waiter for the lock is served:
  `asyncio.Lock` wakes waiters in order, hence strong fairness.
* `SwarmRuns`: threads and tasks are scheduled, the swarm script exits, a stream
  task is not kept from running (strong, because a cancellation holds the loop
  now and then), and a browser whose stream ended without done reconnects, as
  `EventSource` does and `dist/app.js` lets it, until it is refused. In
  `SwarmStreams` this is assumed of the watched run only.
* `ClusterActions`: `az` ends (its calls time out after 30 s), sleepers wake.
* `KimiChat`: the same, and a post ends (httpx cuts it off after 120 s). The
  endpoint is not assumed to answer anything but 401 or 429.
* `CodeExec`: a free worker takes the next job, the outer time-out fires, the
  handler goes on. Nothing is assumed of the helper nor of its sandbox. A swarm
  run ends some day; nothing in the portal makes it, and with as many of them as
  workers, requests would otherwise wait for ever.
* `AciAgent`: what the agent does by itself goes on, and what has a limit ends:
  posts (120 s), commands (60 s), the asking after a creation (180 s). The two
  waits for a result of ACI have no limit (`aci_sandbox.py:134`, `224`), so
  nothing is assumed of them: they may return, raise, be interrupted or never end
  (`AciCalls`), and `AgentEnds` excepts an agent that waits for ever in one of
  them. Nothing is assumed of what the model answers or of what ACI does.
* `PoolPatch`, `KataWebhook`, `HypothesisRace`, `SessionCommands`: none, their
  properties are of safety.
* `SandboxHistory`: the poller wakes, and its rounds do not fail for ever.

## What is proved

All theorems hold for every value of the constants under the named assumptions
(`SessionsAssumption`, `JwksAssumption`, `OboAssumption`, `SwarmAssumption`,
`ClusterAssumption`, `HistoryAssumption`, `KimiAssumption`, `PoolAssumption`,
`KataAssumption`, `AgentAssumption`, `ExecAssumption`, `RaceAssumption`), which
TLC evaluates in the runs. Type invariants are part of the inductive invariants;
only that of `Sessions`, which depends on the floor of the counters, is also
checked by a run.

* **Sessions.** `TypeCorrect`; the floor at zero of the counters is needed, since
  two deletes of one session both release. `PlatformOvershoot` by the invariant
  that the counter plus the requests between test and count stays within
  `PlatformLimit - 1 + Cardinality(Tasks)`: a request that passes the test saw
  the counter below the limit, but not the others on their way.
  `PerUserTierIsolated` and `StoredPodsStayBound` from `StoreInv`, which says for
  each stored session and each suspended request what its pod looks like, and
  from the uniqueness of the ids in flight. `PlatformCountSound` adds one step of
  the counter against one of the store. `SessionsImplementLeases`: every step of
  the handlers is a step of `SandboxLeases` or a stutter.

  Three properties do not hold of every behaviour. A theorem each says under
  which condition they do, so that the violations found have no other cause:
  `OnePodWhereBindsApart` (`PatchesApart`: no two requests have picked a shared
  pod that neither has counted), since the pod a request has picked is then in
  no session (`PickedFree`); `LimitWhereRequestsApart` (`BindsApart`: no two
  creates of one user between test and count; `DeletesApart`: no two deletes of
  one session), since a user's counter, and the value a create has read of it,
  then cover the sessions held and stay below the limit (`LimitInv`), and what a
  delete gives back is still counted (`DeleteHolds`); `CountersWhereOneEach`
  (`OneEach`: no user has two requests under way), since the value read is then
  the counter's when it is written (`ReadIsCurrent`). Failures, restarts and the
  interleavings of different users are allowed in all three. TLC checked the
  three inductive invariants on two requests before they were proved. A
  `SessionsSerial` behaviour, with one request at a time, meets all the
  conditions.
* **JwksCache.** `SingleFetch`: the lock holder, and only it, fetches.
  `KeysExpire`: no answer in the cache or on its way is older than its stamp
  allows. `KnownKeysAccepted`: if the clock starts at TTL or later, a forced
  refresh never settles for an answer older than the request.
  `NoRepeatedRefresh`: while a request holds the lock on its way to a refill the
  cache is stale (`StaleInv`), since each tests again once it has the lock.
  `ValidationsBounded`: no step of a validation returns to a place it has left,
  but for the one forced second attempt.
* **OboCache.** `CachedTokensGood`, `OwnTokenServed` and `NoRepeatedExchange`.
* **SwarmRuns.** `SwarmInv` relates each actor's place to the fields it is
  between writing. It gives `TypeCorrect`, `EventListBound` (each of the two
  sides can have made room once when the other appends), `ReportsTrue`,
  `CancelledDies` and `ReplayComplete`. `RowsSettle`: whoever writes the row
  at the end of a run writes a final state, and a start does not come after
  (`SettledInv`); it says nothing of a row none of whose last writes succeeds. `LoneViewerComplete`: what a viewer was replayed, followed by
  what waits in the queue, is what the drain thread has pushed, in order and
  without a gap (`ViewersInv`); TLC checked that invariant with two streams and two lines,
  one more than the run has. `CancellationKept`: a cancellation that was written
  to the history stays there if each cancellation sets the state after the drain
  thread has stated the end, and not while the thread carries an older state to
  the row (`ThreadFirst`, a condition on each step that the code leaves to chance;
  TLC finds a lost cancellation if either half of it is dropped). So the run
  `SwarmCancelled` shows one of the only two causes of such a loss.
* **Portal.** `RecordAttended`: the request that last wrote a record in progress
  or one that came to complete it is still pending. `ExpiryTrue`: a row that was
  there when the list was made and is not in it belongs to a sandbox that was
  there before and is gone (`BornFirst`, `ListSound`). `HistoryTypeCorrect`,
  `ReasonStands`. `OutcomeWhereActionsApart`: where no two actions are pending
  together and no write is lost (`ActionsApart`), an outcome stands until the
  next action, since a pending action's record is then in progress
  (`PendingRecorded`). `PollersBounded`: a poller counts every look at the
  cluster, and looks at most `MaxPolls` times.
* **Chat.** `NoRefusedToken`: a refusal empties the cache whatever is in it, so a
  refused token in the cache has been brought by `az` since (`CacheRenewed`), and
  an attempt begins with the token of the cache and no other (`ChatMoves`), whoever
  waits for `az` or posts meanwhile.
  `ChatAlwaysOnward`: a chat never returns to an earlier place of its loops,
  which have at most `Attempts` places at each of `Deployments` + 1 deployments.
* **Pool.** `PoolConsistent`: what a request that nobody has overtaken is about
  to write is consistent with the pool of now (`WritesConsistent`), since it was
  when the request looked and the pool has not changed.
* **Webhook.** `AdmissionRight`, from one lemma for each field: the operation
  chosen from the field, applied to it, gives what was meant; a pod on Kata is
  skipped from then on.
* **Demo agent.** `CleansUp`: `AgentInv` says that every group that exists can
  be reached by the name the agent holds or is creating, or is adrift.
  `AgentBounded`: no turn, try or tool call is taken twice, and their numbers are
  bounded, whatever the model asks for.
* **Code interpreter.** `LeavesHostClean`: helpers are alive only under working
  jobs (`HelperInv`), and working jobs are bounded by the workers
  (`NobodyStarts`, `OneStarts`); for that, the queue holds each job once and
  only queued ones (`QueueInv`), and the files are those of the jobs between
  submission and answer (`FileInv`).
* **Swarm script.** `RaceSound`: `ExitCodeSound` says that an exit code counts as
  zero only if the script printed it, which takes a patch that repairs; `LanesInv`
  carries that to the results.
* **Session requests.** `RequestsSound`: `RequestInv` ties where a request is to
  how often its event was stored. `LeasesKept`: the composition with the leases
  and the restart implements `SandboxLeases`.

Only model-checked: the liveness properties (`ValidationsEnd`, `RequestsEnd`,
`ViewerSeesDone`, `ActionSettles`, `EndedIsClosed`, `ChatsEnd`, `ExecEnds`,
`AgentEnds`), as TLAPS does not prove liveness here. `ValidationsBounded`,
`PollersBounded`, `ChatAlwaysOnward` and `AgentBounded` prove the part of four of
them that needs no fairness: the steps lead on, so that only a call that never
returns, or a lock that is never granted, could keep a request from its end. `OnePodPerSession`,
`UserLimitHolds`, `CountersExact`, `CancelledRecorded` and `OutcomeStands` are
proved under the conditions above, and are false without.

## Where the code differs from what is said of it

The runs marked violation show these, with the quoted lines in `PROJECT.json`:

1. Two concurrent creates exceed the per-user limit (`SessionsUserLimit`). The
   same late write of the user's counter can undo a delete's decrement. This and
   two deletes of one session are the only ways (`LimitWhereRequestsApart`).
2. Two concurrent creates bind the same warm pod (`SessionsOnePod`), and it takes
   that overlap (`OnePodWhereBindsApart`).
3. On a host booted less than TTL ago, `_jwks_fetched_at = 0.0` does not
   invalidate the cache, and a newly published key is rejected (`JwksBoot`).
4. A cancelled run ends as failed or completed in the history when the drain
   thread writes last (`SwarmCancelled`); it takes a drain thread that states the
   end after the cancellation, or that has read the state for the row before and
   writes it after (`CancellationKept`).
5. Completing a cluster action changes whatever record is there
   (`ClusterOutcome`); one action at a time is safe unless the write that starts
   it is lost (`OutcomeWhereActionsApart`).

Seen while modelling, without a run: `healthz.py` binds `_jwks_cache` at import,
so `/readyz` never sees it filled; a stream can end without the done event, as
its loop tests a state that changes before done is queued (a reconnection gets
it, `ViewerSeesDone`); a browser that reconnects to an evicted run gets 404, and
shows the run as running for ever; the row of a run stays at running if the writes
at its end fail, which are swallowed and not repeated; the expiry poller closes the row of a sandbox created
while its list was on the way, and a delete that failed closes the row too; two overlapping patches, each of
them valid, can leave the pool with `poolMin` above `poolMax`, which the
docstring of `patch_pool` (`main.py:711`) says is validated
(`ConsistentUnlessStale` without its second half does not hold); a question is
kept in `chat_messages` even if the chat fails, and then has no answer; after a
401 the chat proxy says that it forces a refresh of the token (`clients.py:480`),
but it asks `az` in the same way as before, which may answer with the refused token
out of its own cache, and all attempts can be spent on it (`RetriesRenewed` says
that a refused token comes back in no other way).

Likewise in the clients and the audit trail:

* `agent.py:351` promises "Ensure sandbox is cleaned up even on error", but groups
  of creates that raised, of sessions replaced while active and of a failed
  cleanup stay (`OnlyLostRemain` says that no others do).
  `aci_sandbox.py:105` says "Raises on timeout (>180 s)", but that time starts
  after a wait without a limit, which can block the agent for ever, as can a
  deletion and with it the cleanup (`AgentEnds` says that nothing else can). The tool's description
  (`agent.py:96`) promises an exit code; `aci_sandbox.py:197` always says 0.
* `hypothesis_swarm.py:247` says that the marker frees the script from the SDK's
  exit code; under `set -e` a failing test ends the script before the marker, so
  failures do depend on it (or on its absence). The first marker is taken, not the
  trailing one.
* `run_in_sandbox.py:127` says "tear down", but no script of the examples kills
  its sandbox: it stays until its own time-out of five minutes.
* The audit log's `session_id` is always empty, being read before the route is
  matched (`audit.py:74`); a request that ends in an unhandled exception has no
  record. The event is awaited before the answer, and a producer that fails to
  start once stays off until the process restarts.
* The Python SDK's answer models require fields that the control plane does not
  send, so its create, get and run raise after their effect, and its listing has
  no route.

## What is left out

* Requests refused before they touch state (403, 404, 422) have no action.
* A request in flight at a restart is gone; one that the API server applies
  after the restart is not modelled. Collisions of the eight hexadecimal digits
  in names are not either.
* In `SwarmRuns`, `append` and `put_nowait` are one step, as are the done event
  and its sentinel; lines without an event and the summary are left out; the
  portal does not restart there. The generator of a stream looks the run up once
  more when it starts; both look-ups are `Attach`. A start whose token or process
  fails leaves no run and has no action.
* In `ClusterActions`, durations; in `SandboxHistory`, rows created in the same
  second are ordered by insertion, and the list of the control plane is taken as
  complete: if it came in pages, the portal would read the first only.
* In `KimiChat`, the portal does not restart, and messages, temperatures and
  durations are left out. The time limit of a post is httpx's, for each phase of
  it and not for the whole: an endpoint that sends a byte now and then would
  outlast it, and is taken not to.
* In `PoolPatch`, there is one pool; patches of others share nothing with it.
* In `KataWebhook`, the operator of a toleration is not compared by the code, nor
  here; a review that cannot be read is an `AdmitOpen`.
* In `SessionCommands`, the execution of a command and `get_logs` are stubs in
  the code and have no effect; the middleware's log record keeps no state.
* In `CodeExec`, other users of the worker threads (the token of a run, the wait
  of a cancellation) hold them for seconds only; sandboxes of snippets are left
  to their own time-out, by the code, too; the portal does not restart there.
* In `AciAgent`, the output of commands; in `HypothesisRace`, prompts, the
  leaderboard's text, and a patch that passes the tests without repairing the
  program: the tests are the judge. So is a patch that prints the marker with a
  zero itself, and the parse takes the first one.

### Not modelled

* Request authentication checks a token's claims and keeps no state. Health
  probes, settings, read-only endpoints: reads and constants.
* User provisioning: the deployment and the propagation probe are stubs that
  return at once, so its time-out cannot strike.
* The Python SDK is a wrapper of HTTP calls without state of its own, and with
  the control plane of this repository its operations always raise (above); the
  JavaScript and Go SDKs are not implemented.
* The front end (its event source is in `SwarmRuns`), infrastructure, scripts,
  the other examples: no state, or straight-line code.

## Plan

Written, in order of importance: `Sessions` with `SandboxLeases`, `JwksCache`,
`OboCache`, `SwarmRuns`, `ClusterActions`, `SandboxHistory`, `KimiChat`,
`PoolPatch`, `KataWebhook`, `SessionCommands`, `CodeExec`, `AciAgent`,
`HypothesisRace`.

Worth doing when the code gets there: provisioning with its probe's time-out and
retry once the probe is more than a stub; command execution once it reaches the
pod; the Python SDK against `SandboxLeases` once its answers parse; recovery of
runs and records in progress after a restart of the portal.

Theorems worth proving next: an abstract specification of the swarm's event log
(append only, one end, each viewer reads a prefix) that `SwarmRuns` implements
for a lone viewer; that the requests of `CodeExec` take workers in the order in
which they came; for `OboCache`, `SandboxHistory` and `CodeExec`, the part of
`RequestsEnd`, `EndedIsClosed` and `ExecEnds` that needs no fairness.
