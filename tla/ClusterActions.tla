--------------------------- MODULE ClusterActions ---------------------------
(***************************************************************************)
(* Starting and stopping the cluster from the portal: the handlers         *)
(* cluster_start and cluster_stop and the background task                  *)
(* _poll_cluster_completion of main.py, the one-row file in which          *)
(* cluster_history.py keeps the last action, and the two-second cache of   *)
(* AzClient.get_state, which the pollers share with the state endpoint.    *)
(*                                                                         *)
(* What az reports is an input.  How long an action took is left out.      *)
(***************************************************************************)
EXTENDS Integers

CONSTANTS
  ClusterOps,   \* start and stop requests
  MaxPolls,     \* deadline_s / interval_s, looks at the cluster per request
  MaxBoots,     \* bound: restarts of the portal
  MaxLost       \* bound: writes of the file that fail

Powers   == {"Running", "Stopped"}
Outcomes == {"in_progress", "success", "failed"}
NoPower  == "none"
NoRecord == [by |-> "nobody", outcome |-> "none", boot |-> 0]

ASSUME ClusterAssumption ==
  /\ MaxPolls \in Nat \ {0} /\ MaxBoots \in Nat /\ MaxLost \in Nat
  /\ "nobody" \notin ClusterOps

VARIABLES
  record,     \* cluster-history.json: whose action, its outcome, when written
  op,         \* each request and its poller: where it is, what it waits for
  seen,       \* _state_cache: the power in it while it is fresh
  boots,      \* restarts so far
  lost        \* failed writes so far

clusterVars == <<record, op, seen, boots, lost>>

NoOp == [pc |-> "idle", target |-> NoPower, polls |-> 0]

ClusterInit ==
  /\ record = NoRecord
  /\ op = [o \in ClusterOps |-> NoOp]
  /\ seen = NoPower
  /\ boots = 0
  /\ lost = 0

-----------------------------------------------------------------------------
(* cluster_history.py *)

\* The write replaces the file, or fails and is only logged.
Write(rec) ==
  \/ record' = rec /\ UNCHANGED lost
  \/ lost < MaxLost /\ lost' = lost + 1 /\ UNCHANGED record

RecordStarted(o) == Write([by |-> o, outcome |-> "in_progress", boot |-> boots])

\* Whatever record there is gets the outcome.
RecordCompleted(outcome) ==
  IF record = NoRecord
  THEN UNCHANGED <<record, lost>>
  ELSE Write([record EXCEPT !.outcome = outcome])

-----------------------------------------------------------------------------
(* cluster_start and cluster_stop *)

Goto(o, pc) == op' = [op EXCEPT ![o].pc = pc]

\* Start waits for Running, stop for Stopped; the record is written first.
RequestAction(o, target) ==
  /\ op[o].pc = "idle"
  /\ op' = [op EXCEPT ![o] = [pc |-> "calling", target |-> target, polls |-> 0]]
  /\ RecordStarted(o)
  /\ UNCHANGED <<seen, boots>>

\* az took the request: the poller is started and sleeps.
AzAccepts(o) ==
  /\ op[o].pc = "calling"
  /\ Goto(o, "asleep")
  /\ UNCHANGED <<record, seen, boots, lost>>

\* Seeded bug: the error is returned without completing the record.
ErrorUnrecorded(o) ==
  /\ op[o].pc = "calling"
  /\ Goto(o, "done")
  /\ UNCHANGED <<record, seen, boots, lost>>

\* az refused, failed or timed out: nothing is polled.
AzErrors(o) ==
  /\ op[o].pc = "calling"
  /\ Goto(o, "done")
  /\ RecordCompleted("failed")
  /\ UNCHANGED <<seen, boots>>

-----------------------------------------------------------------------------
(* _poll_cluster_completion *)

\* while elapsed < deadline_s
GivesUp(polls) == polls >= MaxPolls

\* After the last look the action has failed, else the poller sleeps again.
Look(o, polls, power) ==
  IF power = op[o].target
  THEN /\ op' = [op EXCEPT ![o].pc = "done", ![o].polls = polls]
       /\ RecordCompleted("success")
  ELSE IF GivesUp(polls)
  THEN /\ op' = [op EXCEPT ![o].pc = "done", ![o].polls = polls]
       /\ RecordCompleted("failed")
  ELSE /\ op' = [op EXCEPT ![o].pc = "asleep", ![o].polls = polls]
       /\ UNCHANGED <<record, lost>>

\* Ten seconds later the state is taken from the cache if it is fresh there.
WakeCached(o) ==
  /\ op[o].pc = "asleep" /\ seen # NoPower
  /\ Look(o, op[o].polls + 1, seen)
  /\ UNCHANGED <<seen, boots>>

\* Seeded bug: the sleep is not counted.
WakeUncounted(o) ==
  /\ op[o].pc = "asleep" /\ seen = NoPower
  /\ Goto(o, "showing")
  /\ UNCHANGED <<record, seen, boots, lost>>

WakeUncached(o) ==
  /\ op[o].pc = "asleep" /\ seen = NoPower
  /\ op' = [op EXCEPT ![o].pc = "showing", ![o].polls = @ + 1]
  /\ UNCHANGED <<record, seen, boots, lost>>

\* az show has an answer, which is cached.
ShowReplies(o, power) ==
  /\ op[o].pc = "showing"
  /\ seen' = power
  /\ Look(o, op[o].polls, power)
  /\ UNCHANGED boots

\* An error is an answer without a power and is not cached.
ShowErrors(o) ==
  /\ op[o].pc = "showing"
  /\ Look(o, op[o].polls, NoPower)
  /\ UNCHANGED <<seen, boots>>

-----------------------------------------------------------------------------
\* GET /api/cluster/state of the same process fills the cache too.
ViewState(power) ==
  /\ seen = NoPower
  /\ seen' = power
  /\ UNCHANGED <<record, op, boots, lost>>

\* Two seconds after it was filled.
CacheExpires ==
  /\ seen # NoPower
  /\ seen' = NoPower
  /\ UNCHANGED <<record, op, boots, lost>>

\* The portal restarts: requests and pollers are gone, the file stays.
PortalRestarts ==
  /\ boots < MaxBoots
  /\ boots' = boots + 1
  /\ seen' = NoPower
  /\ op' = [o \in ClusterOps |-> IF op[o].pc = "idle" THEN NoOp ELSE [op[o] EXCEPT !.pc = "done"]]
  /\ UNCHANGED <<record, lost>>

-----------------------------------------------------------------------------
OpStep(o) ==
  \/ AzAccepts(o) \/ AzErrors(o)
  \/ WakeCached(o) \/ WakeUncached(o) \/ ShowErrors(o)
  \/ \E p \in Powers : ShowReplies(o, p)

ClusterNext ==
  \/ \E o \in ClusterOps : OpStep(o) \/ \E p \in Powers : RequestAction(o, p)
  \/ \E p \in Powers : ViewState(p)
  \/ CacheExpires
  \/ PortalRestarts

\* az ends (its calls have a timeout) and sleeping tasks wake up.
ClusterFairness == \A o \in ClusterOps : WF_clusterVars(OpStep(o))

ClusterSpec == ClusterInit /\ [][ClusterNext]_clusterVars /\ ClusterFairness

-----------------------------------------------------------------------------
(* Properties *)

ClusterTypeOK ==
  /\ record \in [by : ClusterOps, outcome : Outcomes, boot : 0..MaxBoots] \cup {NoRecord}
  /\ op \in [ClusterOps ->
       [pc : {"idle", "calling", "asleep", "showing", "done"},
        target : Powers \cup {NoPower}, polls : 0..MaxPolls]]
  /\ seen \in Powers \cup {NoPower}
  /\ boots \in 0..MaxBoots
  /\ lost \in 0..MaxLost

Pending(o) == op[o].pc \in {"calling", "asleep", "showing"}

\* However actions overlap and overwrite the one record, a record in progress
\* has someone left to complete it, unless the portal has restarted since or a
\* write was lost.
InProgressAttended ==
  record.outcome = "in_progress" /\ record.boot = boots /\ lost = 0
    => \E o \in ClusterOps : Pending(o)

\* A record in progress is completed, whether or not the cluster ever gets
\* there: pollers give up after their deadline.
ActionSettles ==
  record.outcome = "in_progress" ~> record.outcome # "in_progress" \/ boots > 0 \/ lost > 0

\* A completion updates a record in progress: an outcome, once there, stays
\* until another action starts.
OutcomeStands ==
  [][record.outcome \in {"success", "failed"} /\ record' # record
       => record'.outcome = "in_progress"]_clusterVars
=============================================================================
