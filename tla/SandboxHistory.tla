--------------------------- MODULE SandboxHistory ---------------------------
(***************************************************************************)
(* The portal's history of sandboxes: the rows of sandbox_creations that   *)
(* create_sandbox and delete_sandbox of main.py write after their call to  *)
(* the control plane, and the background task _poll_sandbox_expiry, which  *)
(* compares the rows with a list of the live sandboxes.                    *)
(*                                                                         *)
(* Every call to the control plane is suspended between the moment it      *)
(* takes effect there and the moment its answer is handled, or lost.       *)
(***************************************************************************)
EXTENDS Integers, Sequences

CONSTANTS
  Sandboxes,  \* sandbox ids; the control plane never gives one twice
  Limit       \* the newest rows that the poller looks at, 200

ASSUME HistoryAssumption == Limit \in Nat \ {0}

VARIABLES
  ctl,      \* the sandboxes at the control plane
  row,      \* sandbox_creations: no row, open, or why it was closed
  newest,   \* the ids of the rows, newest first
  create,   \* where the portal's create request is
  delete,   \* where the portal's delete request is
  poll      \* the poller, the list it was sent, the rows there were then

historyVars == <<ctl, row, newest, create, delete, poll>>

Asleep == [pc |-> "asleep", ids |-> {}, known |-> {}]

HistoryInit ==
  /\ ctl = [s \in Sandboxes |-> "unborn"]
  /\ row = [s \in Sandboxes |-> "none"]
  /\ newest = <<>>
  /\ create = [s \in Sandboxes |-> "idle"]
  /\ delete = [s \in Sandboxes |-> "idle"]
  /\ poll = Asleep

Live    == {s \in Sandboxes : ctl[s] = "live"}
Rows    == {s \in Sandboxes : row[s] # "none"}
Tracked(s) == \E i \in 1..Len(newest) : i =< Limit /\ newest[i] = s

-----------------------------------------------------------------------------
(* history.py *)

\* INSERT OR IGNORE
RecordCreation(s) ==
  IF row[s] = "none"
  THEN row' = [row EXCEPT ![s] = "open"] /\ newest' = <<s>> \o newest
  ELSE UNCHANGED <<row, newest>>

\* Seeded bug: a row that is closed is closed again.
Reclose(old, reason) == IF old = "none" THEN old ELSE reason

\* UPDATE ... WHERE expired_at IS NULL
Close(old, reason) == IF old = "open" THEN reason ELSE old

-----------------------------------------------------------------------------
(* create_sandbox *)

CreateSandbox(s) ==
  /\ create[s] = "idle" /\ ctl[s] = "unborn"
  /\ create' = [create EXCEPT ![s] = "sent"]
  /\ UNCHANGED <<ctl, row, newest, delete, poll>>

ControlPlaneCreates(s) ==
  /\ create[s] = "sent"
  /\ create' = [create EXCEPT ![s] = "made"]
  /\ ctl' = [ctl EXCEPT ![s] = "live"]
  /\ UNCHANGED <<row, newest, delete, poll>>

CreateAnswered(s) ==
  /\ create[s] = "made"
  /\ create' = [create EXCEPT ![s] = "done"]
  /\ RecordCreation(s)
  /\ UNCHANGED <<ctl, delete, poll>>

\* An error or a timeout, before or after the effect: no row is written.
CreateFails(s) ==
  /\ create[s] \in {"sent", "made"}
  /\ create' = [create EXCEPT ![s] = "done"]
  /\ UNCHANGED <<ctl, row, newest, delete, poll>>

\* Desktop sandboxes of the portal and those of other clients have no row.
CreatedElsewhere(s) ==
  /\ create[s] = "idle" /\ ctl[s] = "unborn"
  /\ ctl' = [ctl EXCEPT ![s] = "live"]
  /\ UNCHANGED <<row, newest, create, delete, poll>>

-----------------------------------------------------------------------------
(* delete_sandbox *)

DeleteSandbox(s) ==
  /\ delete[s] = "idle" /\ ctl[s] # "unborn"
  /\ delete' = [delete EXCEPT ![s] = "sent"]
  /\ UNCHANGED <<ctl, row, newest, create, poll>>

ControlPlaneDeletes(s) ==
  /\ delete[s] = "sent"
  /\ delete' = [delete EXCEPT ![s] = "made"]
  /\ ctl' = [ctl EXCEPT ![s] = "gone"]
  /\ UNCHANGED <<row, newest, create, poll>>

\* Answered or failed, with or without an effect: the row is closed.
DeleteReturns(s) ==
  /\ delete[s] \in {"sent", "made"}
  /\ delete' = [delete EXCEPT ![s] = "idle"]
  /\ row' = [row EXCEPT ![s] = Close(@, "manual")]
  /\ UNCHANGED <<ctl, newest, create, poll>>

\* The sandbox's timeout at the control plane, or a delete by someone else.
SandboxEnds(s) ==
  /\ ctl[s] = "live"
  /\ ctl' = [ctl EXCEPT ![s] = "gone"]
  /\ UNCHANGED <<row, newest, create, delete, poll>>

-----------------------------------------------------------------------------
(* _poll_sandbox_expiry *)

\* After 30 s the list is asked for.
PollWakes ==
  /\ poll.pc = "asleep"
  /\ poll' = [poll EXCEPT !.pc = "listing"]
  /\ UNCHANGED <<ctl, row, newest, create, delete>>

ControlPlaneLists ==
  /\ poll.pc = "listing"
  /\ poll' = [pc |-> "listed", ids |-> Live, known |-> Rows]
  /\ UNCHANGED <<ctl, row, newest, create, delete>>

\* Seeded bug: an answer that is an error is read as an empty list.
ErrorIsEmptyList ==
  /\ poll.pc \in {"listing", "listed"}
  /\ poll' = [pc |-> "listed", ids |-> {}, known |-> Rows]
  /\ UNCHANGED <<ctl, row, newest, create, delete>>

\* An error is not a list; any exception ends this round only.
PollFails ==
  /\ poll.pc \in {"listing", "listed"}
  /\ poll' = Asleep
  /\ UNCHANGED <<ctl, row, newest, create, delete>>

\* Seeded bug: a row found live stops the scan.
ScanUntilLive ==
  /\ poll.pc = "listed"
  /\ poll' = Asleep
  /\ row' = [s \in Sandboxes |->
       IF Tracked(s) /\ s \notin poll.ids /\ \A z \in poll.ids : row[z] # "open"
       THEN Close(row[s], "auto-expire") ELSE row[s]]
  /\ UNCHANGED <<ctl, newest, create, delete>>

\* The open rows among the newest that are not in the list are closed.  The
\* rows are read after the list has arrived, and no await follows.
PollReconciles ==
  /\ poll.pc = "listed"
  /\ poll' = Asleep
  /\ row' = [s \in Sandboxes |->
       IF Tracked(s) /\ s \notin poll.ids THEN Close(row[s], "auto-expire") ELSE row[s]]
  /\ UNCHANGED <<ctl, newest, create, delete>>

\* The portal restarts: what was under way is lost, the database stays.
HistoryRestarts ==
  /\ create' = [s \in Sandboxes |-> IF create[s] = "idle" THEN "idle" ELSE "done"]
  /\ delete' = [s \in Sandboxes |-> "idle"]
  /\ poll' = Asleep
  /\ UNCHANGED <<ctl, row, newest>>

-----------------------------------------------------------------------------
SandboxStep(s) ==
  \/ CreateSandbox(s) \/ ControlPlaneCreates(s) \/ CreateAnswered(s) \/ CreateFails(s)
  \/ CreatedElsewhere(s) \/ SandboxEnds(s)
  \/ DeleteSandbox(s) \/ ControlPlaneDeletes(s) \/ DeleteReturns(s)

HistoryNext ==
  \/ \E s \in Sandboxes : SandboxStep(s)
  \/ PollWakes \/ ControlPlaneLists \/ PollFails \/ PollReconciles
  \/ HistoryRestarts

\* The poller always wakes, and rounds do not fail for ever.
HistoryFairness ==
  WF_historyVars(PollWakes) /\ SF_historyVars(ControlPlaneLists) /\ SF_historyVars(PollReconciles)

HistorySpec == HistoryInit /\ [][HistoryNext]_historyVars /\ HistoryFairness

-----------------------------------------------------------------------------
(* Properties *)

HistoryTypeOK ==
  /\ ctl \in [Sandboxes -> {"unborn", "live", "gone"}]
  /\ row \in [Sandboxes -> {"none", "open", "manual", "auto-expire"}]
  /\ newest \in Seq(Sandboxes)
  /\ create \in [Sandboxes -> {"idle", "sent", "made", "done"}]
  /\ delete \in [Sandboxes -> {"idle", "sent", "made"}]
  /\ poll \in [pc : {"asleep", "listing", "listed"}, ids : SUBSET Sandboxes, known : SUBSET Sandboxes]

\* A row that was there when the control plane made its list is closed by the
\* poller only if its sandbox is gone, whatever was created, deleted, lost or
\* refused while the list was on its way.
AutoExpiredIsGone ==
  [][\A s \in Sandboxes :
       row[s] = "open" /\ row'[s] = "auto-expire" /\ s \in poll.known => ctl[s] = "gone"]_historyVars

\* The poller and the deletes of one sandbox may all close its row: the first
\* one's reason stands.
FirstReasonStands ==
  [][\A s \in Sandboxes : row[s] \in {"manual", "auto-expire"} => row'[s] = row[s]]_historyVars

\* The row of a sandbox that has ended is closed, unless so many newer rows
\* appear first that the poller no longer looks at it.
EndedIsClosed ==
  \A s \in Sandboxes :
    row[s] = "open" /\ ctl[s] = "gone" ~> row[s] # "open" \/ ~Tracked(s)
=============================================================================
