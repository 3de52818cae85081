---------------------------- MODULE PortalProofs ----------------------------
(***************************************************************************)
(* Proofs about the cluster actions and the sandbox history of the portal, *)
(* for any number of requests and sandboxes and any deadline and limit.    *)
(***************************************************************************)
EXTENDS ClusterActions, SandboxHistory, TLAPS

-----------------------------------------------------------------------------
(* ClusterActions *)

\* A poller that sleeps has looks left; a record is not from a later boot.
Looks    == \A o \in ClusterOps : op[o].pc \in {"calling", "asleep"} => op[o].polls < MaxPolls
FromPast == record.boot =< boots

ClusterInv == ClusterTypeOK /\ Looks /\ FromPast /\ InProgressAttended

LEMMA ClusterInitial == ClusterInit => ClusterInv
BY ClusterAssumption
   DEF ClusterInit, ClusterInv, ClusterTypeOK, Looks, FromPast, InProgressAttended, NoOp,
       NoRecord, Powers, Outcomes, NoPower

\* What a completion does to the record and to the count of lost writes.
LEMMA Completion ==
  ASSUME ClusterInv, NEW outcome \in {"success", "failed"}, RecordCompleted(outcome), boots' = boots
  PROVE  /\ record' \in [by : ClusterOps, outcome : Outcomes, boot : 0..MaxBoots] \cup {NoRecord}
         /\ lost' \in 0..MaxLost
         /\ record'.boot =< boots'
         /\ record'.outcome = "in_progress" => lost' # 0
<1>1. CASE record = NoRecord
  BY <1>1 DEF RecordCompleted, ClusterInv, ClusterTypeOK, FromPast, NoRecord
<1>2. CASE record # NoRecord
  <2>0. record \in [by : ClusterOps, outcome : Outcomes, boot : 0..MaxBoots]
    BY <1>2 DEF ClusterInv, ClusterTypeOK
  <2>1. CASE record' = [record EXCEPT !.outcome = outcome] /\ UNCHANGED lost
    BY <2>0, <2>1 DEF ClusterInv, ClusterTypeOK, FromPast, Outcomes
  <2>2. CASE lost < MaxLost /\ lost' = lost + 1 /\ UNCHANGED record
    BY <2>0, <2>2, ClusterAssumption DEF ClusterInv, ClusterTypeOK, FromPast, Outcomes
  <2> QED
    BY <1>2, <2>1, <2>2 DEF RecordCompleted, Write
<1> QED
  BY <1>1, <1>2

\* A look at the cluster, with the looks so far within the deadline.
LEMMA LookKeeps ==
  ASSUME ClusterInv, NEW o \in ClusterOps, NEW polls \in 0..MaxPolls, NEW p \in Powers \cup {NoPower},
         Pending(o), Look(o, polls, p), seen' \in Powers \cup {NoPower}, boots' = boots
  PROVE  ClusterInv'
<1>0. op \in [ClusterOps ->
        [pc : {"idle", "calling", "asleep", "showing", "done"},
         target : Powers \cup {NoPower}, polls : 0..MaxPolls]]
  BY DEF ClusterInv, ClusterTypeOK
<1>1. CASE UNCHANGED <<record, lost>> /\ polls < MaxPolls
             /\ op' = [op EXCEPT ![o].pc = "asleep", ![o].polls = polls]
  <2>1. ClusterTypeOK'
    BY <1>0, <1>1 DEF ClusterInv, ClusterTypeOK
  <2>2. Looks' /\ FromPast'
    BY <1>0, <1>1 DEF ClusterInv, Looks, FromPast
  <2>3. InProgressAttended'
    <3>1. Pending(o)'
      BY <1>0, <1>1 DEF Pending
    <3> QED
      BY <3>1 DEF InProgressAttended
  <2> QED
    BY <2>1, <2>2, <2>3 DEF ClusterInv
<1>2. ASSUME NEW outcome \in {"success", "failed"}, RecordCompleted(outcome),
             op' = [op EXCEPT ![o].pc = "done", ![o].polls = polls]
      PROVE  ClusterInv'
  <2>1. ClusterTypeOK'
    BY <1>0, <1>2, Completion DEF ClusterInv, ClusterTypeOK
  <2>2. Looks'
    BY <1>0, <1>2 DEF ClusterInv, Looks
  <2>3. FromPast' /\ InProgressAttended'
    BY <1>2, Completion DEF FromPast, InProgressAttended
  <2> QED
    BY <2>1, <2>2, <2>3 DEF ClusterInv
<1>3. polls >= MaxPolls \/ polls < MaxPolls
  BY ClusterAssumption
<1> QED
  BY <1>1, <1>2, <1>3 DEF Look, GivesUp

LEMMA ClusterInductive == ClusterInv /\ [ClusterNext]_clusterVars => ClusterInv'
<1> SUFFICES ASSUME ClusterInv, [ClusterNext]_clusterVars PROVE ClusterInv'
  OBVIOUS
<1>0. op \in [ClusterOps ->
        [pc : {"idle", "calling", "asleep", "showing", "done"},
         target : Powers \cup {NoPower}, polls : 0..MaxPolls]]
  BY DEF ClusterInv, ClusterTypeOK
<1>1. ASSUME NEW o \in ClusterOps, NEW p \in Powers, RequestAction(o, p) PROVE ClusterInv'
  <2>0. op' = [op EXCEPT ![o] = [pc |-> "calling", target |-> p, polls |-> 0]]
    BY <1>1 DEF RequestAction
  <2>1. Looks' /\ Pending(o)'
    BY <1>0, <2>0, ClusterAssumption DEF Looks, ClusterInv, Pending
  <2>2. record' \in [by : ClusterOps, outcome : Outcomes, boot : 0..MaxBoots] \cup {NoRecord}
          /\ lost' \in 0..MaxLost /\ record'.boot =< boots'
    BY <1>1, ClusterAssumption
       DEF RequestAction, RecordStarted, Write, ClusterInv, ClusterTypeOK, FromPast, Outcomes
  <2>3. ClusterTypeOK'
    BY <1>0, <1>1, <2>0, <2>2, ClusterAssumption DEF RequestAction, ClusterInv, ClusterTypeOK
  <2> QED
    BY <2>1, <2>2, <2>3 DEF ClusterInv, FromPast, InProgressAttended
<1>2. ASSUME NEW o \in ClusterOps, AzAccepts(o) PROVE ClusterInv'
  <2>0. /\ op[o].pc = "calling" /\ op' = [op EXCEPT ![o].pc = "asleep"]
        /\ UNCHANGED <<record, seen, boots, lost>>
    BY <1>2 DEF AzAccepts, Goto
  <2>1. ClusterTypeOK'
    BY <1>0, <2>0 DEF ClusterInv, ClusterTypeOK
  <2>2. Looks' /\ FromPast' /\ Pending(o)'
    BY <1>0, <2>0 DEF ClusterInv, Looks, FromPast, Pending
  <2> QED
    BY <2>1, <2>2 DEF ClusterInv, InProgressAttended
<1>3. ASSUME NEW o \in ClusterOps, AzErrors(o) PROVE ClusterInv'
  <2>0. op' = [op EXCEPT ![o].pc = "done"] /\ UNCHANGED <<seen, boots>> /\ RecordCompleted("failed")
    BY <1>3 DEF AzErrors, Goto
  <2>1. ClusterTypeOK'
    BY <1>0, <2>0, Completion DEF ClusterInv, ClusterTypeOK
  <2>2. Looks'
    BY <1>0, <2>0 DEF ClusterInv, Looks
  <2>3. FromPast' /\ InProgressAttended'
    BY <2>0, Completion DEF FromPast, InProgressAttended
  <2> QED
    BY <2>1, <2>2, <2>3 DEF ClusterInv
<1>4. ASSUME NEW o \in ClusterOps, WakeCached(o) PROVE ClusterInv'
  <2>1. op[o].polls + 1 \in 0..MaxPolls /\ Pending(o)
    BY <1>0, <1>4, ClusterAssumption DEF WakeCached, ClusterInv, Looks, Pending
  <2>2. seen \in Powers \cup {NoPower} /\ seen' = seen /\ boots' = boots
    BY <1>4 DEF WakeCached, ClusterInv, ClusterTypeOK
  <2> QED
    BY <1>4, <2>1, <2>2, LookKeeps DEF WakeCached
<1>5. ASSUME NEW o \in ClusterOps, WakeUncached(o) PROVE ClusterInv'
  <2>0. /\ op[o].pc = "asleep" /\ UNCHANGED <<record, seen, boots, lost>>
        /\ op' = [op EXCEPT ![o].pc = "showing", ![o].polls = @ + 1]
    BY <1>5 DEF WakeUncached
  <2>1. op[o].polls + 1 \in 0..MaxPolls
    BY <1>0, <2>0, ClusterAssumption DEF ClusterInv, Looks
  <2>2. ClusterTypeOK'
    BY <1>0, <2>0, <2>1 DEF ClusterInv, ClusterTypeOK
  <2>3. Looks' /\ FromPast' /\ Pending(o)'
    BY <1>0, <2>0 DEF ClusterInv, Looks, FromPast, Pending
  <2> QED
    BY <2>2, <2>3 DEF ClusterInv, InProgressAttended
<1>6. ASSUME NEW o \in ClusterOps, NEW p \in Powers, ShowReplies(o, p) PROVE ClusterInv'
  <2>1. op[o].polls \in 0..MaxPolls /\ Pending(o) /\ Look(o, op[o].polls, p)
          /\ seen' = p /\ boots' = boots
    BY <1>0, <1>6 DEF ShowReplies, Pending
  <2> QED
    BY <2>1, LookKeeps
<1>7. ASSUME NEW o \in ClusterOps, ShowErrors(o) PROVE ClusterInv'
  <2>1. op[o].polls \in 0..MaxPolls /\ Pending(o) /\ Look(o, op[o].polls, NoPower)
          /\ seen' = seen /\ boots' = boots /\ seen \in Powers \cup {NoPower}
    BY <1>0, <1>7 DEF ShowErrors, Pending, ClusterInv, ClusterTypeOK
  <2> QED
    BY <2>1, LookKeeps
<1>8. ASSUME UNCHANGED <<record, op, boots, lost>>, seen' \in Powers \cup {NoPower} PROVE ClusterInv'
  BY <1>8 DEF ClusterInv, ClusterTypeOK, Looks, FromPast, InProgressAttended, Pending
<1>9. ASSUME PortalRestarts PROVE ClusterInv'
  <2>0. /\ boots' = boots + 1 /\ boots < MaxBoots /\ seen' = NoPower /\ UNCHANGED <<record, lost>>
        /\ op' = [o \in ClusterOps |-> IF op[o].pc = "idle" THEN NoOp ELSE [op[o] EXCEPT !.pc = "done"]]
    BY <1>9 DEF PortalRestarts
  <2>1. boots' \in 0..MaxBoots /\ record.boot < boots' /\ record'.boot =< boots'
    BY <2>0, ClusterAssumption DEF ClusterInv, ClusterTypeOK, FromPast, NoRecord
  <2>2. ClusterTypeOK'
    BY <1>0, <2>0, <2>1, ClusterAssumption DEF ClusterInv, ClusterTypeOK, NoOp
  <2>3. Looks'
    BY <1>0, <2>0 DEF Looks, NoOp
  <2> QED
    BY <2>0, <2>1, <2>2, <2>3, ClusterAssumption
       DEF ClusterInv, ClusterTypeOK, FromPast, InProgressAttended, NoRecord
<1>10. CASE UNCHANGED clusterVars
  BY <1>10, <1>8 DEF clusterVars, ClusterInv, ClusterTypeOK
<1> QED
  BY <1>1, <1>2, <1>3, <1>4, <1>5, <1>6, <1>7, <1>8, <1>9, <1>10
     DEF ClusterNext, OpStep, ViewState, CacheExpires

\* However requests overlap, errors and restarts come, a record in progress of
\* this boot has a request or a poller left that will complete it, unless a
\* write of the file has failed.
THEOREM RecordAttended == ClusterSpec => [](ClusterTypeOK /\ InProgressAttended)
<1>1. ClusterInv => ClusterTypeOK /\ InProgressAttended
  BY DEF ClusterInv
<1> QED
  BY <1>1, ClusterInitial, ClusterInductive, PTL DEF ClusterSpec

\* What the code leaves to chance: one action at a time, every write lands.
ActionsApart == lost = 0 /\ \A o, q \in ClusterOps : Pending(o) /\ Pending(q) => o = q

\* The strengthening: while an action is pending, the record says so.
PendingRecorded == \A o \in ClusterOps : Pending(o) => record.outcome = "in_progress"

\* Where requests and pollers go: one that is pending was so before, but for a
\* request that starts, which writes the record or loses the write.
LEMMA PendingFrom ==
  ASSUME ClusterInv, ClusterNext, NEW o \in ClusterOps, Pending(o)'
  PROVE  Pending(o) \/ record'.outcome = "in_progress" \/ lost' # 0
<1> USE ClusterAssumption DEF Pending, Goto
<1>0. /\ op \in [ClusterOps ->
           [pc : {"idle", "calling", "asleep", "showing", "done"},
            target : Powers \cup {NoPower}, polls : 0..MaxPolls]]
      /\ lost \in 0..MaxLost
  BY DEF ClusterInv, ClusterTypeOK
<1>1. ASSUME NEW q \in ClusterOps, NEW p \in Powers, RequestAction(q, p)
      PROVE  record'.outcome = "in_progress" \/ lost' # 0
  BY <1>0, <1>1 DEF RequestAction, RecordStarted, Write
<1>2. ASSUME NEW q \in ClusterOps, OpStep(q) PROVE Pending(o)
  <2>1. Pending(q) /\ \A r \in ClusterOps \ {q} : op'[r] = op[r]
    BY <1>0, <1>2
    DEF OpStep, AzAccepts, AzErrors, WakeCached, WakeUncached, ShowErrors, ShowReplies, Look
  <2> QED
    BY <2>1
<1>3. ASSUME UNCHANGED op PROVE Pending(o)
  BY <1>3
<1>4. ASSUME PortalRestarts PROVE FALSE
  BY <1>0, <1>4 DEF PortalRestarts, NoOp
<1> QED
  BY <1>1, <1>2, <1>3, <1>4 DEF ClusterNext, ViewState, CacheExpires

\* The record changes only when a request writes it as it starts, or when a
\* pending one completes it and is pending no more.
LEMMA RecordChanges ==
  ASSUME ClusterInv, ClusterNext, record' # record
  PROVE  \/ record'.outcome = "in_progress"
         \/ \E o \in ClusterOps : Pending(o) /\ ~Pending(o)'
<1> USE ClusterAssumption DEF Pending, Goto
<1>0. op \in [ClusterOps ->
        [pc : {"idle", "calling", "asleep", "showing", "done"},
         target : Powers \cup {NoPower}, polls : 0..MaxPolls]]
  BY DEF ClusterInv, ClusterTypeOK
<1>1. ASSUME NEW o \in ClusterOps, NEW p \in Powers, RequestAction(o, p)
      PROVE  record'.outcome = "in_progress"
  BY <1>1 DEF RequestAction, RecordStarted, Write
<1>2. ASSUME NEW o \in ClusterOps, OpStep(o) PROVE Pending(o) /\ ~Pending(o)'
  BY <1>0, <1>2
  DEF OpStep, AzAccepts, AzErrors, WakeCached, WakeUncached, ShowErrors, ShowReplies, Look
<1> QED
  BY <1>1, <1>2 DEF ClusterNext, ViewState, CacheExpires, PortalRestarts

\* An outcome is overwritten only where two actions overlap in the one record
\* (the run ClusterOutcome), or where the write that starts one is lost.
THEOREM OutcomeWhereActionsApart == ClusterSpec /\ []ActionsApart => OutcomeStands
<1> DEFINE A == record.outcome \in {"success", "failed"} /\ record' # record
                  => record'.outcome = "in_progress"
<1>1. ClusterInit => PendingRecorded
  BY DEF ClusterInit, PendingRecorded, Pending, NoOp
<1>2. ClusterInv /\ PendingRecorded /\ ActionsApart /\ ActionsApart' /\ [ClusterNext]_clusterVars
      => PendingRecorded'
  <2> SUFFICES ASSUME ClusterInv, PendingRecorded, ActionsApart, ActionsApart',
                      ClusterNext, NEW o \in ClusterOps, Pending(o)'
               PROVE  record'.outcome = "in_progress"
    BY DEF PendingRecorded, clusterVars, Pending
  <2>1. Pending(o) \/ record'.outcome = "in_progress"
    BY PendingFrom DEF ActionsApart
  <2>2. CASE record' = record
    BY <2>1, <2>2 DEF PendingRecorded
  <2>3. ASSUME record' # record, NEW q \in ClusterOps, Pending(q), ~Pending(q)', Pending(o)
        PROVE  FALSE
    BY <2>3 DEF ActionsApart
  <2> QED
    BY <2>1, <2>2, <2>3, RecordChanges
<1>3. ClusterInv /\ PendingRecorded /\ [ClusterNext]_clusterVars => [A]_clusterVars
  BY RecordChanges DEF PendingRecorded, clusterVars
<1> QED
  BY <1>1, <1>2, <1>3, ClusterInitial, ClusterInductive, PTL DEF ClusterSpec, OutcomeStands

\* What bounds an action: its request and poller end, or look at the cluster
\* once more, or go from az to the sleep; ClusterTypeOK bounds the looks.
PollerOnward ==
  [][\A o \in ClusterOps : OpStep(o) =>
       \/ op'[o].pc = "done"
       \/ op'[o].polls = op[o].polls + 1
       \/ /\ op'[o].polls = op[o].polls /\ op'[o].pc = "asleep"
          /\ op[o].pc \in {"calling", "showing"}]_clusterVars

\* No poller looks again without counting, whether it was answered from the
\* cache, by az or by an error, and none looks more than MaxPolls times.
THEOREM PollersBounded == ClusterSpec => []Looks /\ PollerOnward
<1> DEFINE A == \A o \in ClusterOps : OpStep(o) =>
                  \/ op'[o].pc = "done"
                  \/ op'[o].polls = op[o].polls + 1
                  \/ /\ op'[o].polls = op[o].polls /\ op'[o].pc = "asleep"
                     /\ op[o].pc \in {"calling", "showing"}
<1>1. ClusterInv => Looks /\ A
  <2> SUFFICES ASSUME ClusterInv, NEW o \in ClusterOps, OpStep(o)
               PROVE  \/ op'[o].pc = "done"
                      \/ op'[o].polls = op[o].polls + 1
                      \/ /\ op'[o].polls = op[o].polls /\ op'[o].pc = "asleep"
                         /\ op[o].pc \in {"calling", "showing"}
    BY DEF ClusterInv
  <2>0. op \in [ClusterOps ->
          [pc : {"idle", "calling", "asleep", "showing", "done"},
           target : Powers \cup {NoPower}, polls : 0..MaxPolls]]
    BY DEF ClusterInv, ClusterTypeOK
  <2> QED
    BY <2>0 DEF OpStep, AzAccepts, AzErrors, WakeCached, WakeUncached, ShowErrors, ShowReplies,
                Look, Goto
<1> QED
  BY <1>1, ClusterInitial, ClusterInductive, PTL DEF ClusterSpec, PollerOnward

-----------------------------------------------------------------------------
(* SandboxHistory *)

\* A request that was sent concerns a sandbox that is not there yet, and only
\* sandboxes that were there have rows.
BornFirst ==
  \A s \in Sandboxes :
    /\ create[s] = "sent" => ctl[s] = "unborn"
    /\ create[s] = "made" \/ row[s] # "none" \/ delete[s] # "idle" => ctl[s] # "unborn"

\* What is missing from a list although it had a row has ended.
ListSound ==
  poll.pc = "listed" =>
    \A s \in poll.known : s \notin poll.ids => ctl[s] = "gone"

HistoryInv == HistoryTypeOK /\ BornFirst /\ ListSound

LEMMA HistoryInitial == HistoryInit => HistoryInv
BY DEF HistoryInit, HistoryInv, HistoryTypeOK, BornFirst, ListSound, Asleep

\* A row is only ever closed once, and only if there is one.
LEMMA CloseType ==
  ASSUME NEW old \in {"none", "open", "manual", "auto-expire"}, NEW reason \in {"manual", "auto-expire"}
  PROVE  /\ Close(old, reason) \in {"none", "open", "manual", "auto-expire"}
         /\ Close(old, reason) # "none" <=> old # "none"
         /\ old \in {"manual", "auto-expire"} => Close(old, reason) = old
BY DEF Close

LEMMA HistoryInductive == HistoryInv /\ [HistoryNext]_historyVars => HistoryInv'
<1> SUFFICES ASSUME HistoryInv, [HistoryNext]_historyVars PROVE HistoryInv'
  OBVIOUS
<1> USE DEF HistoryInv, HistoryTypeOK, BornFirst, ListSound
<1>1. ASSUME NEW s \in Sandboxes, CreateSandbox(s) PROVE HistoryInv'
  BY <1>1 DEF CreateSandbox
<1>2. ASSUME NEW s \in Sandboxes, ControlPlaneCreates(s) PROVE HistoryInv'
  BY <1>2 DEF ControlPlaneCreates
<1>3. ASSUME NEW s \in Sandboxes, CreateAnswered(s) PROVE HistoryInv'
  <2>0. newest' = newest \/ newest' = <<s>> \o newest
    BY <1>3 DEF CreateAnswered, RecordCreation
  <2>1. newest' \in Seq(Sandboxes)
    BY <2>0
  <2> QED
    BY <1>3, <2>1 DEF CreateAnswered, RecordCreation
<1>4. ASSUME NEW s \in Sandboxes, CreateFails(s) PROVE HistoryInv'
  BY <1>4 DEF CreateFails
<1>5. ASSUME NEW s \in Sandboxes, CreatedElsewhere(s) PROVE HistoryInv'
  BY <1>5 DEF CreatedElsewhere
<1>6. ASSUME NEW s \in Sandboxes, SandboxEnds(s) PROVE HistoryInv'
  BY <1>6 DEF SandboxEnds
<1>7. ASSUME NEW s \in Sandboxes, DeleteSandbox(s) PROVE HistoryInv'
  BY <1>7 DEF DeleteSandbox
<1>8. ASSUME NEW s \in Sandboxes, ControlPlaneDeletes(s) PROVE HistoryInv'
  BY <1>8 DEF ControlPlaneDeletes
<1>9. ASSUME NEW s \in Sandboxes, DeleteReturns(s) PROVE HistoryInv'
  <2>1. row' = [row EXCEPT ![s] = Close(row[s], "manual")]
    BY <1>9 DEF DeleteReturns
  <2>2. /\ row' \in [Sandboxes -> {"none", "open", "manual", "auto-expire"}]
        /\ \A z \in Sandboxes : row'[z] # "none" => row[z] # "none"
    BY <2>1, CloseType
  <2> QED
    BY <1>9, <2>2 DEF DeleteReturns
<1>10. ASSUME PollWakes PROVE HistoryInv'
  BY <1>10 DEF PollWakes
<1>11. ASSUME ControlPlaneLists PROVE HistoryInv'
  BY <1>11 DEF ControlPlaneLists, Live, Rows
<1>12. ASSUME PollFails PROVE HistoryInv'
  BY <1>12 DEF PollFails, Asleep
<1>13. ASSUME PollReconciles PROVE HistoryInv'
  <2>1. /\ row' \in [Sandboxes -> {"none", "open", "manual", "auto-expire"}]
        /\ \A z \in Sandboxes : row'[z] # "none" => row[z] # "none"
    BY <1>13, CloseType DEF PollReconciles
  <2> QED
    BY <1>13, <2>1 DEF PollReconciles, Asleep
<1>14. ASSUME HistoryRestarts PROVE HistoryInv'
  BY <1>14 DEF HistoryRestarts, Asleep
<1>15. CASE UNCHANGED historyVars
  BY <1>15 DEF historyVars
<1> QED
  BY <1>1, <1>2, <1>3, <1>4, <1>5, <1>6, <1>7, <1>8, <1>9, <1>10, <1>11, <1>12,
     <1>13, <1>14, <1>15 DEF HistoryNext, SandboxStep

\* Type correctness of the sandbox history.
THEOREM HistoryTypeCorrect == HistorySpec => []HistoryTypeOK
<1>1. HistoryInv => HistoryTypeOK
  BY DEF HistoryInv
<1> QED
  BY <1>1, HistoryInitial, HistoryInductive, PTL DEF HistorySpec

\* What a step does to the rows, by the action that touches them.
LEMMA RowSteps ==
  ASSUME HistoryInv, [HistoryNext]_historyVars, NEW s \in Sandboxes, row'[s] # row[s]
  PROVE  \/ row[s] = "none" /\ row'[s] = "open"
         \/ row[s] = "open" /\ row'[s] = "manual"
         \/ row[s] = "open" /\ row'[s] = "auto-expire" /\ poll.pc = "listed" /\ s \notin poll.ids
<1> USE DEF HistoryInv, HistoryTypeOK
<1>1. ASSUME NEW z \in Sandboxes, CreateAnswered(z)
      PROVE  row[s] = "none" /\ row'[s] = "open"
  BY <1>1 DEF CreateAnswered, RecordCreation
<1>2. ASSUME NEW z \in Sandboxes, DeleteReturns(z)
      PROVE  row[s] = "open" /\ row'[s] = "manual"
  BY <1>2 DEF DeleteReturns, Close
<1>3. ASSUME PollReconciles
      PROVE  row[s] = "open" /\ row'[s] = "auto-expire" /\ poll.pc = "listed" /\ s \notin poll.ids
  BY <1>3 DEF PollReconciles, Close
<1>4. CASE UNCHANGED row
  BY <1>4
<1> QED
  BY <1>1, <1>2, <1>3, <1>4
     DEF HistoryNext, SandboxStep, historyVars, CreateSandbox, ControlPlaneCreates, CreateFails,
         CreatedElsewhere, SandboxEnds, DeleteSandbox, ControlPlaneDeletes, PollWakes,
         ControlPlaneLists, PollFails, HistoryRestarts

\* The poller closes a row that was there when the list was made only if its
\* sandbox is gone, for any number of requests, failures and restarts.
THEOREM ExpiryTrue == HistorySpec => AutoExpiredIsGone
<1>1. ASSUME HistoryInv, [HistoryNext]_historyVars
      PROVE  [\A s \in Sandboxes : row[s] = "open" /\ row'[s] = "auto-expire" /\ s \in poll.known
                => ctl[s] = "gone"]_historyVars
  BY <1>1, RowSteps DEF HistoryInv, ListSound
<1> QED
  BY <1>1, HistoryInitial, HistoryInductive, PTL DEF HistorySpec, AutoExpiredIsGone

\* A row that is closed never changes again, whoever else tries to close it.
THEOREM ReasonStands == HistorySpec => FirstReasonStands
<1>1. ASSUME HistoryInv, [HistoryNext]_historyVars
      PROVE  [\A s \in Sandboxes : row[s] \in {"manual", "auto-expire"} => row'[s] = row[s]]_historyVars
  BY <1>1, RowSteps
<1> QED
  BY <1>1, HistoryInitial, HistoryInductive, PTL DEF HistorySpec, FirstReasonStands
=============================================================================
