---------------------------- MODULE ClientProofs -----------------------------
(***************************************************************************)
(* Proofs about the programs that use the control plane and the portal:    *)
(* the demo agent, the code interpreter, the script of a swarm run, and    *)
(* the requests that use a session.                                        *)
(***************************************************************************)
EXTENDS AciAgent, CodeExec, HypothesisRace, SessionCommands, FiniteSetTheorems, TLAPS

(***************************************************************************)
(* The demo agent                                                          *)
(***************************************************************************)

\* Every group that exists has a name the agent can reach it by, or is lost;
\* after a failed cleanup the name of the active one is no longer of use.
AgentInv ==
  /\ AgentTypeOK
  /\ fresh # NoGroup <=> at \in {"creating", "polling"}
  /\ at \in {"deleting", "cleanup"} => active # NoGroup
  /\ at \in {"creating", "polling", "deleting"} => calls # <<>>
  /\ \A g \in Groups : Exists(g) => g \in adrift \cup {active, fresh}
  /\ at = "done" /\ active # NoGroup /\ Exists(active) => active \in adrift

LEMMA AgentInitial == AgentInit => AgentInv
  BY AgentAssumption DEF AgentInit, AgentInv, AgentTypeOK, Exists, Tools

LEMMA AgentInductive == AgentInv /\ [AgentNext]_agentVars => AgentInv'
<1> SUFFICES ASSUME AgentInv, [AgentNext]_agentVars PROVE AgentInv'
  OBVIOUS
<1> USE AgentAssumption DEF AgentInv, AgentTypeOK, Exists, hold, loops
<1>1. CASE RunAgent
  BY <1>1 DEF RunAgent
<1>2. CASE TryAgain
  BY <1>2 DEF TryAgain
<1>3. CASE ChatEnds
  BY <1>3 DEF ChatEnds
<1>4. ASSUME NEW reply \in Replies, ToolCalls(reply) PROVE AgentInv'
  BY <1>4 DEF ToolCalls
<1>5. CASE TurnOver
  BY <1>5 DEF TurnOver
<1>6. CASE BadArguments
  BY <1>6 DEF BadArguments
<1>7. ASSUME calls # <<>>, Reported PROVE calls' \in Seq(Tools) /\ at' = "tools" /\ UNCHANGED loops
  BY <1>7 DEF Reported
<1>8. CASE RunInSandbox \/ NoEffect
  BY <1>7, <1>8 DEF RunInSandbox, Run, NoEffect, Calling, Reported
<1>9. ASSUME NEW g \in Groups, CreateSession(g) PROVE AgentInv'
  BY <1>9 DEF CreateSession, Calling
<1>10. CASE Created
  <2>1. calls' \in Seq(Tools) /\ at' = "tools" /\ UNCHANGED loops
    BY <1>7, <1>10 DEF Created
  <2> QED
    BY <1>10, <2>1 DEF Created, Lose
<1>11. CASE CreationFails
  <2>1. calls' \in Seq(Tools) /\ at' = "tools" /\ UNCHANGED loops
    BY <1>7, <1>11 DEF CreationFails
  <2> QED
    BY <1>11, <2>1 DEF CreationFails, Lose
<1>12. CASE DeleteSession
  BY <1>12 DEF DeleteSession, Calling
<1>13. CASE Deleted
  <2>1. calls' \in Seq(Tools) /\ at' = "tools" /\ UNCHANGED loops
    BY <1>7, <1>13 DEF Deleted
  <2> QED
    BY <1>13, <2>1 DEF Deleted
<1>14. CASE DeleteFails
  <2>1. calls' \in Seq(Tools) /\ at' = "tools" /\ UNCHANGED loops
    BY <1>7, <1>14 DEF DeleteFails
  <2> QED
    BY <1>14, <2>1 DEF DeleteFails
<1>15. CASE SafetyCleanup
  BY <1>15 DEF SafetyCleanup
<1>16. CASE CleanedUp
  BY <1>16 DEF CleanedUp
<1>17. CASE CleanupFails
  BY <1>17 DEF CleanupFails, Lose
<1>18. CASE Interrupted
  BY <1>18 DEF Interrupted, Lose
<1>19. CASE Removed
  BY <1>19 DEF Removed
<1>20. ASSUME NEW g \in Groups, Provisioned(g) PROVE AgentInv'
  BY <1>20 DEF Provisioned
<1>21. CASE CreateReturns
  BY <1>21 DEF CreateReturns
<1>22. CASE UNCHANGED agentVars
  BY <1>22 DEF agentVars
<1> QED
  BY <1>1, <1>2, <1>3, <1>4, <1>5, <1>6, <1>8, <1>9, <1>10, <1>11, <1>12, <1>13,
     <1>14, <1>15, <1>16, <1>17, <1>18, <1>19, <1>20, <1>21, <1>22 DEF AgentNext, AgentStep

\* run_agent: whatever the model calls and wherever the agent fails, only the
\* groups it has lost hold of remain when it ends.
THEOREM CleansUp == AgentSpec => [](AgentTypeOK /\ OnlyLostRemain)
<1>1. AgentInv => AgentTypeOK /\ OnlyLostRemain
  BY AgentAssumption DEF AgentInv, OnlyLostRemain, AgentTypeOK
<1> QED
  BY <1>1, AgentInitial, AgentInductive, PTL DEF AgentSpec

\* What bounds a started agent: it takes the next turn, tries the model again
\* within one, or goes on within it, from the model to the calls of the reply,
\* of which there is one less after each, and in the end to the finally clause.
AgentOnward ==
  [][AgentStep =>
       \/ turn' = turn + 1
       \/ /\ turn' = turn
          /\ \/ at = "chat" /\ at' = "chat" /\ try' = try + 1
             \/ at = "chat" /\ at' = "tools"
             \/ at = "tools" /\ at' \in {"creating", "deleting"} /\ calls' = calls
             \/ at = "creating" /\ at' = "polling" /\ calls' = calls
             \/ /\ at \in {"tools", "creating", "polling", "deleting"} /\ at' = "tools"
                /\ Len(calls') = Len(calls) - 1
       \/ at \in {"chat", "tools", "creating", "polling", "deleting"} /\ at' = "finally"
       \/ at = "finally" /\ at' \in {"cleanup", "done"}
       \/ at = "cleanup" /\ at' = "done"]_agentVars

\* run_agent: no turn, try or tool call is taken twice, and AgentTypeOK bounds
\* the turns and the tries, whatever the model keeps asking for.
THEOREM AgentBounded == AgentSpec => []AgentTypeOK /\ AgentOnward
<1> DEFINE A == AgentStep =>
       \/ turn' = turn + 1
       \/ /\ turn' = turn
          /\ \/ at = "chat" /\ at' = "chat" /\ try' = try + 1
             \/ at = "chat" /\ at' = "tools"
             \/ at = "tools" /\ at' \in {"creating", "deleting"} /\ calls' = calls
             \/ at = "creating" /\ at' = "polling" /\ calls' = calls
             \/ /\ at \in {"tools", "creating", "polling", "deleting"} /\ at' = "tools"
                /\ Len(calls') = Len(calls) - 1
       \/ at \in {"chat", "tools", "creating", "polling", "deleting"} /\ at' = "finally"
       \/ at = "finally" /\ at' \in {"cleanup", "done"}
       \/ at = "cleanup" /\ at' = "done"
<1>1. AgentInv => AgentTypeOK /\ A
  <2> SUFFICES ASSUME AgentInv, AgentStep PROVE A
    BY DEF AgentInv
  <2>1. ASSUME calls # <<>>, Reported
        PROVE  at' = "tools" /\ turn' = turn /\ Len(calls') = Len(calls) - 1
    <3>1. calls \in Seq(Tools)
      BY DEF AgentInv, AgentTypeOK
    <3> QED
      BY <2>1, <3>1 DEF Reported, loops
  <2>2. CASE \/ RunInSandbox \/ NoEffect \/ Created \/ CreationFails \/ Deleted \/ DeleteFails
    <3>1. calls # <<>> /\ Reported /\ at \in {"tools", "creating", "polling", "deleting"}
      BY <2>2 DEF RunInSandbox, NoEffect, Created, CreationFails, Deleted, DeleteFails, Calling,
                  AgentInv
    <3> QED
      BY <2>1, <3>1
  <2>3. CASE TurnOver
    BY <2>3 DEF TurnOver, loops
  <2>4. CASE \/ TryAgain \/ ChatEnds \/ BadArguments \/ CreateReturns \/ DeleteSession
             \/ SafetyCleanup \/ CleanedUp \/ CleanupFails \/ Interrupted
             \/ (\E reply \in Replies : ToolCalls(reply))
             \/ (\E g \in Groups : CreateSession(g))
    BY <2>4 DEF TryAgain, ChatEnds, BadArguments, CreateReturns, DeleteSession, SafetyCleanup, CleanedUp,
                CleanupFails, Interrupted, ToolCalls, CreateSession, Calling, loops
  <2> QED
    BY <2>2, <2>3, <2>4 DEF AgentStep
<1> QED
  BY <1>1, AgentInitial, AgentInductive, PTL DEF AgentSpec, AgentOnward

(***************************************************************************)
(* The code interpreter                                                    *)
(***************************************************************************)

\* The executor's queue holds each job at most once, and only queued ones.
QueueInv ==
  /\ \A i \in 1..Len(waiting) : job[waiting[i]] = "queued"
  /\ \A i, k \in 1..Len(waiting) : waiting[i] = waiting[k] => i = k

FileInv == \A e \in Execs : e \in file <=> job[e] \in {"queued", "working", "returned"}

HelperInv == \A e \in Execs : helper[e] \in Alive => job[e] = "working"

WorkersInv == Cardinality(Working) =< Workers

ExecInv == ExecTypeOK /\ QueueInv /\ FileInv /\ HelperInv /\ WorkersInv

\* A step in which nobody starts to work keeps the number of workers.
LEMMA NobodyStarts == ASSUME WorkersInv, Working' \subseteq Working PROVE WorkersInv'
<1>1. IsFiniteSet(Jobs)
  BY ExecAssumption, FS_Union DEF Jobs
<1>2. IsFiniteSet(Working) /\ IsFiniteSet(Working')
  BY <1>1, FS_Subset DEF Working
<1>3. Cardinality(Working') =< Cardinality(Working)
  BY <1>2, FS_Subset
<1>4. Cardinality(Working') \in Nat /\ Cardinality(Working) \in Nat
  BY <1>2, FS_CardinalityType
<1> QED
  BY <1>3, <1>4, ExecAssumption DEF WorkersInv

\* One more may start if a worker is free.
LEMMA OneStarts ==
  ASSUME NEW j \in Jobs, Working' \subseteq Working \cup {j}, Cardinality(Working) < Workers
  PROVE  WorkersInv'
<1>1. IsFiniteSet(Jobs)
  BY ExecAssumption, FS_Union DEF Jobs
<1>2. IsFiniteSet(Working)
  BY <1>1, FS_Subset DEF Working
<1> DEFINE W == Working \cup {j}
<1>3. IsFiniteSet(W) /\ Cardinality(W) \in {Cardinality(Working), Cardinality(Working) + 1}
  BY <1>2, FS_AddElement
<1>4. IsFiniteSet(Working') /\ Cardinality(Working') =< Cardinality(W)
  BY <1>3, FS_Subset
<1>5. Cardinality(Working') \in Nat /\ Cardinality(Working) \in Nat
  BY <1>2, <1>4, FS_CardinalityType
<1> QED
  BY <1>3, <1>4, <1>5, ExecAssumption DEF WorkersInv

\* The job at the head of the queue is queued, and the others stay so.
LEMMA HeadOfQueue ==
  ASSUME ExecTypeOK, QueueInv, waiting # <<>>
  PROVE  /\ Head(waiting) \in Jobs /\ job[Head(waiting)] = "queued"
         /\ Tail(waiting) \in Seq(Jobs)
         /\ \A i \in 1..Len(Tail(waiting)) :
              /\ Tail(waiting)[i] \in Jobs
              /\ Tail(waiting)[i] # Head(waiting)
              /\ job[Tail(waiting)[i]] = "queued"
         /\ \A i, k \in 1..Len(Tail(waiting)) : Tail(waiting)[i] = Tail(waiting)[k] => i = k
<1>0. waiting \in Seq(Jobs) /\ waiting # <<>>
  BY DEF ExecTypeOK
<1>1. waiting \in Seq(Jobs) /\ Len(waiting) \in Nat /\ Len(waiting) > 0
  BY <1>0
<1>2. Head(waiting) = waiting[1] /\ 1 \in 1..Len(waiting)
  BY <1>1
<1>3. Tail(waiting) \in Seq(Jobs) /\ Len(Tail(waiting)) = Len(waiting) - 1
  BY <1>1
<1>4. \A i \in 1..Len(Tail(waiting)) : i + 1 \in 1..Len(waiting) /\ Tail(waiting)[i] = waiting[i + 1]
  BY <1>1, <1>3
<1>5. \A i \in 1..Len(waiting) : waiting[i] \in Jobs
  BY <1>1
<1>6. \A i \in 1..Len(Tail(waiting)) : i + 1 # 1
  BY <1>1, <1>3
<1>7. \A i, k \in 1..Len(Tail(waiting)) : i + 1 = k + 1 => i = k
  BY <1>1, <1>3
<1> QED
  BY <1>2, <1>3, <1>4, <1>5, <1>6, <1>7 DEF QueueInv

\* A job leaves the queue, for a worker or at once.
LEMMA Dequeued ==
  ASSUME ExecInv, waiting # <<>>, waiting' = Tail(waiting),
         NEW to \in {"working", "returned"}, job' = [job EXCEPT ![Head(waiting)] = to]
  PROVE  waiting' \in Seq(Jobs) /\ QueueInv' /\ job' \in [Jobs -> {"idle", "queued", "working", "returned", "replied"}]
<1>1. ExecTypeOK /\ QueueInv
  BY DEF ExecInv
<1>2. job \in [Jobs -> {"idle", "queued", "working", "returned", "replied"}]
  BY <1>1 DEF ExecTypeOK
<1>3. \A i \in 1..Len(waiting') : job'[waiting'[i]] = "queued"
  BY <1>1, <1>2, HeadOfQueue
<1>4. Tail(waiting) \in Seq(Jobs) /\ Head(waiting) \in Jobs
  BY <1>1, HeadOfQueue
<1>5. \A i, k \in 1..Len(waiting') : waiting'[i] = waiting'[k] => i = k
  BY <1>1, HeadOfQueue
<1>6. QueueInv'
  BY <1>3, <1>5 DEF QueueInv
<1> QED
  BY <1>2, <1>4, <1>6

\* A request or a reader is submitted.
LEMMA Enqueued ==
  ASSUME ExecInv, NEW j \in Jobs, Submit(j)
  PROVE  /\ waiting' \in Seq(Jobs) /\ QueueInv' /\ Working' = Working
         /\ job' \in [Jobs -> {"idle", "queued", "working", "returned", "replied"}]
<1>1. /\ job \in [Jobs -> {"idle", "queued", "working", "returned", "replied"}]
      /\ waiting \in Seq(Jobs) /\ QueueInv
  BY DEF ExecInv, ExecTypeOK
<1>2. job[j] = "idle" /\ job' = [job EXCEPT ![j] = "queued"] /\ waiting' = Append(waiting, j)
  BY DEF Submit
<1>3. waiting' \in Seq(Jobs) /\ Len(waiting) \in Nat /\ Len(waiting') = Len(waiting) + 1
  BY <1>1, <1>2
<1>4. \A i \in 1..Len(waiting) : waiting'[i] = waiting[i] /\ waiting[i] \in Jobs
  BY <1>1, <1>2
<1>5. waiting'[Len(waiting')] = j
  BY <1>1, <1>2
<1>6. \A i \in 1..Len(waiting') : i \in 1..Len(waiting) \/ i = Len(waiting')
  BY <1>3
<1>7. \A i \in 1..Len(waiting) : job[waiting[i]] = "queued"
  BY <1>1 DEF QueueInv
<1>8. \A i \in 1..Len(waiting) : waiting'[i] # j
  BY <1>2, <1>4, <1>7
<1>9. \A i \in 1..Len(waiting') : job'[waiting'[i]] = "queued"
  BY <1>1, <1>2, <1>4, <1>5, <1>6, <1>7, <1>8
<1>10. \A i, k \in 1..Len(waiting') : waiting'[i] = waiting'[k] => i = k
  BY <1>1, <1>4, <1>5, <1>6, <1>8 DEF QueueInv
<1>11. Working' = Working
  BY <1>1, <1>2 DEF Working
<1> QED
  BY <1>1, <1>2, <1>3, <1>9, <1>10, <1>11 DEF QueueInv

\* A job that is not queued goes on.
LEMMA NotQueued ==
  ASSUME ExecInv, NEW j \in Jobs, job[j] # "queued", waiting' = waiting,
         NEW to \in {"idle", "returned", "replied"}, job' = [job EXCEPT ![j] = to]
  PROVE  /\ waiting' \in Seq(Jobs) /\ QueueInv' /\ Working' \subseteq Working
         /\ job' \in [Jobs -> {"idle", "queued", "working", "returned", "replied"}]
<1>1. /\ job \in [Jobs -> {"idle", "queued", "working", "returned", "replied"}]
      /\ waiting \in Seq(Jobs) /\ QueueInv
  BY DEF ExecInv, ExecTypeOK
<1>2. \A i \in 1..Len(waiting) : waiting[i] \in Jobs /\ job[waiting[i]] = "queued"
  BY <1>1 DEF QueueInv
<1>3. \A i \in 1..Len(waiting) : job'[waiting[i]] = "queued"
  BY <1>1, <1>2
<1> QED
  BY <1>1, <1>3 DEF QueueInv, Working

\* The step of a helper.
LEMMA HelperStep ==
  ASSUME ExecInv, NEW e \in Execs, NEW from \in SUBSET Alive,
         NEW to \in Alive \cup {"printed", "silent"}, Becomes(e, from, to)
  PROVE  ExecInv'
<1>1. ExecTypeOK' /\ HelperInv'
  BY DEF ExecInv, ExecTypeOK, HelperInv, Becomes, Alive
<1>2. Working' = Working
  BY DEF Working, Becomes
<1>3. QueueInv' /\ FileInv' /\ WorkersInv'
  BY <1>2 DEF ExecInv, QueueInv, FileInv, WorkersInv, Becomes
<1> QED
  BY <1>1, <1>3 DEF ExecInv

LEMMA ExecInitial == ExecInit => ExecInv
<1> SUFFICES ASSUME ExecInit PROVE ExecInv
  OBVIOUS
<1>1. ExecTypeOK /\ QueueInv /\ FileInv /\ HelperInv
  BY DEF ExecInit, ExecTypeOK, QueueInv, FileInv, HelperInv, Jobs, Alive
<1>2. Working = {}
  BY DEF ExecInit, Working
<1>3. WorkersInv
  BY <1>2, FS_EmptySet, ExecAssumption DEF WorkersInv
<1> QED
  BY <1>1, <1>3 DEF ExecInv

LEMMA ExecInductive == ExecInv /\ [ExecNext]_execVars => ExecInv'
<1> SUFFICES ASSUME ExecInv, [ExecNext]_execVars PROVE ExecInv'
  OBVIOUS
<1>0. /\ job \in [Jobs -> {"idle", "queued", "working", "returned", "replied"}]
      /\ waiting \in Seq(Jobs)
      /\ helper \in [Execs -> Alive \cup {"none", "printed", "silent", "killed"}]
      /\ file \subseteq Execs
      /\ answer \in [Execs -> {"none", "output", "no output", "timeout", "raised"}]
      /\ QueueInv /\ FileInv /\ HelperInv /\ WorkersInv
      /\ Execs \subseteq Jobs /\ Drains \subseteq Jobs /\ Execs \cap Drains = {}
  BY ExecAssumption DEF ExecInv, ExecTypeOK, Jobs
<1>1. CASE TakeJob
  <2> DEFINE j == Head(waiting)
  <2>1. /\ waiting # <<>> /\ waiting' = Tail(waiting)
        /\ job' = [job EXCEPT ![j] = "working"]
        /\ helper' = [e \in Execs |-> IF e = j THEN "reading" ELSE helper[e]]
        /\ Cardinality(Working) < Workers /\ file' = file /\ answer' = answer
    BY <1>1 DEF TakeJob
  <2>2. j \in Jobs /\ job[j] = "queued"
    BY <2>1, HeadOfQueue DEF ExecInv
  <2>3. /\ waiting' \in Seq(Jobs) /\ QueueInv'
        /\ job' \in [Jobs -> {"idle", "queued", "working", "returned", "replied"}]
    BY <2>1, Dequeued
  <2>4. Working' \subseteq Working \cup {j}
    BY <1>0, <2>1 DEF Working
  <2>5. WorkersInv'
    BY <1>0, <2>1, <2>2, <2>4, OneStarts
  <2> HIDE DEF j
  <2>6. helper' \in [Execs -> Alive \cup {"none", "printed", "silent", "killed"}] /\ HelperInv'
    BY <1>0, <2>1, <2>2 DEF HelperInv, Alive
  <2>7. FileInv'
    BY <1>0, <2>1, <2>2 DEF FileInv
  <2> QED
    BY <1>0, <2>1, <2>3, <2>5, <2>6, <2>7 DEF ExecInv, ExecTypeOK
<1>2. CASE HelperNotStarted
  <2> DEFINE j == Head(waiting)
  <2>1. /\ waiting # <<>> /\ waiting' = Tail(waiting) /\ j \in Execs
        /\ job' = [job EXCEPT ![j] = "returned"]
        /\ answer' = [answer EXCEPT ![j] = "raised"]
        /\ helper' = helper /\ file' = file
    BY <1>2 DEF HelperNotStarted
  <2>2. j \in Jobs /\ job[j] = "queued"
    BY <2>1, HeadOfQueue DEF ExecInv
  <2>3. /\ waiting' \in Seq(Jobs) /\ QueueInv'
        /\ job' \in [Jobs -> {"idle", "queued", "working", "returned", "replied"}]
    BY <2>1, Dequeued
  <2> HIDE DEF j
  <2>4. Working' \subseteq Working
    BY <1>0, <2>1 DEF Working
  <2>5. WorkersInv'
    BY <1>0, <2>4, NobodyStarts
  <2>6. FileInv' /\ HelperInv'
    BY <1>0, <2>1, <2>2 DEF FileInv, HelperInv
  <2> QED
    BY <1>0, <2>1, <2>3, <2>5, <2>6 DEF ExecInv, ExecTypeOK
<1>3. ASSUME NEW d \in Drains, StartReader(d) PROVE ExecInv'
  <2>1. Submit(d) /\ d \in Jobs /\ d \notin Execs /\ helper' = helper /\ file' = file /\ answer' = answer
    BY <1>0, <1>3 DEF StartReader
  <2>2. /\ waiting' \in Seq(Jobs) /\ QueueInv' /\ Working' = Working
        /\ job' \in [Jobs -> {"idle", "queued", "working", "returned", "replied"}]
    BY <2>1, Enqueued
  <2>3. FileInv' /\ HelperInv'
    BY <1>0, <2>1 DEF FileInv, HelperInv, Submit
  <2> QED
    BY <1>0, <2>1, <2>2, <2>3, NobodyStarts DEF ExecInv, ExecTypeOK
<1>4. ASSUME NEW d \in Drains, ReaderEnds(d) PROVE ExecInv'
  <2>1. /\ d \in Jobs /\ d \notin Execs /\ job[d] = "working" /\ job' = [job EXCEPT ![d] = "idle"]
        /\ waiting' = waiting /\ helper' = helper /\ file' = file /\ answer' = answer
    BY <1>0, <1>4 DEF ReaderEnds
  <2>2. /\ waiting' \in Seq(Jobs) /\ QueueInv' /\ Working' \subseteq Working
        /\ job' \in [Jobs -> {"idle", "queued", "working", "returned", "replied"}]
    BY <2>1, NotQueued
  <2>3. FileInv' /\ HelperInv'
    BY <1>0, <2>1 DEF FileInv, HelperInv
  <2> QED
    BY <1>0, <2>1, <2>2, <2>3, NobodyStarts DEF ExecInv, ExecTypeOK
<1>5. ASSUME NEW e \in Execs, SandboxExec(e) PROVE ExecInv'
  <2>1. Submit(e) /\ e \in Jobs /\ helper' = helper /\ file' = file \cup {e} /\ answer' = answer
    BY <1>0, <1>5 DEF SandboxExec
  <2>2. /\ waiting' \in Seq(Jobs) /\ QueueInv' /\ Working' = Working
        /\ job' \in [Jobs -> {"idle", "queued", "working", "returned", "replied"}]
    BY <2>1, Enqueued
  <2>3. FileInv' /\ HelperInv'
    BY <1>0, <2>1 DEF FileInv, HelperInv, Submit
  <2> QED
    BY <1>0, <2>1, <2>2, <2>3, NobodyStarts DEF ExecInv, ExecTypeOK
<1>6. ASSUME NEW e \in Execs, HelperCollected(e) PROVE ExecInv'
  <2>1. /\ e \in Jobs /\ job[e] = "working" /\ job' = [job EXCEPT ![e] = "returned"]
        /\ helper[e] \in {"printed", "silent"}
        /\ waiting' = waiting /\ helper' = helper /\ file' = file
    BY <1>0, <1>6 DEF HelperCollected
  <2>2. /\ waiting' \in Seq(Jobs) /\ QueueInv' /\ Working' \subseteq Working
        /\ job' \in [Jobs -> {"idle", "queued", "working", "returned", "replied"}]
    BY <2>1, NotQueued
  <2>3. FileInv' /\ HelperInv'
    BY <1>0, <2>1 DEF FileInv, HelperInv, Alive
  <2>4. answer' \in [Execs -> {"none", "output", "no output", "timeout", "raised"}]
    BY <1>0, <1>6 DEF HelperCollected
  <2> QED
    BY <1>0, <2>1, <2>2, <2>3, <2>4, NobodyStarts DEF ExecInv, ExecTypeOK
<1>7. ASSUME NEW e \in Execs, OuterCap(e) PROVE ExecInv'
  <2>1. /\ e \in Jobs /\ job[e] = "working" /\ job' = [job EXCEPT ![e] = "returned"]
        /\ helper' = [helper EXCEPT ![e] = "killed"]
        /\ answer' = [answer EXCEPT ![e] = "timeout"]
        /\ waiting' = waiting /\ file' = file
    BY <1>0, <1>7 DEF OuterCap
  <2>2. /\ waiting' \in Seq(Jobs) /\ QueueInv' /\ Working' \subseteq Working
        /\ job' \in [Jobs -> {"idle", "queued", "working", "returned", "replied"}]
    BY <2>1, NotQueued
  <2>3. FileInv' /\ HelperInv'
    BY <1>0, <2>1 DEF FileInv, HelperInv, Alive
  <2> QED
    BY <1>0, <2>1, <2>2, <2>3, NobodyStarts DEF ExecInv, ExecTypeOK
<1>8. ASSUME NEW e \in Execs, Reply(e) PROVE ExecInv'
  <2>1. /\ e \in Jobs /\ job[e] = "returned" /\ job' = [job EXCEPT ![e] = "replied"]
        /\ waiting' = waiting /\ helper' = helper /\ file' = file \ {e} /\ answer' = answer
    BY <1>0, <1>8 DEF Reply
  <2>2. /\ waiting' \in Seq(Jobs) /\ QueueInv' /\ Working' \subseteq Working
        /\ job' \in [Jobs -> {"idle", "queued", "working", "returned", "replied"}]
    BY <2>1, NotQueued
  <2>3. FileInv' /\ HelperInv'
    BY <1>0, <2>1 DEF FileInv, HelperInv
  <2> QED
    BY <1>0, <2>1, <2>2, <2>3, NobodyStarts DEF ExecInv, ExecTypeOK
<1>9. ASSUME NEW e \in Execs, ReadSnippet(e) \/ ReadFails(e) \/ RunOnce(e) \/ Printed(e) \/ HelperDies(e)
      PROVE  ExecInv'
  <2>1. PICK from \in SUBSET Alive, to \in Alive \cup {"printed", "silent"} : Becomes(e, from, to)
    BY <1>9 DEF ReadSnippet, ReadFails, RunOnce, Printed, HelperDies, Alive
  <2> QED
    BY <2>1, HelperStep
<1>10. CASE UNCHANGED execVars
  <2>1. Working' = Working
    BY <1>10 DEF execVars, Working
  <2>2. ExecTypeOK' /\ FileInv' /\ HelperInv' /\ WorkersInv'
    BY <1>0, <1>10, <2>1 DEF execVars, ExecInv, ExecTypeOK, FileInv, HelperInv, WorkersInv
  <2>3. QueueInv'
    BY <1>0, <1>10 DEF execVars, QueueInv
  <2> QED
    BY <2>2, <2>3 DEF ExecInv
<1> QED
  BY <1>1, <1>2, <1>3, <1>4, <1>5, <1>6, <1>7, <1>8, <1>9, <1>10 DEF ExecNext

LEMMA HostCleanHolds == ExecInv => HostClean
<1> SUFFICES ASSUME ExecInv PROVE HostClean
  OBVIOUS
<1> DEFINE H == {e \in Execs : helper[e] \in Alive}
<1>1. IsFiniteSet(Jobs)
  BY ExecAssumption, FS_Union DEF Jobs
<1>2. H \subseteq Working
  BY DEF ExecInv, HelperInv, Working, Jobs
<1>3. IsFiniteSet(Working)
  BY <1>1, FS_Subset DEF Working
<1>4. IsFiniteSet(H) /\ Cardinality(H) =< Cardinality(Working)
  BY <1>2, <1>3, FS_Subset
<1>5. Cardinality(H) \in Nat /\ Cardinality(Working) \in Nat
  BY <1>3, <1>4, FS_CardinalityType
<1>6. Cardinality(H) =< Workers
  BY <1>4, <1>5, ExecAssumption DEF ExecInv, WorkersInv
<1> QED
  BY <1>6 DEF HostClean, ExecInv, FileInv, HelperInv

\* sandbox_exec: there are never more helpers than workers, each of them
\* working for its request and with its snippet in place, and an answered
\* request leaves neither behind.
THEOREM LeavesHostClean == ExecSpec => [](ExecTypeOK /\ HostClean)
<1>1. ExecInv => ExecTypeOK
  BY DEF ExecInv
<1> QED
  BY <1>1, HostCleanHolds, ExecInitial, ExecInductive, PTL DEF ExecSpec

(***************************************************************************)
(* The script of a swarm run                                               *)
(***************************************************************************)

Outcomes == [passed : BOOLEAN, duration : Nat]

\* What a settled sandbox was seen to say is what its result says.
LanesInv ==
  \A i \in Lanes : /\ result[i].passed <=> i \in passedIn
                   /\ i \in passedIn => race[i] = "settled" /\ Spliced(patches[i])

RaceInv ==
  /\ RaceTypeOK
  /\ exit = -1 <=> main # "over"
  /\ main # "over" => winner = 0
  /\ main \in {"token", "ask", "parsed"} => passedIn = {}
  /\ main = "racing" => LanesInv
  /\ WinnerRepairs

LEMMA RaceInitial == RaceInit => RaceInv
  BY RaceAssumption DEF RaceInit, RaceInv, RaceTypeOK, WinnerRepairs, Lanes

\* The script's exit code counts as zero only if it printed a zero, and it
\* prints one only with a patch that repairs the program.
LEMMA ExitCodeSound ==
  ASSUME NEW i, NEW out \in Reports(i)
  PROVE  (ExitCode(out) = 0 <=> out.printed = 0) /\ (out.printed = 0 => Spliced(patches[i]))
<1>1. CASE out \in {[printed |-> 0, code |-> c] : c \in {0, Unknown}} /\ Spliced(patches[i])
  <2>1. PICK c \in {0, Unknown} : out = [printed |-> 0, code |-> c]
    BY <1>1
  <2> QED
    BY <1>1, <2>1 DEF ExitCode, Unknown
<1>2. CASE out \in {[printed |-> Unknown, code |-> c] : c \in {1, Unknown}}
  <2>1. PICK c \in {1, Unknown} : out = [printed |-> Unknown, code |-> c]
    BY <1>2
  <2> QED
    BY <2>1 DEF ExitCode, Unknown
<1> QED
  BY <1>1, <1>2 DEF Reports

\* An answer is cut to at most N elements.
LEMMA ParsedType ==
  ASSUME NEW text \in Answers
  PROVE  Parsed(text) \in Seq(Elements) /\ Len(Parsed(text)) =< N
<1>1. text \in Seq(Elements) /\ Len(text) \in Nat
  BY RaceAssumption
<1> QED
  BY <1>1, RaceAssumption DEF Parsed

\* A sandbox settles: with a pass, if it was seen to pass.
LEMMA LaneSettles ==
  ASSUME RaceInv, main = "racing", NEW i \in Lanes, race[i] \in {"creating", "testing"},
         NEW passed \in BOOLEAN, Settles(i, passed),
         passed => Spliced(patches[i]),
         passedIn' = IF passed THEN passedIn \cup {i} ELSE passedIn
  PROVE  RaceInv'
<1>1. /\ race \in [Lanes -> {"creating", "testing", "settled"}]
      /\ result \in [Lanes -> Outcomes] /\ clock \in Nat
      /\ passedIn \subseteq Lanes /\ exit = -1 /\ LanesInv
  BY DEF RaceInv, RaceTypeOK, Outcomes
<1>2. /\ race' = [race EXCEPT ![i] = "settled"]
      /\ result' = [result EXCEPT ![i] = [passed |-> passed, duration |-> clock]]
      /\ main' = main /\ model' = model /\ post' = post /\ patches' = patches /\ clock' = clock
      /\ winner' = winner /\ exit' = exit /\ Lanes' = Lanes
  BY DEF Settles, askVars, Lanes
<1>3. [passed |-> passed, duration |-> clock] \in Outcomes
  BY <1>1 DEF Outcomes
<1>4. /\ race' \in [Lanes -> {"creating", "testing", "settled"}]
      /\ result' \in [Lanes -> Outcomes] /\ passedIn' \subseteq Lanes
  BY <1>1, <1>2, <1>3
<1>5. i \notin passedIn
  BY <1>1 DEF LanesInv
<1>6. ASSUME NEW k \in Lanes
      PROVE  /\ result'[k].passed <=> k \in passedIn'
             /\ k \in passedIn' => race'[k] = "settled" /\ Spliced(patches[k])
  <2>1. CASE k = i
    BY <1>1, <1>2, <1>5, <2>1
  <2>2. CASE k # i
    BY <1>1, <1>2, <2>2 DEF LanesInv
  <2> QED
    BY <2>1, <2>2
<1>7. LanesInv'
  BY <1>2, <1>6 DEF LanesInv, Spliced
<1>8. RaceTypeOK'
  BY <1>1, <1>2, <1>4 DEF RaceInv, RaceTypeOK, Outcomes
<1> QED
  BY <1>1, <1>2, <1>7, <1>8 DEF RaceInv, WinnerRepairs

\* A winner is one of the fastest of those that passed.
LEMMA RankedStep == ASSUME RaceInv, Ranked PROVE RaceInv'
<1>1. /\ main = "racing" /\ LanesInv /\ passedIn \subseteq Lanes /\ RaceTypeOK
      /\ result \in [Lanes -> Outcomes]
  BY DEF RaceInv, Ranked, RaceTypeOK, Outcomes
<1>2. /\ patches' = patches /\ result' = result /\ passedIn' = passedIn /\ main' = "over"
      /\ model' = model /\ post' = post /\ race' = race /\ clock' = clock /\ Lanes' = Lanes
  BY DEF Ranked, Exits, askVars, laneVars, Lanes
<1>3. CASE \E i \in Lanes : result[i].passed
  <2>1. exit' = 0 /\ winner' \in Lanes /\ Fastest(winner')
    BY <1>3 DEF Ranked, Exits
  <2>2. /\ Spliced(patches[winner'])
        /\ \A i \in passedIn : result[winner'].duration =< result[i].duration
    BY <1>1, <2>1 DEF Fastest, LanesInv
  <2>3. WinnerRepairs'
    BY <1>2, <2>1, <2>2 DEF WinnerRepairs, Spliced
  <2>4. RaceTypeOK'
    BY <1>1, <1>2, <2>1 DEF RaceTypeOK
  <2> QED
    BY <1>2, <2>1, <2>3, <2>4 DEF RaceInv
<1>4. CASE ~\E i \in Lanes : result[i].passed
  <2>1. exit' = 1 /\ winner' = winner
    BY <1>4 DEF Ranked, Exits
  <2>2. passedIn = {}
    BY <1>1, <1>4 DEF LanesInv
  <2>3. WinnerRepairs'
    BY <1>2, <2>1, <2>2 DEF WinnerRepairs
  <2>4. RaceTypeOK'
    BY <1>1, <1>2, <2>1 DEF RaceTypeOK
  <2> QED
    BY <1>2, <2>1, <2>3, <2>4 DEF RaceInv
<1> QED
  BY <1>3, <1>4

LEMMA RaceInductive == RaceInv /\ [RaceNext]_raceVars => RaceInv'
<1> SUFFICES ASSUME RaceInv, [RaceNext]_raceVars PROVE RaceInv'
  OBVIOUS
<1> USE RaceAssumption
<1>1. ASSUME main \in {"token", "ask", "parsed"}, main' \in {"ask", "parsed", "over"},
             exit' \in {-1, 1, 2}, exit' = -1 <=> main' # "over",
             model' \in 1..Models, post' \in 1..Posts,
             patches' \in Seq(Elements), Len(patches') =< N,
             laneVars' = laneVars, winner' = winner
      PROVE  RaceInv'
  <2>1. winner' = 0 /\ passedIn' = {} /\ clock' \in Nat
    BY <1>1 DEF RaceInv, RaceTypeOK, laneVars
  <2> QED
    BY <1>1, <2>1 DEF RaceInv, RaceTypeOK, WinnerRepairs
<1>2. /\ model \in 1..Models /\ post \in 1..Posts /\ patches \in Seq(Elements) /\ Len(patches) =< N
      /\ exit = -1 <=> main # "over"
  BY DEF RaceInv, RaceTypeOK
<1>a. CASE GetToken
  BY <1>a, <1>1, <1>2 DEF GetToken, askVars
<1>b. CASE MainRaises
  BY <1>b, <1>1, <1>2 DEF MainRaises, askVars, Exits
<1>c. CASE NothingParsed
  BY <1>c, <1>1, <1>2 DEF NothingParsed, askVars, Exits
<1>d. CASE TryPostAgain
  BY <1>d, <1>1, <1>2 DEF TryPostAgain
<1>e. CASE NextModel
  BY <1>e, <1>1, <1>2 DEF NextModel
<1>3. ASSUME NEW text \in Answers, Answered(text) PROVE RaceInv'
  <2>1. patches' \in Seq(Elements) /\ Len(patches') =< N
    BY <1>3, ParsedType DEF Answered
  <2> QED
    BY <1>3, <2>1, <1>1, <1>2 DEF Answered, askVars
<1>4. CASE StartRace
  <2>1. /\ race' \in [Lanes -> {"creating", "testing", "settled"}]
        /\ result' \in [Lanes -> Outcomes] /\ Lanes' = Lanes
        /\ \A i \in Lanes : ~result'[i].passed
    BY <1>4 DEF StartRace, NoResult, Outcomes, Lanes
  <2>2. passedIn' = {} /\ exit' = -1 /\ main' = "racing" /\ winner' = 0
    BY <1>4 DEF StartRace, RaceInv
  <2>3. RaceTypeOK'
    BY <1>4, <2>1, <2>2 DEF StartRace, askVars, RaceInv, RaceTypeOK, Outcomes
  <2> QED
    BY <2>1, <2>2, <2>3 DEF RaceInv, LanesInv, WinnerRepairs
<1>5. CASE SecondPasses
  BY <1>5 DEF SecondPasses, askVars, RaceInv, RaceTypeOK, LanesInv, WinnerRepairs, Lanes
<1>6. ASSUME main = "racing", NEW i \in Lanes, SandboxReady(i) PROVE RaceInv'
  BY <1>6 DEF SandboxReady, askVars, RaceInv, RaceTypeOK, LanesInv, WinnerRepairs, Lanes
<1>7. ASSUME main = "racing", NEW i \in Lanes, TestsEnd(i) PROVE RaceInv'
  <2>1. PICK out \in Reports(i) :
          /\ Settles(i, ExitCode(out) = 0)
          /\ passedIn' = IF out.printed = 0 THEN passedIn \cup {i} ELSE passedIn
    BY <1>7 DEF TestsEnd
  <2>2. (ExitCode(out) = 0 <=> out.printed = 0) /\ (out.printed = 0 => Spliced(patches[i]))
    BY ExitCodeSound
  <2>3. (ExitCode(out) = 0) \in BOOLEAN
    OBVIOUS
  <2> QED
    BY <1>7, <2>1, <2>2, <2>3, LaneSettles DEF TestsEnd
<1>8. ASSUME main = "racing", NEW i \in Lanes, SandboxFails(i) PROVE RaceInv'
  BY <1>8, LaneSettles DEF SandboxFails
<1>9. CASE Ranked
  BY <1>9, RankedStep
<1>10. CASE UNCHANGED raceVars
  BY <1>10 DEF raceVars, askVars, laneVars, RaceInv, RaceTypeOK, LanesInv, WinnerRepairs, Lanes
<1> QED
  BY <1>a, <1>b, <1>c, <1>d, <1>e, <1>3, <1>4, <1>5, <1>6, <1>7, <1>8, <1>9, <1>10 DEF RaceNext

\* hypothesis_swarm.py: a named winner repairs the program and is as fast as
\* any other that was seen to pass, and there is one if any was.
THEOREM RaceSound == RaceSpec => [](RaceTypeOK /\ WinnerRepairs)
<1>1. RaceInv => RaceTypeOK /\ WinnerRepairs
  BY DEF RaceInv
<1> QED
  BY <1>1, RaceInitial, RaceInductive, PTL DEF RaceSpec

(***************************************************************************)
(* The requests that use a session                                         *)
(***************************************************************************)

RunPcs == {"batch", "send", "stored", "replied"}
GetPcs == {"read", "replying", "replied", "failed"}

RequestStates == {Unasked} \cup Asked(RunPcs, "run") \cup Asked(GetPcs, "get")

\* Where a request is tells how often its event is at Event Hubs and whether
\* it may have reported a pod yet; what was gone when it arrived still is.
RequestInv(r) ==
  /\ delivered[r] \in {0, 1}
  /\ request[r].pc \in {"idle", "batch", "send"} => delivered[r] = 0
  /\ request[r].pc = "stored" => delivered[r] = 1
  /\ request[r].kind = "run" /\ request[r].pc = "replied" => delivered[r] = 1 \/ r \in excused
  /\ request[r].pc = "idle" => reported[r] = "none"
  /\ reported[r] = "live" => request[r].pod \notin goneBefore[r]
  /\ goneBefore[r] \subseteq destroyed

CommandInv == CommandTypeOK /\ \A r \in Requests : RequestInv(r)

LEMMA CommandTyped ==
  CommandTypeOK <=> /\ LeaseTypeOK
                    /\ request \in [Requests -> RequestStates]
                    /\ producer \in {"untried", "none", "ready"}
                    /\ delivered \in [Requests -> Nat]
                    /\ excused \subseteq Requests
                    /\ reported \in [Requests -> {"none", "live", "unknown"}]
                    /\ goneBefore \in [Requests -> SUBSET Pods]
  BY DEF CommandTypeOK, RequestStates, RunPcs, GetPcs

\* A suspended request is of the kind its await belongs to.
LEMMA KindKnown ==
  ASSUME NEW r \in Requests, request[r] \in RequestStates
  PROVE  /\ request[r].pc \in {"batch", "send", "stored"} => request[r] \in Asked(RunPcs, "run")
         /\ request[r].pc \in {"read", "replying"} => request[r] \in Asked(GetPcs, "get")
         /\ request[r].pc \in InFlight => request[r] \in Asked(RunPcs, "run") \cup Asked(GetPcs, "get")
  BY DEF RequestStates, Unasked, Asked, RunPcs, GetPcs, InFlight

\* A request goes on to its next await.
LEMMA Continued ==
  ASSUME NEW r \in Requests, NEW pcs, NEW kind, request[r] \in Asked(pcs, kind),
         request \in [Requests -> RequestStates],
         Asked(pcs, kind) \subseteq RequestStates,
         NEW pc \in pcs, Continues(r, pc)
  PROVE  /\ request' \in [Requests -> RequestStates]
         /\ request'[r] = [pc |-> pc, kind |-> kind, pod |-> request[r].pod]
         /\ \A k \in Requests \ {r} : request'[k] = request[k]
<1> DEFINE q == [pc |-> pc, kind |-> kind, pod |-> request[r].pod]
<1>1. [request[r] EXCEPT !.pc = pc] = q
  BY DEF Asked
<1>2. request' = [request EXCEPT ![r] = q]
  BY <1>1 DEF Continues
<1>3. q \in RequestStates
  BY DEF Asked
<1> HIDE DEF q
<1>4. request' \in [Requests -> RequestStates] /\ request'[r] = q
  BY <1>2, <1>3
<1>5. \A k \in Requests \ {r} : request'[k] = request[k]
  BY <1>2
<1> QED
  BY <1>4, <1>5 DEF q

\* A request that the step is not about, whatever happens to its pod.
LEMMA OthersStay ==
  ASSUME NEW k \in Requests, RequestInv(k), request'[k] = request[k],
         delivered'[k] = delivered[k], k \in excused => k \in excused',
         reported'[k] = reported[k], goneBefore'[k] = goneBefore[k],
         destroyed \subseteq destroyed'
  PROVE  RequestInv(k)'
  BY DEF RequestInv

LEMMA CommandInitial == CommandInit => CommandInv
<1> SUFFICES ASSUME CommandInit PROVE CommandInv
  OBVIOUS
<1>1. LeaseTypeOK
  BY DEF CommandInit, LeaseInit, LeaseTypeOK
<1>2. request \in [Requests -> RequestStates]
  BY DEF CommandInit, RequestStates
<1>3. CommandTypeOK
  BY <1>1, <1>2, CommandTyped DEF CommandInit
<1>4. \A r \in Requests : RequestInv(r)
  BY DEF CommandInit, RequestInv, Unasked
<1> QED
  BY <1>3, <1>4 DEF CommandInv

\* The leases stay typed, and a pod that is gone stays gone.
LEMMA LeasesTyped ==
  ASSUME LeaseTypeOK, LeasesMove \/ ControlPlaneRestarts
  PROVE  LeaseTypeOK' /\ destroyed \subseteq destroyed'
<1> DEFINE L == {Fresh, Ended} \cup {Held(u, p) : u \in Users, p \in Pods}
<1>1. lease \in [SessionIds -> L] /\ destroyed \subseteq Pods /\ Ended \in L
  BY DEF LeaseTypeOK
<1>2. ASSUME NEW s \in SessionIds, NEW u \in Users, NEW p \in Pods, Grant(s, u, p)
      PROVE  lease' \in [SessionIds -> L] /\ destroyed' = destroyed
  <2>1. Held(u, p) \in L
    OBVIOUS
  <2> HIDE DEF L
  <2> QED
    BY <1>1, <1>2, <2>1 DEF Grant
<1> HIDE DEF L
<1>3. ASSUME NEW s \in SessionIds, Abandon(s) \/ Release(s)
      PROVE  lease' \in [SessionIds -> L] /\ destroyed' = destroyed
  BY <1>1, <1>3 DEF Abandon, Release
<1>4. ASSUME NEW p \in Pods, Destroy(p)
      PROVE  lease' = lease /\ destroyed \subseteq destroyed' /\ destroyed' \subseteq Pods
  BY <1>1, <1>4 DEF Destroy
<1>5. CASE ControlPlaneRestarts
  <2>1. PICK dropped \in SUBSET {s \in SessionIds : lease[s] = Fresh} :
          lease' = [s \in SessionIds |->
            IF lease[s].state = "held" \/ s \in dropped THEN Ended ELSE lease[s]]
    BY <1>5 DEF ControlPlaneRestarts
  <2>2. lease' \in [SessionIds -> L]
    BY <1>1, <2>1
  <2> QED
    BY <1>1, <1>5, <2>2 DEF ControlPlaneRestarts, LeaseTypeOK, L
<1>6. CASE LeasesMove
  <2>1. lease' \in [SessionIds -> L] /\ destroyed' \subseteq Pods /\ destroyed \subseteq destroyed'
    BY <1>1, <1>2, <1>3, <1>4, <1>6 DEF LeasesMove
  <2> QED
    BY <2>1 DEF LeaseTypeOK, L
<1> QED
  BY <1>5, <1>6

\* A request finds its session.
LEMMA Arrived ==
  ASSUME CommandInv, NEW r \in Requests, NEW u \in Users, NEW s \in SessionIds,
         NEW kind, NEW pc, Arrives(r, u, s, kind, pc),
         \/ kind = "run" /\ pc \in {"batch", "replied"}
         \/ kind = "get" /\ pc = "read"
  PROVE  /\ request' \in [Requests -> RequestStates]
         /\ request'[r].pc = pc /\ request'[r].kind = kind
         /\ \A k \in Requests \ {r} : request'[k] = request[k]
         /\ delivered[r] = 0 /\ reported[r] = "none"
<1>1. request \in [Requests -> RequestStates] /\ LeaseTypeOK
  BY CommandTyped DEF CommandInv
<1>2. lease[s].pod \in Pods
  BY <1>1 DEF Arrives, LeaseTypeOK, Fresh, Ended, Held
<1> DEFINE q == [pc |-> pc, kind |-> kind, pod |-> lease[s].pod]
<1>3. q \in RequestStates
  BY <1>2 DEF RequestStates, Asked, RunPcs, GetPcs
<1>4. request' = [request EXCEPT ![r] = q] /\ request[r].pc = "idle"
  BY DEF Arrives, Unasked
<1>5. q.pc = pc /\ q.kind = kind
  OBVIOUS
<1> HIDE DEF q
<1>6. request' \in [Requests -> RequestStates] /\ request'[r] = q
  BY <1>1, <1>3, <1>4
<1>7. \A k \in Requests \ {r} : request'[k] = request[k]
  BY <1>1, <1>4
<1>8. delivered[r] = 0 /\ reported[r] = "none"
  BY <1>4 DEF CommandInv, RequestInv
<1> QED
  BY <1>5, <1>6, <1>7, <1>8

\* A step about one request keeps what the others rely on.
LEMMA OneMoves ==
  ASSUME CommandInv, NEW r \in Requests, UNCHANGED leaseVars,
         request' \in [Requests -> RequestStates],
         producer' \in {"untried", "none", "ready"},
         \A k \in Requests \ {r} : request'[k] = request[k],
         NEW d \in Nat, delivered' = [delivered EXCEPT ![r] = d],
         excused' = excused \/ excused' = excused \cup {r},
         NEW p \in {"none", "live", "unknown"}, reported' = [reported EXCEPT ![r] = p],
         NEW g \in SUBSET Pods, goneBefore' = [goneBefore EXCEPT ![r] = g],
         RequestInv(r)'
  PROVE  CommandInv'
<1>1. /\ delivered \in [Requests -> Nat] /\ excused \subseteq Requests
      /\ reported \in [Requests -> {"none", "live", "unknown"}]
      /\ goneBefore \in [Requests -> SUBSET Pods] /\ LeaseTypeOK
  BY CommandTyped DEF CommandInv
<1>2. LeaseTypeOK' /\ destroyed' = destroyed
  BY <1>1 DEF leaseVars, LeaseTypeOK
<1>3. CommandTypeOK'
  <2>1. /\ delivered' \in [Requests -> Nat] /\ excused' \subseteq Requests
        /\ reported' \in [Requests -> {"none", "live", "unknown"}]
        /\ goneBefore' \in [Requests -> SUBSET Pods]
    BY <1>1
  <2> QED
    BY <1>2, <2>1, CommandTyped DEF CommandTypeOK, RequestStates, RunPcs, GetPcs
<1>4. ASSUME NEW k \in Requests PROVE RequestInv(k)'
  <2>1. CASE k # r
    <3>1. /\ delivered'[k] = delivered[k] /\ reported'[k] = reported[k]
          /\ goneBefore'[k] = goneBefore[k] /\ request'[k] = request[k]
          /\ k \in excused => k \in excused'
      BY <1>1, <2>1
    <3> QED
      BY <1>2, <3>1, OthersStay DEF CommandInv
  <2> QED
    BY <2>1
<1> QED
  BY <1>3, <1>4 DEF CommandInv

LEMMA RequestsMove ==
  ASSUME CommandInv, NEW r \in Requests,
         \/ \E u \in Users, s \in SessionIds : RunCommand(r, u, s) \/ GetSession(r, u, s)
         \/ BatchCreated(r) \/ EventStored(r) \/ EventSent(r) \/ EventFails(r)
         \/ PodRead(r) \/ GetReplies(r) \/ PodReadFails(r)
  PROVE  CommandInv'
<1>1. /\ request \in [Requests -> RequestStates] /\ delivered \in [Requests -> Nat]
      /\ reported \in [Requests -> {"none", "live", "unknown"}]
      /\ goneBefore \in [Requests -> SUBSET Pods] /\ excused \subseteq Requests
      /\ producer \in {"untried", "none", "ready"} /\ destroyed \subseteq Pods
  BY CommandTyped DEF CommandInv, LeaseTypeOK
<1>2. RequestInv(r)
  BY DEF CommandInv
<1>3. /\ delivered = [delivered EXCEPT ![r] = delivered[r]]
      /\ reported = [reported EXCEPT ![r] = reported[r]]
      /\ goneBefore = [goneBefore EXCEPT ![r] = goneBefore[r]]
      /\ delivered[r] \in Nat /\ reported[r] \in {"none", "live", "unknown"}
      /\ goneBefore[r] \in SUBSET Pods
  BY <1>1
<1>4. /\ Asked(RunPcs, "run") \subseteq RequestStates
      /\ Asked(GetPcs, "get") \subseteq RequestStates
  BY DEF RequestStates
<1>5. ASSUME NEW u \in Users, NEW s \in SessionIds, RunCommand(r, u, s) PROVE CommandInv'
  <2>1. PICK p \in Producers :
          /\ producer' = p
          /\ IF p = "ready"
             THEN Arrives(r, u, s, "run", "batch") /\ UNCHANGED excused
             ELSE Arrives(r, u, s, "run", "replied") /\ excused' = excused \cup {r}
    BY <1>5 DEF RunCommand
  <2>2. producer' \in {"untried", "none", "ready"}
    BY <1>1, <2>1 DEF Producers
  <2>3. delivered' = delivered /\ reported' = reported /\ goneBefore' = goneBefore /\ UNCHANGED leaseVars
    BY <1>5 DEF RunCommand, statusVars
  <2>4. PICK pc \in {"batch", "replied"} :
          Arrives(r, u, s, "run", pc) /\ (pc = "replied" => r \in excused')
    BY <2>1
  <2>5. /\ request' \in [Requests -> RequestStates]
        /\ request'[r].pc = pc
        /\ \A k \in Requests \ {r} : request'[k] = request[k]
        /\ delivered[r] = 0 /\ reported[r] = "none"
    BY <2>4, Arrived
  <2>6. RequestInv(r)'
    BY <1>2, <2>3, <2>4, <2>5 DEF RequestInv, leaseVars
  <2>7. excused' = excused \/ excused' = excused \cup {r}
    BY <2>1
  <2> QED
    BY <1>3, <2>2, <2>3, <2>5, <2>6, <2>7, OneMoves
<1>6. ASSUME NEW u \in Users, NEW s \in SessionIds, GetSession(r, u, s) PROVE CommandInv'
  <2>1. /\ Arrives(r, u, s, "get", "read") /\ goneBefore' = [goneBefore EXCEPT ![r] = destroyed]
        /\ producer' = producer /\ delivered' = delivered /\ excused' = excused
        /\ reported' = reported /\ UNCHANGED leaseVars
    BY <1>6 DEF GetSession, auditVars
  <2>2. /\ request' \in [Requests -> RequestStates]
        /\ request'[r].pc = "read" /\ request'[r].kind = "get"
        /\ \A k \in Requests \ {r} : request'[k] = request[k]
        /\ delivered[r] = 0 /\ reported[r] = "none"
    BY <2>1, Arrived
  <2>3. RequestInv(r)'
    BY <1>1, <2>1, <2>2 DEF RequestInv, leaseVars
  <2> QED
    BY <1>1, <1>3, <2>1, <2>2, <2>3, OneMoves
<1>7. ASSUME NEW pc \in RunPcs, Continues(r, pc), request[r].pc \in {"batch", "send", "stored"}
      PROVE  /\ request' \in [Requests -> RequestStates]
             /\ request'[r].pc = pc /\ request'[r].pod = request[r].pod
             /\ \A k \in Requests \ {r} : request'[k] = request[k]
  <2>1. request[r] \in Asked(RunPcs, "run")
    BY <1>1, <1>7, KindKnown
  <2>2. /\ request' \in [Requests -> RequestStates]
        /\ request'[r] = [pc |-> pc, kind |-> "run", pod |-> request[r].pod]
        /\ \A k \in Requests \ {r} : request'[k] = request[k]
    BY <1>1, <1>4, <1>7, <2>1, Continued
  <2> QED
    BY <2>2
<1>8. ASSUME NEW pc \in GetPcs, Continues(r, pc), request[r].pc \in {"read", "replying"}
      PROVE  /\ request' \in [Requests -> RequestStates]
             /\ request'[r].pc = pc /\ request'[r].kind = "get" /\ request'[r].pod = request[r].pod
             /\ \A k \in Requests \ {r} : request'[k] = request[k]
  <2>1. request[r] \in Asked(GetPcs, "get")
    BY <1>1, <1>8, KindKnown
  <2>2. /\ request' \in [Requests -> RequestStates]
        /\ request'[r] = [pc |-> pc, kind |-> "get", pod |-> request[r].pod]
        /\ \A k \in Requests \ {r} : request'[k] = request[k]
    BY <1>1, <1>4, <1>8, <2>1, Continued
  <2> QED
    BY <2>2
<1>9. CASE BatchCreated(r)
  <2>1. /\ Continues(r, "send") /\ request[r].pc = "batch" /\ UNCHANGED leaseVars
        /\ producer' = producer /\ delivered' = delivered /\ excused' = excused
        /\ reported' = reported /\ goneBefore' = goneBefore
    BY <1>9 DEF BatchCreated, Awaits, auditVars, statusVars
  <2>2. RequestInv(r)'
    BY <1>2, <1>7, <2>1 DEF RequestInv, RunPcs, leaseVars
  <2> QED
    BY <1>1, <1>3, <1>7, <2>1, <2>2, OneMoves DEF RunPcs
<1>10. CASE EventStored(r)
  <2>1. /\ Continues(r, "stored") /\ request[r].pc = "send" /\ UNCHANGED leaseVars
        /\ producer' = producer /\ delivered' = [delivered EXCEPT ![r] = delivered[r] + 1]
        /\ excused' = excused /\ reported' = reported /\ goneBefore' = goneBefore
    BY <1>10 DEF EventStored, Awaits, statusVars
  <2>2. delivered[r] = 0 /\ delivered' = [delivered EXCEPT ![r] = 1] /\ delivered'[r] = 1
    BY <1>1, <1>2, <2>1 DEF RequestInv
  <2>3. RequestInv(r)'
    BY <1>2, <1>7, <2>1, <2>2 DEF RequestInv, RunPcs, leaseVars
  <2> QED
    BY <1>1, <1>3, <1>7, <2>1, <2>2, <2>3, OneMoves DEF RunPcs
<1>11. CASE EventSent(r)
  <2>1. /\ Continues(r, "replied") /\ request[r].pc = "stored" /\ UNCHANGED leaseVars
        /\ producer' = producer /\ delivered' = delivered /\ excused' = excused
        /\ reported' = reported /\ goneBefore' = goneBefore
    BY <1>11 DEF EventSent, Awaits, auditVars, statusVars
  <2>2. RequestInv(r)'
    BY <1>2, <1>7, <2>1 DEF RequestInv, RunPcs, leaseVars
  <2> QED
    BY <1>1, <1>3, <1>7, <2>1, <2>2, OneMoves DEF RunPcs
<1>12. CASE EventFails(r)
  <2>1. /\ Continues(r, "replied") /\ request[r].pc \in {"batch", "send", "stored"}
        /\ UNCHANGED leaseVars
        /\ producer' = producer /\ delivered' = delivered /\ excused' = excused \cup {r}
        /\ reported' = reported /\ goneBefore' = goneBefore
    BY <1>12 DEF EventFails, Awaits, statusVars
  <2>2. RequestInv(r)'
    BY <1>2, <1>7, <2>1 DEF RequestInv, RunPcs, leaseVars
  <2> QED
    BY <1>1, <1>3, <1>7, <2>1, <2>2, OneMoves DEF RunPcs
<1>13. CASE PodRead(r)
  <2>1. /\ Continues(r, "replying") /\ request[r].pc = "read" /\ UNCHANGED leaseVars
        /\ reported' = [reported EXCEPT ![r] = Status(request[r].pod)]
        /\ producer' = producer /\ delivered' = delivered /\ excused' = excused
        /\ goneBefore' = goneBefore
    BY <1>13 DEF PodRead, Awaits, auditVars
  <2>2. /\ Status(request[r].pod) \in {"none", "live", "unknown"}
        /\ Status(request[r].pod) = "live" => request[r].pod \notin destroyed
    BY DEF Status
  <2>3. reported'[r] = Status(request[r].pod)
    BY <1>1, <2>1
  <2>4. RequestInv(r)'
    BY <1>2, <1>8, <2>1, <2>2, <2>3 DEF RequestInv, GetPcs, leaseVars
  <2> QED
    BY <1>1, <1>3, <1>8, <2>1, <2>2, <2>4, OneMoves DEF GetPcs
<1>14. CASE GetReplies(r)
  <2>1. /\ Continues(r, "replied") /\ request[r].pc = "replying" /\ UNCHANGED leaseVars
        /\ producer' = producer /\ delivered' = delivered /\ excused' = excused
        /\ reported' = reported /\ goneBefore' = goneBefore
    BY <1>14 DEF GetReplies, Awaits, auditVars, statusVars
  <2>2. RequestInv(r)'
    BY <1>2, <1>8, <2>1 DEF RequestInv, GetPcs, leaseVars
  <2> QED
    BY <1>1, <1>3, <1>8, <2>1, <2>2, OneMoves DEF GetPcs
<1>15. CASE PodReadFails(r)
  <2>1. /\ Continues(r, "failed") /\ request[r].pc \in {"read", "replying"} /\ UNCHANGED leaseVars
        /\ reported' = [reported EXCEPT ![r] = "none"]
        /\ producer' = producer /\ delivered' = delivered /\ excused' = excused
        /\ goneBefore' = goneBefore
    BY <1>15 DEF PodReadFails, Awaits, auditVars
  <2>2. reported'[r] = "none"
    BY <1>1, <2>1
  <2>3. RequestInv(r)'
    BY <1>2, <1>8, <2>1, <2>2 DEF RequestInv, GetPcs, leaseVars
  <2> QED
    BY <1>1, <1>3, <1>8, <2>1, <2>3, OneMoves DEF GetPcs
<1> QED
  BY <1>5, <1>6, <1>9, <1>10, <1>11, <1>12, <1>13, <1>14, <1>15

LEMMA CommandInductive == CommandInv /\ [CommandNext]_commandVars => CommandInv'
<1> SUFFICES ASSUME CommandInv, [CommandNext]_commandVars PROVE CommandInv'
  OBVIOUS
<1>0. /\ LeaseTypeOK /\ request \in [Requests -> RequestStates]
      /\ producer \in {"untried", "none", "ready"}
      /\ delivered \in [Requests -> Nat] /\ excused \subseteq Requests
      /\ reported \in [Requests -> {"none", "live", "unknown"}]
      /\ goneBefore \in [Requests -> SUBSET Pods]
      /\ \A r \in Requests : RequestInv(r)
  BY CommandTyped DEF CommandInv
<1>1. ASSUME LeaseTypeOK', destroyed \subseteq destroyed', request' = request,
             UNCHANGED auditVars, UNCHANGED statusVars
      PROVE  CommandInv'
  <2>1. CommandTypeOK'
    BY <1>0, <1>1, CommandTyped
       DEF CommandTypeOK, RequestStates, RunPcs, GetPcs, auditVars, statusVars
  <2>2. \A r \in Requests : RequestInv(r)'
    BY <1>0, <1>1, OthersStay DEF auditVars, statusVars
  <2> QED
    BY <2>1, <2>2 DEF CommandInv
<1>2. CASE LeasesMove
  <2>1. request' = request /\ UNCHANGED auditVars /\ UNCHANGED statusVars
    BY <1>2 DEF LeasesMove
  <2> QED
    BY <1>0, <1>1, <1>2, <2>1, LeasesTyped
<1>3. CASE ControlPlaneRestarts
  <2>1. /\ producer' = "untried" /\ delivered' = delivered /\ excused' = excused
        /\ reported' = reported /\ goneBefore' = goneBefore /\ destroyed' = destroyed
        /\ request' = [r \in Requests |->
             IF request[r].pc \in InFlight THEN [request[r] EXCEPT !.pc = "lost"] ELSE request[r]]
    BY <1>3 DEF ControlPlaneRestarts, statusVars
  <2>2. ASSUME NEW r \in Requests
        PROVE  /\ request'[r] \in RequestStates
               /\ \/ request'[r] = request[r]
                  \/ request'[r].pc = "lost" /\ request'[r].pod = request[r].pod
    <3>1. CASE request[r].pc \in InFlight
      <4>1. PICK kind \in {"run", "get"}, pod \in Pods, pc \in InFlight :
              request[r] = [pc |-> pc, kind |-> kind, pod |-> pod]
        BY <1>0, <3>1, KindKnown DEF Asked
      <4>2. request'[r] = [pc |-> "lost", kind |-> kind, pod |-> pod]
        BY <2>1, <3>1, <4>1
      <4>3. [pc |-> "lost", kind |-> kind, pod |-> pod] \in RequestStates
        BY DEF RequestStates, Asked
      <4> QED
        BY <4>1, <4>2, <4>3
    <3>2. CASE request[r].pc \notin InFlight
      BY <1>0, <2>1, <3>2
    <3> QED
      BY <3>1, <3>2
  <2>3. CommandTypeOK'
    <3>1. request' \in [Requests -> RequestStates]
      BY <2>1, <2>2
    <3>2. LeaseTypeOK'
      BY <1>0, <1>3, LeasesTyped
    <3> QED
      BY <1>0, <2>1, <3>1, <3>2 DEF CommandTypeOK, RequestStates, RunPcs, GetPcs
  <2>4. ASSUME NEW r \in Requests PROVE RequestInv(r)'
    BY <1>0, <2>1, <2>2 DEF RequestInv
  <2> QED
    BY <2>3, <2>4 DEF CommandInv
<1>4. CASE UNCHANGED commandVars
  <2>1. LeaseTypeOK'
    BY <1>0, <1>4 DEF commandVars, leaseVars, LeaseTypeOK
  <2> QED
    BY <1>1, <1>4, <2>1 DEF commandVars, leaseVars
<1> QED
  BY RequestsMove, <1>2, <1>3, <1>4 DEF CommandNext

\* get_session and run_command: no command leaves two events; an answered one
\* has left its event or a log entry that excuses it; and no GET reports a pod
\* as live that was gone when it came, while sessions come and go, calls fail
\* and the control plane restarts.
THEOREM RequestsSound == CommandSpec => [](CommandTypeOK /\ RequestsAccounted)
<1>1. CommandInv => CommandTypeOK /\ RequestsAccounted
  <2> SUFFICES ASSUME CommandInv PROVE CommandTypeOK /\ RequestsAccounted
    OBVIOUS
  <2>1. CommandTypeOK /\ \A r \in Requests : RequestInv(r)
    BY DEF CommandInv
  <2>2. CommandsAudited
    BY <2>1 DEF CommandsAudited, RequestInv
  <2>3. StatusTimely
    BY <2>1 DEF StatusTimely, RequestInv
  <2> QED
    BY <2>1, <2>2, <2>3 DEF RequestsAccounted
<1> QED
  BY <1>1, CommandInitial, CommandInductive, PTL DEF CommandSpec

\* What the requests assume of sessions and pods is no more than SandboxLeases
\* allows: their specification implements it.
THEOREM LeasesKept == CommandSpec => LeaseSpec
<1>1. CommandInit => LeaseInit
  BY DEF CommandInit
<1>2. [CommandNext]_commandVars => [LeaseNext]_leaseVars
  <2> SUFFICES ASSUME [CommandNext]_commandVars PROVE [LeaseNext]_leaseVars
    OBVIOUS
  <2>1. CASE \E r \in Requests :
               \/ \E u \in Users, s \in SessionIds : RunCommand(r, u, s) \/ GetSession(r, u, s)
               \/ BatchCreated(r) \/ EventStored(r) \/ EventSent(r) \/ EventFails(r)
               \/ PodRead(r) \/ GetReplies(r) \/ PodReadFails(r)
    BY <2>1 DEF RunCommand, GetSession, BatchCreated, EventStored, EventSent, EventFails,
                PodRead, GetReplies, PodReadFails, leaseVars
  <2>2. CASE LeasesMove
    BY <2>2 DEF LeasesMove, LeaseNext
  <2>3. CASE ControlPlaneRestarts
    <3>1. PICK dropped \in SUBSET {s \in SessionIds : lease[s] = Fresh} :
            lease' = [s \in SessionIds |->
              IF lease[s].state = "held" \/ s \in dropped THEN Ended ELSE lease[s]]
      BY <2>3 DEF ControlPlaneRestarts
    <3>2. \A s \in SessionIds : lease'[s] = lease[s] \/ lease'[s] = Ended
      BY <3>1
    <3>3. \A s \in SessionIds : lease'[s].state # "held"
      BY <3>1 DEF Ended
    <3>4. Forget
      BY <2>3, <3>1, <3>2, <3>3 DEF Forget, ControlPlaneRestarts
    <3> QED
      BY <3>4 DEF LeaseNext
  <2>4. CASE UNCHANGED commandVars
    BY <2>4 DEF commandVars, leaseVars
  <2> QED
    BY <2>1, <2>2, <2>3, <2>4 DEF CommandNext
<1> QED
  BY <1>1, <1>2, PTL DEF CommandSpec, LeaseSpec
=============================================================================
