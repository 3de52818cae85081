------------------------------ MODULE CodeExec ------------------------------
(***************************************************************************)
(* The code interpreter: sandbox_exec of the portal's main.py writes the   *)
(* snippet to a temporary file and waits, in a worker thread, for a helper *)
(* process (examples/run_in_sandbox.py) that runs it in a new sandbox.     *)
(*                                                                         *)
(* The worker threads are those of the event loop's default executor.  A   *)
(* swarm run holds one of them for as long as its process lives (swarm.py, *)
(* _run_reader); those are the jobs in Drains.                             *)
(***************************************************************************)
EXTENDS Naturals, FiniteSets, Sequences

CONSTANTS
  Execs,        \* requests to run a snippet
  Drains,       \* readers of swarm runs
  Workers       \* threads of the default executor

ASSUME ExecAssumption ==
  /\ IsFiniteSet(Execs) /\ IsFiniteSet(Drains)
  /\ Execs \cap Drains = {}
  /\ Workers \in Nat \ {0}

VARIABLES
  job,          \* where each request and each reader is
  waiting,      \* the executor's queue
  helper,       \* the helper process of each request
  file,         \* the requests whose snippet file exists
  answer        \* the answer of each request

execVars == <<job, waiting, helper, file, answer>>

Jobs == Execs \cup Drains

\* A process that is still there.
Alive == {"reading", "creating", "running"}

ExecInit ==
  /\ job = [j \in Jobs |-> "idle"]
  /\ waiting = <<>>
  /\ helper = [e \in Execs |-> "none"]
  /\ file = {}
  /\ answer = [e \in Execs |-> "none"]

Working == {j \in Jobs : job[j] = "working"}

-----------------------------------------------------------------------------
(* The portal *)

\* asyncio.to_thread
Submit(j) ==
  /\ job[j] = "idle"
  /\ job' = [job EXCEPT ![j] = "queued"]
  /\ waiting' = Append(waiting, j)

SandboxExec(e) ==
  /\ Submit(e)
  /\ file' = file \cup {e}
  /\ UNCHANGED <<helper, answer>>

StartReader(d) ==
  /\ Submit(d)
  /\ UNCHANGED <<helper, file, answer>>

\* A free worker takes the oldest job; that of a request starts the helper.
TakeJob ==
  /\ waiting # <<>> /\ Cardinality(Working) < Workers
  /\ LET j == Head(waiting) IN
       /\ job' = [job EXCEPT ![j] = "working"]
       /\ helper' = [e \in Execs |-> IF e = j THEN "reading" ELSE helper[e]]
  /\ waiting' = Tail(waiting)
  /\ UNCHANGED <<file, answer>>

\* Popen raises: 500.
HelperNotStarted ==
  /\ waiting # <<>> /\ Cardinality(Working) < Workers
  /\ Head(waiting) \in Execs
  /\ job' = [job EXCEPT ![Head(waiting)] = "returned"]
  /\ answer' = [answer EXCEPT ![Head(waiting)] = "raised"]
  /\ waiting' = Tail(waiting)
  /\ UNCHANGED <<helper, file>>

\* communicate() returns: the last line of the output, if any, is the answer.
HelperCollected(e) ==
  /\ job[e] = "working" /\ helper[e] \in {"printed", "silent"}
  /\ job' = [job EXCEPT ![e] = "returned"]
  /\ answer' = [answer EXCEPT ![e] = IF helper[e] = "printed" THEN "output" ELSE "no output"]
  /\ UNCHANGED <<waiting, helper, file>>

\* Seeded bug: the helper is left running.
OuterCapNoKill(e) ==
  /\ job[e] = "working" /\ helper[e] \in Alive
  /\ job' = [job EXCEPT ![e] = "returned"]
  /\ answer' = [answer EXCEPT ![e] = "timeout"]
  /\ UNCHANGED <<waiting, helper, file>>

\* Seeded bug: the wait has no time-out of its own.
OuterCapNever(e) ==
  /\ job[e] = "working" /\ helper[e] = "silent"
  /\ UNCHANGED execVars

\* timeout_s + 30 have passed, wherever the helper is: it is killed.
OuterCap(e) ==
  /\ job[e] = "working" /\ helper[e] \in Alive
  /\ job' = [job EXCEPT ![e] = "returned"]
  /\ helper' = [helper EXCEPT ![e] = "killed"]
  /\ answer' = [answer EXCEPT ![e] = "timeout"]
  /\ UNCHANGED <<waiting, file>>

\* The handler goes on: the file is removed, the answer sent.
Reply(e) ==
  /\ job[e] = "returned"
  /\ job' = [job EXCEPT ![e] = "replied"]
  /\ file' = file \ {e}
  /\ UNCHANGED <<waiting, helper, answer>>

\* The process of the swarm run has ended.
ReaderEnds(d) ==
  /\ job[d] = "working"
  /\ job' = [job EXCEPT ![d] = "idle"]
  /\ UNCHANGED <<waiting, helper, file, answer>>

-----------------------------------------------------------------------------
(* The helper *)

Becomes(e, from, to) ==
  /\ helper[e] \in from
  /\ helper' = [helper EXCEPT ![e] = to]
  /\ UNCHANGED <<job, waiting, file, answer>>

ReadSnippet(e) == e \in file /\ Becomes(e, {"reading"}, "creating")

\* No module, no file: a traceback and no output.  An empty snippet is
\* reported.
ReadFails(e) == \E end \in {"silent", "printed"} : Becomes(e, {"reading"}, end)

RunOnce(e) == Becomes(e, {"creating"}, "running")

\* The result, an error or the inner time-out is printed.
Printed(e) == Becomes(e, {"creating", "running"}, "printed")

\* It crashes or is killed by others, wherever it is.
HelperDies(e) == Becomes(e, Alive, "silent")

ExecNext ==
  \/ TakeJob \/ HelperNotStarted
  \/ \E d \in Drains : StartReader(d) \/ ReaderEnds(d)
  \/ \E e \in Execs :
       \/ SandboxExec(e) \/ HelperCollected(e) \/ OuterCap(e) \/ Reply(e)
       \/ ReadSnippet(e) \/ ReadFails(e) \/ RunOnce(e) \/ Printed(e)
       \/ HelperDies(e)

\* The helper is not assumed to do anything, nor is the sandbox server behind it.
ExecFairness ==
  /\ WF_execVars(TakeJob)
  /\ \A e \in Execs : WF_execVars(HelperCollected(e)) /\ WF_execVars(OuterCap(e))
                        /\ WF_execVars(Reply(e))
  /\ \A d \in Drains : WF_execVars(ReaderEnds(d))

ExecSpec == ExecInit /\ [][ExecNext]_execVars /\ ExecFairness

-----------------------------------------------------------------------------
(* Properties *)

ExecTypeOK ==
  /\ job \in [Jobs -> {"idle", "queued", "working", "returned", "replied"}]
  /\ waiting \in Seq(Jobs)
  /\ helper \in [Execs -> Alive \cup {"none", "printed", "silent", "killed"}]
  /\ file \subseteq Execs
  /\ answer \in [Execs -> {"none", "output", "no output", "timeout", "raised"}]

\* What requests leave on the portal's host: a helper lives only while its
\* request holds a worker, so that there are never more helpers than workers
\* and none once the request is answered; its snippet is there for as long as
\* it may read it, and not after the answer.
HostClean ==
  /\ Cardinality({e \in Execs : helper[e] \in Alive}) =< Workers
  /\ \A e \in Execs :
       /\ helper[e] \in Alive => job[e] = "working" /\ e \in file
       /\ job[e] = "replied" => e \notin file

\* Every request to run a snippet is answered: a helper that hangs is cut off,
\* and swarm runs that hold all the workers end some day.
ExecEnds == \A e \in Execs : job[e] = "queued" ~> job[e] = "replied"
=============================================================================
