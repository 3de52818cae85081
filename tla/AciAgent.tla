------------------------------ MODULE AciAgent ------------------------------
(***************************************************************************)
(* The demo agent of examples/kimi-agent-demo: agent.py asks the model for *)
(* tool calls turn by turn, and aci_sandbox.py carries them out on Azure   *)
(* Container Instances (ACI).  Every call to ACI blocks the agent: it may  *)
(* return, raise without effect or after its effect, or, when the agent    *)
(* waits for its result without a time limit, never end.                   *)
(***************************************************************************)
EXTENDS Naturals, Sequences

CONSTANTS
  Groups,       \* container groups; each create names a new one
  NoGroup,      \* None, as the active session
  Replies,      \* the sequences of tool calls that a reply may ask for
  MaxTurns,     \* 12 in the code
  Tries         \* posts per turn, 5 in the code

Tools == {"create_sandbox", "run_in_sandbox", "delete_sandbox", "unknown"}

ASSUME AgentAssumption ==
  /\ NoGroup \notin Groups
  /\ Replies \subseteq Seq(Tools)
  /\ MaxTurns \in Nat \ {0} /\ Tries \in Nat \ {0}

VARIABLES
  at,           \* where the agent is
  turn, try,    \* counters of its two loops
  calls,        \* tool calls of the current reply still to be dispatched
  active,       \* state["active_session_id"]
  fresh,        \* the group whose creation is under way
  group,        \* each container group at ACI
  adrift        \* groups the agent has lost hold of: see Lose

agentVars == <<at, turn, try, calls, active, fresh, group, adrift>>

Exists(g) == group[g] \in {"creating", "running", "failed"}

AgentInit ==
  /\ at = "start" /\ turn = 1 /\ try = 1 /\ calls = <<>>
  /\ active = NoGroup /\ fresh = NoGroup
  /\ group = [g \in Groups |-> "absent"]
  /\ adrift = {}

loops == <<turn, try>>
hold  == <<active, fresh, group, adrift>>

-----------------------------------------------------------------------------
(* The model's turn: run_agent and KimiClient.chat *)

RunAgent ==
  /\ at = "start" /\ at' = "chat"
  /\ UNCHANGED <<loops, calls, hold>>

\* 429 and 5xx are tried again by the decorator, after a pause.
TryAgain ==
  /\ at = "chat" /\ try < Tries
  /\ try' = try + 1
  /\ UNCHANGED <<at, turn, calls, hold>>

\* The final answer (any finish_reason but tool_calls), or an exception: any
\* other failure, or one at the last try.
ChatEnds ==
  /\ at = "chat"
  /\ at' = "finally"
  /\ UNCHANGED <<loops, calls, hold>>

ToolCalls(reply) ==
  /\ at = "chat"
  /\ at' = "tools" /\ calls' = reply
  /\ UNCHANGED <<loops, hold>>

\* Seeded bug: a turn without tool calls is not counted.
TurnOverUncounted ==
  /\ at = "tools" /\ calls = <<>>
  /\ at' = "chat" /\ try' = 1
  /\ UNCHANGED <<turn, calls, hold>>

TurnOver ==
  /\ at = "tools" /\ calls = <<>>
  /\ IF turn < MaxTurns THEN at' = "chat" /\ turn' = turn + 1 /\ try' = 1
                        ELSE at' = "finally" /\ UNCHANGED loops
  /\ UNCHANGED <<calls, hold>>

-----------------------------------------------------------------------------
(* dispatch_tool *)

Calling(tool) == at = "tools" /\ calls # <<>> /\ Head(calls) = tool

\* The result, ok or error, goes back to the model; the next call is due.
Reported == at' = "tools" /\ calls' = Tail(calls) /\ UNCHANGED loops

\* Arguments that are not JSON, or lack the command, raise outside every try.
BadArguments ==
  /\ at = "tools" /\ calls # <<>>
  /\ at' = "finally"
  /\ UNCHANGED <<loops, calls, hold>>

\* ACISandbox.run: a command leaves the groups as they are, also when it
\* fails or times out; without an active session it is not run.
Run == UNCHANGED hold

RunInSandbox == Calling("run_in_sandbox") /\ Run /\ Reported

NoEffect ==
  /\ \/ Calling("unknown")
     \/ Calling("delete_sandbox") /\ active = NoGroup
     \/ Calling("create_sandbox")                   \* refused by ACI
  /\ Reported /\ UNCHANGED hold

CreateSession(g) ==
  /\ Calling("create_sandbox") /\ group[g] = "absent"
  /\ at' = "creating" /\ fresh' = g
  /\ group' = [group EXCEPT ![g] = "creating"]
  /\ UNCHANGED <<loops, calls, active, adrift>>

\* ACI says that the creation is over; the agent asks for the state itself,
\* for up to 180 s.
CreateReturns ==
  /\ at = "creating" /\ at' = "polling"
  /\ UNCHANGED <<loops, calls, hold>>

\* Nothing in the agent refers to these groups any more.
Lose(gs) == adrift' = adrift \cup (gs \ {NoGroup})

\* An active session that is still there is replaced without being deleted.
Created ==
  /\ at = "polling" /\ group[fresh] = "running"
  /\ active' = fresh /\ fresh' = NoGroup
  /\ Lose({active})
  /\ Reported /\ UNCHANGED group

\* ACI answers with an error, the group fails, or 180 s of asking pass: the
\* session is recorded only after all of this, so nobody deletes the group.
CreationFails ==
  /\ at \in {"creating", "polling"}
  /\ Lose({fresh}) /\ fresh' = NoGroup
  /\ Reported /\ UNCHANGED <<active, group>>

DeleteSession ==
  /\ Calling("delete_sandbox") /\ active # NoGroup
  /\ at' = "deleting"
  /\ UNCHANGED <<loops, calls, hold>>

Deleted ==
  /\ at = "deleting" /\ group[active] = "gone"
  /\ active' = NoGroup
  /\ Reported /\ UNCHANGED <<fresh, group, adrift>>

\* Seeded bug: the session is forgotten before it is deleted.
DeleteFailsForgetting ==
  /\ at = "deleting"
  /\ active' = NoGroup
  /\ Reported /\ UNCHANGED <<fresh, group, adrift>>

\* The session stays the active one, to be deleted again.
DeleteFails ==
  /\ at = "deleting"
  /\ Reported /\ UNCHANGED hold

-----------------------------------------------------------------------------
(* The finally clause of run_agent *)

SafetyCleanup ==
  /\ at = "finally"
  /\ at' = IF active = NoGroup THEN "done" ELSE "cleanup"
  /\ UNCHANGED <<loops, calls, hold>>

CleanedUp ==
  /\ at = "cleanup" /\ group[active] = "gone"
  /\ at' = "done"
  /\ UNCHANGED <<loops, calls, hold>>

\* An exception is swallowed; Ctrl-C is not, but ends the agent here, too.
CleanupFails ==
  /\ at = "cleanup"
  /\ at' = "done" /\ Lose({active})
  /\ UNCHANGED <<loops, calls, active, fresh, group>>

\* Ctrl-C while the agent waits for the model or for ACI.
Interrupted ==
  /\ at \in {"chat", "creating", "polling", "deleting"}
  /\ at' = "finally"
  /\ Lose({fresh}) /\ fresh' = NoGroup
  /\ UNCHANGED <<loops, calls, active, group>>

-----------------------------------------------------------------------------
(* ACI *)

Provisioned(g) ==
  /\ group[g] = "creating"
  /\ \E s \in {"running", "failed"} : group' = [group EXCEPT ![g] = s]
  /\ UNCHANGED <<at, loops, calls, active, fresh, adrift>>

Removed ==
  /\ at \in {"deleting", "cleanup"} /\ Exists(active)
  /\ group' = [group EXCEPT ![active] = "gone"]
  /\ UNCHANGED <<at, loops, calls, active, fresh, adrift>>

AgentStep ==
  \/ TryAgain \/ ChatEnds
  \/ \E reply \in Replies : ToolCalls(reply)
  \/ TurnOver \/ BadArguments \/ RunInSandbox \/ NoEffect
  \/ \E g \in Groups : CreateSession(g)
  \/ CreateReturns \/ Created \/ CreationFails \/ DeleteSession \/ Deleted \/ DeleteFails
  \/ SafetyCleanup \/ CleanedUp \/ CleanupFails \/ Interrupted

AgentNext == RunAgent \/ AgentStep \/ Removed \/ \E g \in Groups : Provisioned(g)

\* The results of a creation and a deletion are waited for without a limit.
AciCalls == {"creating", "deleting", "cleanup"}

\* What has a limit ends: posts, the asking after a creation, commands.  ACI
\* need not end what it has begun.
AgentFairness == WF_agentVars(at \notin AciCalls /\ AgentStep)

AgentSpec == AgentInit /\ [][AgentNext]_agentVars /\ AgentFairness

-----------------------------------------------------------------------------
(* Properties *)

AgentTypeOK ==
  /\ at \in {"start", "chat", "tools", "creating", "polling", "deleting", "finally",
            "cleanup", "done"}
  /\ turn \in 1..MaxTurns /\ try \in 1..Tries
  /\ calls \in Seq(Tools)
  /\ active \in Groups \cup {NoGroup} /\ fresh \in Groups \cup {NoGroup}
  /\ group \in [Groups -> {"absent", "creating", "running", "failed", "gone"}]
  /\ adrift \subseteq Groups

\* "Ensure sandbox is cleaned up even on error" (agent.py:351) holds but for
\* the groups of creates that raised, of sessions replaced while active, and
\* of a cleanup that raised: whatever order the model calls the tools in and
\* wherever the agent fails, all others are gone when it ends.
OnlyLostRemain == at = "done" => \A g \in Groups : Exists(g) => g \in adrift

\* A started agent ends, whatever the model keeps asking for, unless one call
\* to ACI never ends: "Raises on timeout (>180 s)" (aci_sandbox.py:105) limits
\* the asking only, not the wait for the creation before it.
AgentEnds == at = "chat" ~> at = "done" \/ \E call \in AciCalls : [](at = call)
=============================================================================
