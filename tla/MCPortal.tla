------------------------------ MODULE MCPortal ------------------------------
(***************************************************************************)
(* Instances for TLC of modules that share no state: cluster actions,      *)
(* sandbox history, chat and code interpreter of the portal, and the demo  *)
(* agent.  Their steps commute, so a behaviour of the system is one of     *)
(* each module side by side, and TLC explores the sum of the state spaces  *)
(* instead of their product: `part' chooses the module that moves, the     *)
(* others stand still.                                                     *)
(***************************************************************************)
EXTENDS ClusterActions, SandboxHistory, KimiChat, CodeExec, AciAgent

VARIABLE part

\* No call, one call, or a call after a create in the same reply.
SmallReplies ==
  {<<>>} \cup {<<tool>> : tool \in Tools} \cup {<<"create_sandbox", tool>> : tool \in Tools}

portalVars == <<clusterVars, historyVars, chatVars, execVars, agentVars, part>>

PortalInit ==
  /\ part \in {"cluster", "history", "chat", "exec", "agent"}
  /\ ClusterInit /\ HistoryInit /\ ChatInit /\ ExecInit /\ AgentInit

\* All requests have their answer, and there will be no others.
NoMoreChats == (\A c \in Chats : chat[c].pc \in Ends) /\ UNCHANGED chatVars

\* The process of the agent has ended.
AgentOver == at = "done" /\ UNCHANGED agentVars

PortalNext ==
  /\ UNCHANGED part
  /\ \/ part = "cluster" /\ ClusterNext /\ UNCHANGED <<historyVars, chatVars, execVars, agentVars>>
     \/ part = "history" /\ HistoryNext /\ UNCHANGED <<clusterVars, chatVars, execVars, agentVars>>
     \/ part = "chat" /\ (ChatNext \/ NoMoreChats) /\ UNCHANGED <<clusterVars, historyVars, execVars, agentVars>>
     \/ part = "exec" /\ ExecNext /\ UNCHANGED <<clusterVars, historyVars, chatVars, agentVars>>
     \/ part = "agent" /\ (AgentNext \/ AgentOver) /\ UNCHANGED <<clusterVars, historyVars, chatVars, execVars>>

\* Nothing is under way in a part that stands still, but for the poller, which
\* the fairness below does not ask to move then.
PortalFairness ==
  /\ ClusterFairness /\ ChatFairness /\ ExecFairness /\ AgentFairness
  /\ WF_portalVars(part = "history" /\ PollWakes
                     /\ UNCHANGED <<clusterVars, chatVars, execVars, agentVars, part>>)
  /\ SF_historyVars(ControlPlaneLists) /\ SF_historyVars(PollReconciles)

PortalSpec == PortalInit /\ [][PortalNext]_portalVars /\ PortalFairness
=============================================================================
