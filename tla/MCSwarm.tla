------------------------------ MODULE MCSwarm -------------------------------
(***************************************************************************)
(* Instances for TLC of the modules whose properties are of safety: swarm  *)
(* runs, the script behind one, pool patches, the webhook, and the         *)
(* requests that use a session.  They share no state, so one of them moves *)
(* per behaviour, as `part' says, and the others stand still.              *)
(***************************************************************************)
EXTENDS MCStreams, HypothesisRace, PoolPatch, KataWebhook, SessionCommands, TLC

VARIABLE part

Interchangeable == Permutations(Cancels)

\* Requests that change one field, or the four as the portal's slider does.
SmallBodies ==
  UNION {[{f} -> 0..2] : f \in Fields} \cup {[f \in Fields |-> n] : n \in 1..2} \cup {[f \in {} |-> 0]}

SmallPool == [f \in Fields |-> IF f = "bufferMin" THEN 0 ELSE 1]

PlainPod == [runtime |-> "", pooled |-> FALSE, kataNamed |-> FALSE,
             tolerations |-> NoTolerations, selector |-> NoSelector]

\* Up to one element more than N.
SmallAnswers == UNION {[1..n -> Elements] : n \in 0..(N + 1)}

swarmVars == <<vars, raceVars, poolVars, kataVars, commandVars, part>>

SwarmInit ==
  /\ part \in {"swarm", "race", "pool", "kata", "commands"}
  /\ Init /\ RaceInit /\ PoolInit /\ CommandInit
  /\ KataInit /\ (part # "kata" => submitted = PlainPod)

SwarmNext ==
  /\ UNCHANGED part
  /\ \/ part = "swarm" /\ Next /\ OthersOnlyStart /\ UNCHANGED <<raceVars, poolVars, kataVars, commandVars>>
     \/ part = "race" /\ RaceNext /\ UNCHANGED <<vars, poolVars, kataVars, commandVars>>
     \/ part = "pool" /\ PoolNext /\ UNCHANGED <<vars, raceVars, kataVars, commandVars>>
     \/ part = "kata" /\ KataNext /\ UNCHANGED <<vars, raceVars, poolVars, commandVars>>
     \/ part = "commands" /\ CommandNext /\ UNCHANGED <<vars, raceVars, poolVars, kataVars>>

SwarmSpec == SwarmInit /\ [][SwarmNext]_swarmVars
=============================================================================
