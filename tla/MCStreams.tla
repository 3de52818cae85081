----------------------------- MODULE MCStreams ------------------------------
(***************************************************************************)
(* An instance of SwarmRuns for TLC: the streams of the watched runs.  The *)
(* other runs only start, and by that drive a watched one from the         *)
(* registry; what becomes of them is as for the watched ones, and nobody   *)
(* asks for it here.                                                       *)
(***************************************************************************)
EXTENDS SwarmRuns

CONSTANT Watched

OthersOnlyStart ==
  \A r \in Runs \ Watched :
    /\ state'[r] = "absent" \/ \A w \in Watched : state[w] # "absent"
    /\ printed'[r] = 0 /\ proc'[r] \in {"none", "alive"}
    /\ \A c \in Cancels : cancel'[c].run # r
    /\ \A s \in Streams : stream'[s].run # r

\* Every run started has its row, and no write fails: a stream sees none of it.
WritesSucceed ==
  /\ \A r \in Runs : drain'[r] # "unsaved" /\ (row'[r] = "absent" => state'[r] = "absent")
  /\ \A c \in Cancels : cancel'[c].pc # "unsaved"

StreamsSpec == Init /\ [][Next /\ OthersOnlyStart /\ WritesSucceed]_vars /\ Fairness(Watched)
=============================================================================
