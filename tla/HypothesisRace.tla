--------------------------- MODULE HypothesisRace ---------------------------
(***************************************************************************)
(* examples/hypothesis_swarm.py, the script behind a swarm run: main asks  *)
(* the model for patches of a failing program, runs the tests on each of   *)
(* them in a sandbox of its own, all at once, and names the fastest that   *)
(* passes.                                                                 *)
(***************************************************************************)
EXTENDS Integers, Sequences, FiniteSets

CONSTANTS
  N,            \* N_HYPOTHESES
  Models,       \* number of KIMI_DEPLOYMENTS
  Posts,        \* posts per deployment, 3 in the code
  Answers,      \* what the model may answer: see Elements
  MaxClock      \* bound: the clock stops here

\* The elements an answer may have: a class that repairs the program, one that
\* does not, none at all, or something main cannot read.
Elements == {"fix", "no fix", "blank", "malformed"}

ASSUME RaceAssumption ==
  /\ N \in Nat \ {0} /\ Models \in Nat \ {0} /\ Posts \in Nat \ {0} /\ MaxClock \in Nat
  /\ Answers \subseteq Seq(Elements)

VARIABLES
  main,         \* where main is
  model, post,  \* counters of ask_kimi's loops
  patches,      \* the elements of the answer that are used
  race,         \* where race_one is, for each of them
  result,       \* its result
  passedIn,     \* the hypotheses whose tests passed and whose sandbox said so
  clock,        \* seconds since the race began
  winner,       \* the hypothesis named, or 0
  exit          \* the script's exit code, or -1

askVars  == <<model, post>>
laneVars == <<race, result, passedIn, clock>>
raceVars == <<main, askVars, patches, laneVars, winner, exit>>

Lanes == 1..Len(patches)

NoResult == [passed |-> FALSE, duration |-> 0]

RaceInit ==
  /\ main = "token" /\ model = 1 /\ post = 1
  /\ patches = <<>> /\ race = <<>> /\ result = <<>>
  /\ passedIn = {} /\ clock = 0 /\ winner = 0 /\ exit = -1

Exits(code) == main' = "over" /\ exit' = code

-----------------------------------------------------------------------------
(* main, up to the race, and ask_kimi *)

GetToken ==
  /\ main = "token" /\ main' = "ask"
  /\ UNCHANGED <<askVars, patches, laneVars, winner, exit>>

\* An exception that nobody catches: no token, no text with a failed call, no
\* key file, an element that is not an object or whose idx is not a number.
MainRaises ==
  /\ main \in {"token", "ask", "parsed"} /\ Exits(1)
  /\ UNCHANGED <<askVars, patches, laneVars, winner>>

\* Too many requests, a failed call, or an empty answer.
TryPostAgain ==
  /\ main = "ask" /\ post < Posts
  /\ post' = post + 1
  /\ UNCHANGED <<main, model, patches, laneVars, winner, exit>>

\* Any other status, or one of those at the last post.
NextModel ==
  /\ main = "ask" /\ model < Models
  /\ model' = model + 1 /\ post' = 1
  /\ UNCHANGED <<main, patches, laneVars, winner, exit>>

\* No deployment has answered, or the answer holds no array.
NothingParsed ==
  /\ main = "ask" /\ Exits(2)
  /\ UNCHANGED <<askVars, patches, laneVars, winner>>

\* splice_class: a patch without a class leaves the program as it was.
Spliced(element) == element = "fix"

\* parse_hypotheses keeps the first N elements.
Parsed(answer) == SubSeq(answer, 1, IF Len(answer) < N THEN Len(answer) ELSE N)

Answered(answer) ==
  /\ main = "ask"
  /\ main' = "parsed" /\ patches' = Parsed(answer)
  /\ UNCHANGED <<askVars, laneVars, winner, exit>>

StartRace ==
  /\ main = "parsed" /\ \A i \in Lanes : patches[i] # "malformed"
  /\ main' = "racing"
  /\ race' = [i \in Lanes |-> "creating"]
  /\ result' = [i \in Lanes |-> NoResult]
  /\ UNCHANGED <<askVars, patches, passedIn, clock, winner, exit>>

-----------------------------------------------------------------------------
(* race_one *)

Unknown == -1

\* What the sandbox says of the script: the exit code it printed itself, and
\* the one of the SDK.  The script stops at a failing pytest, or at an earlier
\* failure, before it prints; the SDK knows the code or not.
Reports(i) ==
  IF Spliced(patches[i])
  THEN {[printed |-> 0, code |-> c] : c \in {0, Unknown}}
         \cup {[printed |-> Unknown, code |-> c] : c \in {1, Unknown}}
  ELSE {[printed |-> Unknown, code |-> c] : c \in {1, Unknown}}

\* Seeded bug: no exit code at all is taken for zero.
ExitCodeOrZero(out) ==
  IF out.printed # Unknown THEN out.printed ELSE IF out.code = Unknown THEN 0 ELSE out.code

ExitCode(out) == IF out.printed # Unknown THEN out.printed ELSE out.code

Settles(i, passed) ==
  /\ race' = [race EXCEPT ![i] = "settled"]
  /\ result' = [result EXCEPT ![i] = [passed |-> passed, duration |-> clock]]
  /\ UNCHANGED <<main, askVars, patches, clock, winner, exit>>

SandboxReady(i) ==
  /\ race[i] = "creating"
  /\ race' = [race EXCEPT ![i] = "testing"]
  /\ UNCHANGED <<main, askVars, patches, result, passedIn, clock, winner, exit>>

TestsEnd(i) ==
  /\ race[i] = "testing"
  /\ \E out \in Reports(i) :
       /\ Settles(i, ExitCode(out) = 0)
       /\ passedIn' = IF out.printed = 0 THEN passedIn \cup {i} ELSE passedIn

\* An exception before the tests' end is known makes a failed result, and
\* leaves the others alone; one after it, as the sandbox is closed, is TestsEnd.
SandboxFails(i) ==
  /\ race[i] \in {"creating", "testing"}
  /\ Settles(i, FALSE) /\ UNCHANGED passedIn

SecondPasses ==
  /\ main = "racing" /\ clock < MaxClock
  /\ clock' = clock + 1
  /\ UNCHANGED <<main, askVars, patches, race, result, passedIn, winner, exit>>

-----------------------------------------------------------------------------
(* main, after gather *)

\* min(passes, key=duration)
Fastest(i) ==
  /\ result[i].passed
  /\ \A j \in Lanes : result[j].passed => result[i].duration =< result[j].duration

\* The first of the fastest, if any.
Ranked ==
  /\ main = "racing" /\ \A i \in Lanes : race[i] = "settled"
  /\ IF \E i \in Lanes : result[i].passed
     THEN /\ Exits(0)
          /\ \E i \in Lanes : Fastest(i) /\ (\A j \in 1..(i - 1) : ~Fastest(j)) /\ winner' = i
     ELSE Exits(1) /\ UNCHANGED winner
  /\ UNCHANGED <<askVars, patches, laneVars>>

RaceNext ==
  \/ GetToken \/ MainRaises \/ TryPostAgain \/ NextModel \/ NothingParsed
  \/ \E answer \in Answers : Answered(answer)
  \/ StartRace \/ SecondPasses \/ Ranked
  \/ main = "racing" /\ \E i \in Lanes : SandboxReady(i) \/ TestsEnd(i) \/ SandboxFails(i)

RaceSpec == RaceInit /\ [][RaceNext]_raceVars

-----------------------------------------------------------------------------
(* Properties *)

RaceTypeOK ==
  /\ main \in {"token", "ask", "parsed", "racing", "over"}
  /\ model \in 1..Models /\ post \in 1..Posts
  /\ patches \in Seq(Elements) /\ Len(patches) =< N
  /\ main = "racing" => /\ race \in [Lanes -> {"creating", "testing", "settled"}]
                        /\ result \in [Lanes -> [passed : BOOLEAN, duration : Nat]]
  /\ passedIn \subseteq Lanes
  /\ clock \in Nat /\ winner \in Lanes \cup {0} /\ exit \in {-1, 0, 1, 2}

\* Whatever becomes of the other sandboxes and whatever the SDK knows of exit
\* codes: a named winner repairs the program, no other that was seen to pass
\* was faster, and a race in which one was seen to pass has a winner.
WinnerRepairs ==
  /\ exit = 0 => /\ Spliced(patches[winner])
                 /\ \A i \in passedIn : result[winner].duration =< result[i].duration
  /\ exit \in {1, 2} => passedIn = {}
=============================================================================
