----------------------------- MODULE SwarmProofs -----------------------------
(***************************************************************************)
(* Theorems about module SwarmRuns, for any runs, cancellations and        *)
(* streams and any limits.                                                 *)
(***************************************************************************)
EXTENDS SwarmRuns, SequenceTheorems, TLAPS

Final == {"state", "stated", "done", "ended"}

\* Which cancellation has the event loop, and what is known of its run.
CancelInv ==
  /\ \A c \in Cancels : cancel[c].pc \in Final <=> busy = c
  /\ \A c \in Cancels : cancel[c].pc # "idle" =>
       cancel[c].run \in Runs /\ state[cancel[c].run] # "absent"
  /\ \A c \in Cancels : cancel[c].pc \in Final =>
       proc[cancel[c].run] # "alive" \/ signal[cancel[c].run] = "kill"

\* A run that has not been started has no row and no thread.
StartInv ==
  \A r \in Runs : state[r] = "absent" => row[r] = "absent" /\ drain[r] = "none" /\ proc[r] = "none"

Through == {"stated", "done", "ended", "saving", "finished", "unsaved"}

\* A drain thread that has stated the end leaves a final state behind it, which
\* only a cancellation may replace, and takes a final state to the row.
StatedInv ==
  \A r \in Runs :
    /\ drain[r] \in Through => state[r] \in Finals
    /\ drain[r] = "saving" => upsert[r] \in Finals
    /\ upsert[r] = "completed" => proc[r] = "ok"

DrainPcs == {"none", "reading", "line", "stated", "done", "ended", "saving", "finished", "unsaved"}

CancelPcs == {"idle", "waiting", "state", "stated", "done", "ended", "replied", "unsaved"}

USE DEF DrainPcs, CancelPcs

DrainRoom(r) == IF drain[r] \in {"line", "done"} THEN 1 ELSE 0

CancelRoom(r) ==
  IF \E c \in Cancels : cancel[c].pc = "done" /\ cancel[c].run = r THEN 1 ELSE 0

\* A writer that has made room counts for the event it is about to append.
RoomInv == \A r \in Runs : Len(events[r]) + DrainRoom(r) + CancelRoom(r) =< MaxEvents + 1

\* The pipe holds lines that were printed.
PipeInv == \A r \in Runs : pipe[r] =< printed[r] /\ (drain[r] = "line" => pipe[r] < printed[r])

\* A connection that was made has a run.
StreamInv == \A s \in Streams : stream[s].pc # "idle" => stream[s].run \in Runs

SwarmInv ==
  /\ TypeOK /\ CancelInv /\ StartInv /\ StatedInv /\ RoomInv /\ PipeInv /\ StreamInv
  /\ CompletedMeansOk /\ CancelledIsDying /\ ReplayEndsWithDone

-----------------------------------------------------------------------------
LastOf(s) == s[Len(s)]

\* Dropping the oldest element leaves room, and the newest one where it is.
LEMMA TailFacts ==
  ASSUME NEW S, NEW s \in Seq(S), Len(s) >= MaxEvents
  PROVE  /\ Tail(s) \in Seq(S) /\ Len(Tail(s)) = Len(s) - 1
         /\ Tail(s) # <<>> /\ LastOf(Tail(s)) = LastOf(s)
<1>1. Len(s) \in Nat /\ Len(s) >= 2 /\ s # <<>>
  BY SwarmAssumption
<1>2. Tail(s) \in Seq(S) /\ Len(Tail(s)) = Len(s) - 1
  BY <1>1
<1>3. \A i \in 1..Len(Tail(s)) : Tail(s)[i] = s[i + 1]
  BY <1>1, <1>2
<1>4. Len(Tail(s)) \in 1..Len(Tail(s)) /\ Len(Tail(s)) + 1 = Len(s)
  BY <1>1, <1>2
<1>5. Tail(s) # <<>>
  <2>1. Len(Tail(s)) # 0
    BY <1>1, <1>2
  <2> QED
    BY <2>1
<1> QED
  BY <1>2, <1>3, <1>4, <1>5 DEF LastOf

LEMMA MakeRoomFacts ==
  ASSUME TypeOK, NEW r \in Runs, MakeRoom(r)
  PROVE  /\ events' \in [Runs -> Seq(Events)]
         /\ \A q \in Runs \ {r} : events'[q] = events[q]
         /\ \/ Len(events'[r]) = Len(events[r]) - 1
            \/ Len(events'[r]) = Len(events[r]) /\ Len(events[r]) < MaxEvents
         /\ events[r] # <<>> => events'[r] # <<>> /\ LastOf(events'[r]) = LastOf(events[r])
<1>1. events \in [Runs -> Seq(Events)] /\ events[r] \in Seq(Events)
  BY DEF TypeOK
<1>2. \A q \in Runs \ {r} : events'[q] = events[q]
  BY <1>1 DEF MakeRoom
<1>3. CASE Len(events[r]) >= MaxEvents
  <2>1. events'[r] = Tail(events[r])
    BY <1>1, <1>3 DEF MakeRoom
  <2>2. events' = [events EXCEPT ![r] = Tail(events[r])]
    BY <1>1, <1>3 DEF MakeRoom
  <2>3. /\ Tail(events[r]) \in Seq(Events) /\ Len(Tail(events[r])) = Len(events[r]) - 1
        /\ Tail(events[r]) # <<>> /\ LastOf(Tail(events[r])) = LastOf(events[r])
    BY <1>1, <1>3, TailFacts
  <2>4. events' \in [Runs -> Seq(Events)]
    BY <1>1, <2>2, <2>3
  <2>5. Len(events'[r]) = Len(events[r]) - 1
    BY <2>1, <2>3
  <2>6. events'[r] # <<>> /\ LastOf(events'[r]) = LastOf(events[r])
    BY <2>1, <2>3
  <2> QED
    BY <1>2, <2>4, <2>5, <2>6
<1>4. CASE ~(Len(events[r]) >= MaxEvents)
  <2>1. events' = events
    BY <1>1, <1>4 DEF MakeRoom
  <2>2. Len(events[r]) \in Nat /\ MaxEvents \in Nat
    BY <1>1, SwarmAssumption
  <2> QED
    BY <1>1, <1>4, <2>1, <2>2
<1> QED
  BY <1>3, <1>4

LEMMA AppendFacts ==
  ASSUME TypeOK, NEW r \in Runs, NEW evt \in Events, AppendEvent(r, evt)
  PROVE  /\ events' \in [Runs -> Seq(Events)]
         /\ queue' \in [Runs -> Seq(Events \cup {Sentinel})]
         /\ \A q \in Runs \ {r} : events'[q] = events[q]
         /\ Len(events'[r]) = Len(events[r]) + 1
         /\ events'[r] # <<>> /\ LastOf(events'[r]) = evt
<1>1. events \in [Runs -> Seq(Events)] /\ events[r] \in Seq(Events)
  BY DEF TypeOK
<1>2. events' = [events EXCEPT ![r] = Append(events[r], evt)]
  BY DEF AppendEvent
<1>3. /\ Append(events[r], evt) \in Seq(Events)
      /\ Len(Append(events[r], evt)) = Len(events[r]) + 1
      /\ Append(events[r], evt)[Len(events[r]) + 1] = evt
  BY <1>1
<1>4. queue' \in [Runs -> Seq(Events \cup {Sentinel})]
  <2> DEFINE more == IF evt = Done THEN <<Done, Sentinel>> ELSE <<evt>>
  <2>1. more \in Seq(Events \cup {Sentinel})
    <3>1. CASE evt = Done
      <4>1. Done \in Events \cup {Sentinel} /\ Sentinel \in Events \cup {Sentinel}
        BY <3>1
      <4> QED
        BY <3>1, <4>1
    <3>2. CASE evt # Done
      BY <3>2
    <3> QED
      BY <3>1, <3>2
  <2>2. queue \in [Runs -> Seq(Events \cup {Sentinel})]
    BY DEF TypeOK
  <2>3. queue' = [queue EXCEPT ![r] = queue[r] \o more]
    BY DEF AppendEvent
  <2> HIDE DEF more
  <2>4. queue[r] \o more \in Seq(Events \cup {Sentinel})
    BY <2>1, <2>2
  <2> QED
    BY <2>2, <2>3, <2>4
<1>5. events'[r] = Append(events[r], evt) /\ \A q \in Runs \ {r} : events'[q] = events[q]
  BY <1>1, <1>2
<1>6. events' \in [Runs -> Seq(Events)]
  BY <1>1, <1>2, <1>3
<1>7. LastOf(events'[r]) = evt
  BY <1>3, <1>5 DEF LastOf
<1>8. events'[r] # <<>>
  <2>1. Len(events[r]) \in Nat /\ Len(events'[r]) = Len(events[r]) + 1
    BY <1>1, <1>3, <1>5
  <2>2. Len(events'[r]) # 0
    BY <2>1
  <2> QED
    BY <2>2
<1> QED
  BY <1>3, <1>4, <1>5, <1>6, <1>7, <1>8

LEMMA CancelGotoFacts ==
  ASSUME TypeOK, NEW c \in Cancels, NEW to, CancelGoto(c, to),
         to \in Final \cup {"replied", "unsaved"}
  PROVE  /\ cancel' \in [Cancels -> [pc : CancelPcs, run : Runs \cup {None}]]
         /\ cancel'[c].pc = to /\ cancel'[c].run = cancel[c].run
         /\ \A d \in Cancels \ {c} : cancel'[d] = cancel[d]
BY DEF TypeOK, CancelGoto, Final

LEMMA DrainGotoFacts ==
  ASSUME TypeOK, NEW r \in Runs, NEW to, DrainGoto(r, to),
         to \in {"reading", "line", "stated", "done", "ended", "saving", "finished", "unsaved"}
  PROVE  /\ drain' \in [Runs -> DrainPcs]
         /\ drain'[r] = to /\ \A q \in Runs \ {r} : drain'[q] = drain[q]
BY DEF TypeOK, DrainGoto

LEMMA SwarmInit == Init => SwarmInv
<1> SUFFICES ASSUME Init PROVE SwarmInv
  OBVIOUS
<1>1. NoStream \in [pc : {"idle", "replay", "follow", "get", "closed", "gone", "refused"},
                    run : Runs \cup {None}, left : Seq(Events), got : Seq(Events)]
  BY DEF NoStream
<1>2. TypeOK
  BY <1>1, SwarmAssumption DEF Init, TypeOK, Finals
<1>3. CancelInv /\ StartInv /\ StatedInv
  BY SwarmAssumption DEF Init, CancelInv, StartInv, StatedInv, Through, None, Final
<1>4. RoomInv
  <2>1. \A r \in Runs : Len(events[r]) = 0 /\ DrainRoom(r) = 0 /\ CancelRoom(r) = 0
    BY DEF Init, DrainRoom, CancelRoom
  <2> QED
    BY <2>1, SwarmAssumption DEF RoomInv
<1>5. CompletedMeansOk /\ CancelledIsDying /\ ReplayEndsWithDone
  BY DEF Init, CompletedMeansOk, CancelledIsDying, ReplayEndsWithDone
<1>6. PipeInv /\ StreamInv
  BY DEF Init, PipeInv, StreamInv, NoStream
<1> QED
  BY <1>2, <1>3, <1>4, <1>5, <1>6 DEF SwarmInv

-----------------------------------------------------------------------------
(* Each kind of step *)

\* What the steps of the streams change concerns no other part.
LEMMA StreamStepInv ==
  ASSUME SwarmInv, NEW s \in Streams,
         StreamStep(s) \/ Leave(s) \/ \E r \in Runs : Attach(s, r)
  PROVE  SwarmInv'
<1> DEFINE Conn == [pc : {"idle", "replay", "follow", "get", "closed", "gone", "refused"},
                    run : Runs \cup {None}, left : Seq(Events), got : Seq(Events)]
<1>0. TypeOK /\ stream \in [Streams -> Conn] /\ stream[s] \in Conn
      /\ queue \in [Runs -> Seq(Events \cup {Sentinel})] /\ events \in [Runs -> Seq(Events)]
  BY DEF SwarmInv, TypeOK
<1>1. UNCHANGED <<registry, state, proc, signal, printed, pipe, drain, row, upsert, events, cancel, busy>>
  BY DEF StreamStep, Replay, Follow, Get, Heartbeat, Leave, Attach, otherThanStream, runVars
<1>2. stream' \in [Streams -> Conn] /\ queue' \in [Runs -> Seq(Events \cup {Sentinel})]
  <2>1. CASE Replay(s)
    <3>1. Head(stream[s].left) \in Events /\ Tail(stream[s].left) \in Seq(Events)
      BY <1>0, <2>1 DEF Replay
    <3>2. Append(stream[s].got, Head(stream[s].left)) \in Seq(Events)
      BY <1>0, <3>1
    <3>3. queue' = queue /\ stream' = [stream EXCEPT ![s] =
            [stream[s] EXCEPT !.left = Tail(stream[s].left),
               !.got = Append(stream[s].got, Head(stream[s].left)),
               !.pc = IF Head(stream[s].left) = Done THEN "closed" ELSE "replay"]]
      BY <1>0, <2>1 DEF Replay
    <3> QED
      BY <1>0, <3>1, <3>2, <3>3
  <2>2. CASE Get(s)
    <3> DEFINE q == queue[stream[s].run]
               evt == Head(q)
    <3>0. stream[s].run \in Runs
      BY <2>2 DEF Get, SwarmInv, StreamInv
    <3>1. q \in Seq(Events \cup {Sentinel}) /\ evt \in Events \cup {Sentinel}
          /\ Tail(q) \in Seq(Events \cup {Sentinel})
      BY <1>0, <3>0, <2>2 DEF Get
    <3>2. evt # Sentinel => Append(stream[s].got, evt) \in Seq(Events)
      BY <1>0, <3>1
    <3>3. queue' = [queue EXCEPT ![stream[s].run] = Tail(q)] /\ stream' = [stream EXCEPT ![s] =
            [stream[s] EXCEPT
               !.got = IF evt = Sentinel THEN stream[s].got ELSE Append(stream[s].got, evt),
               !.pc = IF evt \in {Sentinel, Done} THEN "closed" ELSE "follow"]]
      BY <1>0, <2>2 DEF Get
    <3> HIDE DEF q, evt
    <3>4. queue' \in [Runs -> Seq(Events \cup {Sentinel})]
      BY <1>0, <3>1, <3>3
    <3> QED
      BY <1>0, <3>2, <3>3, <3>4
  <2>3. CASE Follow(s) \/ Heartbeat(s)
    <3>1. PICK to \in {"get", "closed", "follow"} :
            stream' = [stream EXCEPT ![s] = [stream[s] EXCEPT !.pc = to]]
      BY <1>0, <2>3 DEF Follow, Heartbeat
    <3>2. [stream[s] EXCEPT !.pc = to] \in Conn
      BY <1>0
    <3>3. queue' = queue
      BY <2>3 DEF Follow, Heartbeat
    <3> QED
      BY <1>0, <3>1, <3>2, <3>3
  <2>4. CASE \E r \in Runs : Attach(s, r)
    <3>1. PICK r \in Runs : Attach(s, r)
      BY <2>4
    <3>2. /\ [pc |-> "replay", run |-> r, left |-> events[r], got |-> <<>>] \in Conn
          /\ [pc |-> "refused", run |-> r, left |-> <<>>, got |-> <<>>] \in Conn
      BY <1>0
    <3> QED
      BY <1>0, <3>1, <3>2 DEF Attach
  <2>5. CASE Leave(s)
    <3>1. [pc |-> "gone", run |-> stream[s].run, left |-> <<>>, got |-> <<>>] \in Conn
      BY <1>0
    <3> QED
      BY <1>0, <2>5, <3>1 DEF Leave
  <2> QED
    BY <2>1, <2>2, <2>3, <2>4, <2>5 DEF StreamStep
<1>3. TypeOK'
  BY <1>0, <1>1, <1>2 DEF TypeOK
<1>6. StreamInv'
  <2>1. CASE \E r \in Runs : Attach(s, r)
    <3>1. stream'[s].run \in Runs /\ \A q \in Streams \ {s} : stream'[q] = stream[q]
      BY <1>0, <2>1 DEF Attach
    <3> QED
      BY <3>1 DEF StreamInv, SwarmInv
  <2>2. CASE StreamStep(s) \/ Leave(s)
    <3>1. stream[s].pc # "idle"
      BY <2>2 DEF StreamStep, Replay, Follow, Get, Heartbeat, Leave
    <3>2. \A q \in Streams \ {s} : stream'[q] = stream[q]
      BY <1>0, <2>2 DEF StreamStep, Replay, Follow, Get, Heartbeat, Leave
    <3>3. stream'[s].run = stream[s].run
      <4>1. CASE Replay(s)
        BY <1>0, <4>1 DEF Replay
      <4>2. CASE Follow(s)
        BY <1>0, <4>2 DEF Follow
      <4>3. CASE Get(s)
        BY <1>0, <4>3 DEF Get
      <4>4. CASE Heartbeat(s) \/ Leave(s)
        BY <1>0, <4>4 DEF Heartbeat, Leave
      <4> QED
        BY <2>2, <4>1, <4>2, <4>3, <4>4 DEF StreamStep
    <3> QED
      BY <3>1, <3>2, <3>3 DEF StreamInv, SwarmInv
  <2> QED
    BY <2>1, <2>2
<1>4. CancelInv' /\ StartInv' /\ StatedInv' /\ RoomInv'
  BY <1>1 DEF SwarmInv, CancelInv, StartInv, StatedInv, RoomInv, DrainRoom, CancelRoom
<1>5. CompletedMeansOk' /\ CancelledIsDying' /\ ReplayEndsWithDone'
  BY <1>1 DEF SwarmInv, CompletedMeansOk, CancelledIsDying, ReplayEndsWithDone
<1> QED
  BY <1>1, <1>3, <1>4, <1>5, <1>6 DEF SwarmInv, PipeInv

LEMMA StartRunInv ==
  ASSUME SwarmInv, NEW r \in Runs, StartRun(r)
  PROVE  SwarmInv'
<1>0. TypeOK /\ state[r] = "absent" /\ drain[r] = "none" /\ row[r] = "absent" /\ proc[r] = "none"
  BY DEF SwarmInv, StartInv, StartRun
<1>1. registry' \in Seq(Runs) /\ Len(registry') =< MaxRuns
  <2>1. registry \in Seq(Runs) /\ Len(registry) =< MaxRuns /\ MaxRuns \in Nat \ {0} /\ Len(registry) \in Nat
    BY <1>0, SwarmAssumption DEF TypeOK
  <2>2. CASE Len(registry) >= MaxRuns
    <3>1. registry # <<>>
      BY <2>1, <2>2
    <3>2. Tail(registry) \in Seq(Runs) /\ Len(Tail(registry)) = Len(registry) - 1
      BY <2>1, <3>1
    <3>3. registry' = Append(Tail(registry), r)
      BY <2>2 DEF StartRun, Register
    <3> QED
      BY <2>1, <3>2, <3>3
  <2>3. CASE ~(Len(registry) >= MaxRuns)
    <3>1. registry' = Append(registry, r)
      BY <2>3 DEF StartRun, Register
    <3> QED
      BY <2>1, <2>3, <3>1
  <2> QED
    BY <2>2, <2>3
<1>2. /\ state' = [state EXCEPT ![r] = "running"] /\ proc' = [proc EXCEPT ![r] = "alive"]
      /\ row' \in {row, [row EXCEPT ![r] = "running"]} /\ drain' = [drain EXCEPT ![r] = "reading"]
      /\ UNCHANGED <<signal, printed, pipe, events, queue, upsert, cancel, busy, stream>>
  BY DEF StartRun
<1>3. TypeOK'
  BY <1>0, <1>1, <1>2 DEF TypeOK
<1>4. \A c \in Cancels : cancel[c].pc # "idle" => cancel[c].run # r
  BY <1>0 DEF SwarmInv, CancelInv
<1>5. CancelInv' /\ StartInv'
  BY <1>0, <1>2, <1>4 DEF SwarmInv, CancelInv, StartInv, TypeOK, Final
<1>a. StatedInv'
  BY <1>0, <1>2 DEF SwarmInv, StatedInv, TypeOK, Through
<1>6. RoomInv'
  BY <1>0, <1>2 DEF SwarmInv, RoomInv, DrainRoom, CancelRoom, TypeOK
<1>7. CompletedMeansOk' /\ CancelledIsDying' /\ ReplayEndsWithDone'
  BY <1>0, <1>2 DEF SwarmInv, CompletedMeansOk, CancelledIsDying, ReplayEndsWithDone, TypeOK
<1>8. PipeInv' /\ StreamInv'
  BY <1>0, <1>2 DEF SwarmInv, PipeInv, StreamInv, TypeOK
<1> QED
  BY <1>3, <1>5, <1>6, <1>7, <1>8, <1>a DEF SwarmInv

LEMMA ProcessInv ==
  ASSUME SwarmInv, NEW r \in Runs, PrintLine(r) \/ \E how \in {"ok", "bad"} : Exit(r, how)
  PROVE  SwarmInv'
<1>0. TypeOK
  BY DEF SwarmInv
<1>1. UNCHANGED <<registry, state, signal, drain, row, upsert, events, queue, cancel, busy, stream>>
  BY DEF PrintLine, Exit
<1>2. /\ \A q \in Runs : proc'[q] = proc[q] \/ (proc[q] = "alive" /\ proc'[q] \in {"ok", "bad"})
      /\ proc' \in [Runs -> {"none", "alive", "ok", "bad"}]
  <2>1. CASE PrintLine(r)
    BY <1>0, <2>1 DEF PrintLine, TypeOK
  <2>2. CASE \E how \in {"ok", "bad"} : Exit(r, how)
    BY <1>0, <2>2 DEF Exit, TypeOK
  <2> QED
    BY <2>1, <2>2
<1>3. printed' \in [Runs -> 0..MaxLines] /\ pipe' \in [Runs -> 0..MaxLines]
  <2>1. CASE PrintLine(r)
    <3>1. printed[r] + 1 \in 0..MaxLines /\ pipe[r] + 1 \in 0..MaxLines
      BY <1>0, <2>1, SwarmAssumption DEF PrintLine, TypeOK, PipeInv, SwarmInv
    <3> QED
      BY <1>0, <2>1, <3>1 DEF PrintLine, TypeOK
  <2>2. CASE \E how \in {"ok", "bad"} : Exit(r, how)
    BY <1>0, <2>2 DEF Exit, TypeOK
  <2> QED
    BY <2>1, <2>2
<1>a. PipeInv'
  <2>1. CASE PrintLine(r)
    BY <1>0, <2>1 DEF PrintLine, TypeOK, PipeInv, SwarmInv
  <2>2. CASE \E how \in {"ok", "bad"} : Exit(r, how)
    BY <2>2 DEF Exit, PipeInv, SwarmInv
  <2> QED
    BY <2>1, <2>2
<1>4. TypeOK'
  BY <1>0, <1>1, <1>2, <1>3 DEF TypeOK
<1>b. CancelInv'
  <2>1. \A c \in Cancels : cancel[c].pc \in Final => cancel[c].run \in Runs
    BY DEF SwarmInv, CancelInv, Final
  <2>2. \A c \in Cancels : cancel'[c] = cancel[c]
    BY <1>1
  <2> QED
    BY <1>1, <1>2, <2>1, <2>2 DEF SwarmInv, CancelInv
<1>5. StartInv' /\ StatedInv' /\ RoomInv'
  BY <1>0, <1>1, <1>2 DEF SwarmInv, StartInv, StatedInv, RoomInv, DrainRoom, CancelRoom
<1>6. CompletedMeansOk' /\ CancelledIsDying' /\ ReplayEndsWithDone' /\ StreamInv'
  BY <1>0, <1>1, <1>2 DEF StreamInv, SwarmInv, CompletedMeansOk, CancelledIsDying, ReplayEndsWithDone
<1> QED
  BY <1>4, <1>5, <1>6, <1>a, <1>b DEF SwarmInv

\* The steps of a drain thread that make room for an event or append it.
LEMMA DrainPushInv ==
  ASSUME SwarmInv, NEW r \in Runs,
         DrainLine(r) \/ DrainLinePushed(r) \/ DrainDone(r) \/ DrainDonePushed(r)
  PROVE  SwarmInv'
<1>0. TypeOK /\ drain \in [Runs -> DrainPcs]
      /\ state[r] # "absent"
  BY DEF SwarmInv, TypeOK, StartInv, DrainLine, DrainLinePushed, DrainDone, DrainDonePushed
<1>1. UNCHANGED <<registry, state, proc, signal, printed, row, upsert, cancel, busy, stream>>
  BY DEF DrainLine, DrainLinePushed, DrainDone, DrainDonePushed, otherThanDrain
<1>2. Len(events[r]) \in Nat /\ MaxEvents \in Nat /\ DrainRoom(r) \in {0, 1} /\ CancelRoom(r) \in {0, 1}
      /\ Len(events[r]) + DrainRoom(r) + CancelRoom(r) =< MaxEvents + 1
      /\ \A q \in Runs : CancelRoom(q)' = CancelRoom(q)
  <2>1. events[r] \in Seq(Events) /\ Len(events[r]) \in Nat /\ MaxEvents \in Nat
    BY <1>0, SwarmAssumption DEF TypeOK
  <2>2. DrainRoom(r) \in {0, 1} /\ CancelRoom(r) \in {0, 1}
    BY DEF DrainRoom, CancelRoom
  <2>3. \A q \in Runs : CancelRoom(q)' = CancelRoom(q)
    BY <1>1 DEF CancelRoom
  <2>4. Len(events[r]) + DrainRoom(r) + CancelRoom(r) =< MaxEvents + 1
    BY DEF SwarmInv, RoomInv
  <2> QED
    BY <2>1, <2>2, <2>3, <2>4
<1>3. /\ pipe' \in [Runs -> 0..MaxLines] /\ PipeInv'
      /\ queue' \in [Runs -> Seq(Events \cup {Sentinel})] /\ events' \in [Runs -> Seq(Events)]
      /\ drain' \in [Runs -> DrainPcs]
      /\ \A q \in Runs \ {r} : events'[q] = events[q] /\ drain'[q] = drain[q]
      /\ Len(events'[r]) + DrainRoom(r)' + CancelRoom(r) =< MaxEvents + 1
      /\ drain'[r] \in {"ended", "saving", "finished", "unsaved"} => events'[r] # <<>> /\ LastOf(events'[r]) = Done
      /\ drain'[r] \notin {"none", "saving"} /\ (drain'[r] \in Through => drain[r] \in Through)
  <2>1. CASE DrainLine(r) \/ DrainDone(r)
    <3>1. MakeRoom(r) /\ queue' = queue /\ drain[r] \in {"reading", "stated"}
      BY <2>1 DEF DrainLine, DrainDone
    <3>2. PICK to \in {"line", "done"} : DrainGoto(r, to)
      BY <2>1 DEF DrainLine, DrainDone
    <3>3. drain'[r] = to /\ DrainRoom(r)' = 1 /\ DrainRoom(r) = 0
      BY <1>0, <3>1, <3>2, DrainGotoFacts DEF DrainRoom
    <3>4. pipe' \in [Runs -> 0..MaxLines] /\ PipeInv'
      <4>1. CASE DrainDone(r)
        BY <1>0, <1>1, <4>1 DEF DrainDone, DrainGoto, PipeInv, SwarmInv, TypeOK
      <4>2. CASE DrainLine(r)
        <5>1. /\ pipe[r] - 1 \in 0..MaxLines /\ pipe' = [pipe EXCEPT ![r] = pipe[r] - 1]
              /\ pipe[r] - 1 < printed[r]
          BY <1>0, <4>2, SwarmAssumption DEF DrainLine, PipeInv, SwarmInv, TypeOK
        <5>2. pipe' \in [Runs -> 0..MaxLines]
          BY <1>0, <5>1 DEF TypeOK
        <5> QED
          BY <1>0, <1>1, <4>2, <5>1, <5>2 DEF DrainLine, DrainGoto, PipeInv, SwarmInv, TypeOK
      <4> QED
        BY <2>1, <4>1, <4>2
    <3>5. /\ events' \in [Runs -> Seq(Events)] /\ \A q \in Runs \ {r} : events'[q] = events[q]
          /\ \/ Len(events'[r]) = Len(events[r]) - 1
             \/ Len(events'[r]) = Len(events[r]) /\ Len(events[r]) < MaxEvents
      BY <1>0, <3>1, MakeRoomFacts
    <3>6. Len(events'[r]) + DrainRoom(r)' + CancelRoom(r) =< MaxEvents + 1
      BY <1>2, <3>3, <3>5
    <3>7. to = "done" => drain[r] = "stated"
      <4>1. CASE DrainLine(r)
        BY <1>0, <3>2, <4>1, DrainGotoFacts DEF DrainLine, DrainGoto, TypeOK
      <4>2. CASE DrainDone(r)
        BY <4>2 DEF DrainDone
      <4> QED
        BY <2>1, <4>1, <4>2
    <3> QED
      BY <1>0, <3>1, <3>2, <3>3, <3>4, <3>5, <3>6, <3>7, DrainGotoFacts DEF TypeOK, Through
  <2>2. CASE DrainLinePushed(r) \/ DrainDonePushed(r)
    <3>1. PICK evt \in Events, to \in {"reading", "ended"} :
            /\ AppendEvent(r, evt) /\ DrainGoto(r, to)
            /\ to = "ended" => evt = Done /\ drain[r] = "done"
      <4>1. CASE DrainLinePushed(r)
        <5>1. printed[r] - pipe[r] \in Events
          BY <1>0, <4>1, SwarmAssumption DEF DrainLinePushed, PipeInv, SwarmInv, TypeOK, Events
        <5> QED
          BY <4>1, <5>1 DEF DrainLinePushed
      <4>2. CASE DrainDonePushed(r)
        <5>1. Done \in Events
          BY SwarmAssumption DEF Done, Events
        <5> QED
          BY <4>2, <5>1 DEF DrainDonePushed
      <4> QED
        BY <2>2, <4>1, <4>2
    <3>2. pipe' = pipe /\ drain[r] \in {"line", "done"}
      BY <2>2 DEF DrainLinePushed, DrainDonePushed
    <3>3. drain'[r] = to /\ DrainRoom(r)' = 0 /\ DrainRoom(r) = 1
      BY <1>0, <3>1, <3>2, DrainGotoFacts DEF DrainRoom
    <3>4. pipe' \in [Runs -> 0..MaxLines] /\ PipeInv'
      BY <1>0, <1>1, <3>1, <3>2 DEF DrainGoto, PipeInv, SwarmInv, TypeOK
    <3>5. /\ events' \in [Runs -> Seq(Events)] /\ \A q \in Runs \ {r} : events'[q] = events[q]
          /\ queue' \in [Runs -> Seq(Events \cup {Sentinel})]
          /\ Len(events'[r]) = Len(events[r]) + 1
          /\ events'[r] # <<>> /\ LastOf(events'[r]) = evt
      BY <1>0, <3>1, AppendFacts
    <3>6. Len(events'[r]) + DrainRoom(r)' + CancelRoom(r) =< MaxEvents + 1
      BY <1>2, <3>3, <3>5
    <3> QED
      BY <1>0, <3>1, <3>3, <3>4, <3>5, <3>6, DrainGotoFacts DEF Through
  <2> QED
    BY <2>1, <2>2
<1>4. TypeOK'
  BY <1>0, <1>1, <1>3 DEF TypeOK
<1>5. CancelInv' /\ StartInv' /\ StreamInv'
  BY <1>0, <1>1, <1>3 DEF SwarmInv, CancelInv, StartInv, StreamInv
<1>a. StatedInv'
  BY <1>1, <1>3 DEF SwarmInv, StatedInv
<1>6. RoomInv'
  <2> SUFFICES ASSUME NEW q \in Runs
               PROVE  Len(events'[q]) + DrainRoom(q)' + CancelRoom(q)' =< MaxEvents + 1
    BY DEF RoomInv
  <2>1. CASE q = r
    BY <1>2, <1>3, <2>1
  <2>2. CASE q # r
    <3>1. events'[q] = events[q] /\ DrainRoom(q)' = DrainRoom(q) /\ CancelRoom(q)' = CancelRoom(q)
      BY <1>2, <1>3, <2>2 DEF DrainRoom
    <3> QED
      BY <3>1 DEF SwarmInv, RoomInv
  <2> QED
    BY <2>1, <2>2
<1>7. CompletedMeansOk' /\ CancelledIsDying'
  BY <1>1 DEF SwarmInv, CompletedMeansOk, CancelledIsDying
<1>8. ReplayEndsWithDone'
  BY <1>3 DEF SwarmInv, ReplayEndsWithDone, LastOf
<1> QED
  BY <1>3, <1>4, <1>5, <1>6, <1>7, <1>8, <1>a DEF SwarmInv

\* The steps of a drain thread that write the state, or read it and write the
\* row.
LEMMA DrainWriteInv ==
  ASSUME SwarmInv, NEW r \in Runs,
         DrainEnd(r) \/ DrainError(r) \/ DrainRead(r) \/ DrainRecord(r)
  PROVE  SwarmInv'
<1>0. TypeOK /\ state[r] # "absent"
  BY DEF SwarmInv, StartInv, DrainEnd, DrainError, DrainRead, DrainRecord
<1>1. UNCHANGED <<registry, proc, signal, printed, pipe, events, queue, cancel, busy, stream>>
  BY DEF DrainEnd, DrainError, DrainRead, DrainRecord, otherThanDrain
<1>2. /\ state' \in [Runs -> {"absent", "running"} \cup Finals]
      /\ row' \in [Runs -> {"absent", "running"} \cup Finals]
      /\ drain' \in [Runs -> DrainPcs]
      /\ upsert' \in [Runs -> Finals \cup {None}]
      /\ \A q \in Runs \ {r} : state'[q] = state[q] /\ row'[q] = row[q] /\ drain'[q] = drain[q]
                              /\ upsert'[q] = upsert[q]
      /\ state'[r] \in Finals /\ state'[r] # "absent" /\ drain'[r] # "none"
      /\ drain'[r] = "saving" => upsert'[r] \in Finals
      /\ upsert'[r] = "completed" => proc[r] = "ok"
      /\ state'[r] = "completed" \/ row'[r] = "completed" => proc[r] = "ok"
      /\ state'[r] = "cancelled" => state[r] = "cancelled"
      /\ drain'[r] \notin {"line", "done"} /\ drain[r] \notin {"line", "done"}
      /\ drain'[r] \in {"ended", "saving", "finished", "unsaved"} => drain[r] \in {"ended", "saving"}
  <2>1. CASE DrainEnd(r) \/ DrainError(r)
    <3>1. PICK how \in {"none", "ok", "bad"} :
            state' = [state EXCEPT ![r] = FinalState(r, how)] /\ (how = "ok" => proc[r] = "ok")
      <4>1. proc[r] \in {"none", "alive", "ok", "bad"}
        BY <1>0 DEF TypeOK
      <4> QED
        BY <2>1, <4>1 DEF DrainEnd, DrainError
    <3>2. FinalState(r, how) \in {"completed", "failed"} /\ (FinalState(r, how) = "completed" => how = "ok")
      BY DEF FinalState
    <3>3. row' = row /\ upsert' = upsert /\ DrainGoto(r, "stated") /\ drain[r] = "reading"
      BY <2>1 DEF DrainEnd, DrainError
    <3>4. state' \in [Runs -> {"absent", "running"} \cup Finals]
          /\ state'[r] = FinalState(r, how) /\ state'[r] \in Finals
          /\ \A q \in Runs \ {r} : state'[q] = state[q]
      BY <1>0, <3>1, <3>2 DEF TypeOK, Finals
    <3>5. /\ state'[r] \notin {"absent", "cancelled"}
          /\ (state'[r] = "completed" => proc[r] = "ok")
      BY <3>1, <3>2, <3>4
    <3>6. row[r] = "completed" \/ upsert[r] = "completed" => proc[r] = "ok"
      BY DEF SwarmInv, CompletedMeansOk, StatedInv
    <3>7. /\ drain' \in [Runs -> DrainPcs]
          /\ drain'[r] = "stated" /\ \A q \in Runs \ {r} : drain'[q] = drain[q]
      BY <1>0, <3>3, DrainGotoFacts
    <3>8. row' \in [Runs -> {"absent", "running"} \cup Finals] /\ upsert' \in [Runs -> Finals \cup {None}]
      BY <1>0, <3>3 DEF TypeOK
    <3> QED
      BY <3>3, <3>4, <3>5, <3>6, <3>7, <3>8
  <2>2. CASE DrainRead(r)
    <3>1. upsert' = [upsert EXCEPT ![r] = state[r]] /\ state' = state /\ row' = row
          /\ DrainGoto(r, "saving") /\ drain[r] = "ended"
      BY <2>2 DEF DrainRead
    <3>2. state[r] \in Finals
      BY <3>1 DEF SwarmInv, StatedInv, Through
    <3>3. /\ drain' \in [Runs -> DrainPcs]
          /\ drain'[r] = "saving" /\ \A q \in Runs \ {r} : drain'[q] = drain[q]
      BY <1>0, <3>1, DrainGotoFacts
    <3>4. state[r] = "completed" \/ row[r] = "completed" => proc[r] = "ok"
      BY DEF SwarmInv, CompletedMeansOk
    <3>5. /\ upsert' \in [Runs -> Finals \cup {None}] /\ upsert'[r] = state[r]
          /\ \A q \in Runs \ {r} : upsert'[q] = upsert[q]
      BY <1>0, <3>1, <3>2 DEF TypeOK
    <3> QED
      BY <1>0, <3>1, <3>2, <3>3, <3>4, <3>5 DEF TypeOK
  <2>3. CASE DrainRecord(r)
    <3>1. PICK to \in {"finished", "unsaved"} : DrainGoto(r, to)
      BY <2>3 DEF DrainRecord
    <3>2. row' \in {row, [row EXCEPT ![r] = upsert[r]]} /\ state' = state
          /\ upsert' = [upsert EXCEPT ![r] = None] /\ drain[r] = "saving"
      BY <2>3 DEF DrainRecord
    <3>3. state[r] \in Finals /\ upsert[r] \in Finals
      BY <3>2 DEF SwarmInv, StatedInv, Through
    <3>4. upsert[r] = "completed" \/ row[r] = "completed" \/ state[r] = "completed" => proc[r] = "ok"
      BY DEF SwarmInv, CompletedMeansOk, StatedInv
    <3>5. /\ drain' \in [Runs -> DrainPcs]
          /\ drain'[r] = to /\ \A q \in Runs \ {r} : drain'[q] = drain[q]
      BY <1>0, <3>1, DrainGotoFacts
    <3>6. /\ upsert' \in [Runs -> Finals \cup {None}] /\ upsert'[r] = None
          /\ \A q \in Runs \ {r} : upsert'[q] = upsert[q]
      BY <1>0, <3>2 DEF TypeOK
    <3>7. /\ row' \in [Runs -> {"absent", "running"} \cup Finals] /\ row'[r] \in {row[r], upsert[r]}
          /\ \A q \in Runs \ {r} : row'[q] = row[q]
      BY <1>0, <3>2, <3>3 DEF TypeOK
    <3> QED
      BY <1>0, <3>2, <3>3, <3>4, <3>5, <3>6, <3>7 DEF TypeOK, None
  <2> QED
    BY <2>1, <2>2, <2>3
<1>4. TypeOK'
  BY <1>0, <1>1, <1>2 DEF TypeOK
<1>5. CancelInv'
  <2>1. \A q \in Runs : state[q] # "absent" => state'[q] # "absent"
    BY <1>2
  <2> QED
    BY <1>1, <2>1 DEF SwarmInv, CancelInv, Final
<1>a. StartInv' /\ StatedInv' /\ StreamInv' /\ PipeInv'
  BY <1>1, <1>2 DEF SwarmInv, StartInv, StatedInv, StreamInv, PipeInv
<1>6. RoomInv'
  <2>1. \A q \in Runs : DrainRoom(q)' = DrainRoom(q) /\ CancelRoom(q)' = CancelRoom(q)
    BY <1>1, <1>2 DEF DrainRoom, CancelRoom
  <2> QED
    BY <1>1, <2>1 DEF SwarmInv, RoomInv
<1>7. CompletedMeansOk' /\ CancelledIsDying' /\ ReplayEndsWithDone'
  BY <1>1, <1>2 DEF SwarmInv, CompletedMeansOk, CancelledIsDying, ReplayEndsWithDone
<1> QED
  BY <1>4, <1>5, <1>a, <1>6, <1>7 DEF SwarmInv

LEMMA CancelRunInv ==
  ASSUME SwarmInv, NEW c \in Cancels, NEW r \in Runs, CancelRun(c, r)
  PROVE  SwarmInv'
<1>0. TypeOK /\ state[r] = "running" /\ cancel[c].pc = "idle" /\ busy = None /\ None \notin Cancels
  BY SwarmAssumption DEF SwarmInv, CancelRun
<1>1. UNCHANGED <<registry, state, proc, printed, pipe, drain, row, upsert, events, queue, stream>>
  BY DEF CancelRun
<1>2. /\ signal' \in [Runs -> {"none", "term", "kill"}]
      /\ \A q \in Runs : signal[q] = "kill" => signal'[q] = "kill"
  BY <1>0 DEF CancelRun, TypeOK
<1>3. PICK to \in {"waiting", "state"} :
        /\ cancel' = [cancel EXCEPT ![c] = [pc |-> to, run |-> r]]
        /\ busy' = IF to = "state" THEN c ELSE None
        /\ to = "state" => proc[r] # "alive"
  BY <1>0 DEF CancelRun
<1>4. /\ cancel' \in [Cancels -> [pc : CancelPcs, run : Runs \cup {None}]]
      /\ cancel'[c] = [pc |-> to, run |-> r] /\ \A d \in Cancels \ {c} : cancel'[d] = cancel[d]
  BY <1>0, <1>3 DEF TypeOK
<1>5. TypeOK'
  BY <1>0, <1>1, <1>2, <1>3, <1>4 DEF TypeOK
<1>6. CancelInv'
  <2>1. \A d \in Cancels : cancel[d].pc \notin Final
    BY <1>0 DEF SwarmInv, CancelInv
  <2>2. \A d \in Cancels : cancel'[d].pc \in Final <=> busy' = d
    BY <1>0, <1>3, <1>4, <2>1 DEF Final
  <2>3. \A d \in Cancels : cancel'[d].pc # "idle" =>
          cancel'[d].run \in Runs /\ state'[cancel'[d].run] # "absent"
    BY <1>0, <1>1, <1>4 DEF SwarmInv, CancelInv
  <2>4. \A d \in Cancels : cancel'[d].pc \in Final =>
          proc'[cancel'[d].run] # "alive" \/ signal'[cancel'[d].run] = "kill"
    BY <1>1, <1>3, <1>4, <2>1 DEF Final
  <2> QED
    BY <2>2, <2>3, <2>4 DEF CancelInv
<1>7. StartInv' /\ StatedInv' /\ StreamInv' /\ PipeInv' /\ CompletedMeansOk' /\ ReplayEndsWithDone'
  BY <1>1 DEF SwarmInv, StartInv, StatedInv, StreamInv, PipeInv, CompletedMeansOk, ReplayEndsWithDone
<1>8. CancelledIsDying'
  BY <1>1, <1>2 DEF SwarmInv, CancelledIsDying
<1>9. RoomInv'
  <2>1. \A q \in Runs : DrainRoom(q)' = DrainRoom(q) /\ CancelRoom(q)' = CancelRoom(q)
    BY <1>0, <1>1, <1>4 DEF DrainRoom, CancelRoom
  <2> QED
    BY <1>1, <2>1 DEF SwarmInv, RoomInv
<1> QED
  BY <1>5, <1>6, <1>7, <1>8, <1>9 DEF SwarmInv

LEMMA CancelWaitInv ==
  ASSUME SwarmInv, NEW c \in Cancels, CancelWaited(c) \/ CancelTimeout(c)
  PROVE  SwarmInv'
<1> DEFINE r == cancel[c].run
<1>0. TypeOK /\ r \in Runs /\ cancel[c].pc = "waiting" /\ busy = None /\ None \notin Cancels
  BY SwarmAssumption DEF SwarmInv, CancelInv, CancelWaited, CancelTimeout
<1>1. UNCHANGED <<registry, state, proc, printed, pipe, drain, row, upsert, events, queue, stream>>
  BY DEF CancelWaited, CancelTimeout, runVars
<1>2. /\ signal' \in [Runs -> {"none", "term", "kill"}]
      /\ \A q \in Runs : signal[q] = "kill" => signal'[q] = "kill"
      /\ proc[r] # "alive" \/ signal'[r] = "kill"
  BY <1>0 DEF CancelWaited, CancelTimeout, TypeOK, runVars
<1>3. CancelGoto(c, "state") /\ busy' = c
  BY DEF CancelWaited, CancelTimeout
<1>4. /\ cancel' \in [Cancels -> [pc : CancelPcs, run : Runs \cup {None}]]
      /\ cancel'[c].pc = "state" /\ cancel'[c].run = r
      /\ \A d \in Cancels \ {c} : cancel'[d] = cancel[d]
  BY <1>0, <1>3, CancelGotoFacts DEF Final
<1>5. TypeOK'
  BY <1>0, <1>1, <1>2, <1>3, <1>4 DEF TypeOK
<1>6. CancelInv'
  <2>1. \A d \in Cancels : cancel[d].pc \notin Final
    BY <1>0 DEF SwarmInv, CancelInv
  <2>2. \A d \in Cancels : cancel'[d].pc \in Final <=> busy' = d
    BY <1>3, <1>4, <2>1 DEF Final
  <2>3. \A d \in Cancels : cancel'[d].pc # "idle" =>
          cancel'[d].run \in Runs /\ state'[cancel'[d].run] # "absent"
    BY <1>0, <1>1, <1>4 DEF SwarmInv, CancelInv
  <2>4. \A d \in Cancels : cancel'[d].pc \in Final =>
          proc'[cancel'[d].run] # "alive" \/ signal'[cancel'[d].run] = "kill"
    BY <1>1, <1>2, <1>4, <2>1
  <2> QED
    BY <2>2, <2>3, <2>4 DEF CancelInv
<1>7. StartInv' /\ StatedInv' /\ StreamInv' /\ PipeInv' /\ CompletedMeansOk' /\ ReplayEndsWithDone'
  BY <1>1 DEF SwarmInv, StartInv, StatedInv, StreamInv, PipeInv, CompletedMeansOk, ReplayEndsWithDone
<1>8. CancelledIsDying'
  BY <1>1, <1>2 DEF SwarmInv, CancelledIsDying
<1>9. RoomInv'
  <2>1. \A q \in Runs : DrainRoom(q)' = DrainRoom(q) /\ CancelRoom(q)' = CancelRoom(q)
    BY <1>0, <1>1, <1>4 DEF DrainRoom, CancelRoom
  <2> QED
    BY <1>1, <2>1 DEF SwarmInv, RoomInv
<1> QED
  BY <1>5, <1>6, <1>7, <1>8, <1>9 DEF SwarmInv

\* The end of a cancellation, while it has the event loop.
LEMMA CancelFinalInv ==
  ASSUME SwarmInv, NEW c \in Cancels,
         CancelState(c) \/ CancelDone(c) \/ CancelDonePushed(c) \/ CancelRecord(c)
  PROVE  SwarmInv'
<1>a. PICK r \in Runs : r = cancel[c].run
  BY DEF SwarmInv, CancelInv, CancelState, CancelDone, CancelDonePushed, CancelRecord
<1>0. /\ TypeOK /\ cancel[c].pc \in Final /\ state[r] # "absent" /\ busy = c
      /\ r = cancel[c].run /\ r \in Runs
      /\ proc[r] # "alive" \/ signal[r] = "kill"
      /\ \A d \in Cancels \ {c} : cancel[d].pc \notin Final
  BY <1>a DEF SwarmInv, CancelInv, Final, CancelState, CancelDone, CancelDonePushed, CancelRecord
<1>1. UNCHANGED <<registry, proc, signal, printed, pipe, drain, upsert, stream>>
  BY DEF CancelState, CancelDone, CancelDonePushed, CancelRecord, runVars
<1>2. PICK to \in {"stated", "done", "ended", "replied", "unsaved"} :
        /\ CancelGoto(c, to) /\ busy' = IF to \in {"replied", "unsaved"} THEN None ELSE c
        /\ to = "stated" => CancelState(c)
        /\ to = "done" => CancelDone(c)
        /\ to = "ended" => CancelDonePushed(c)
        /\ to \in {"replied", "unsaved"} => CancelRecord(c)
  BY <1>0 DEF CancelState, CancelDone, CancelDonePushed, CancelRecord, CancelGoto
<1>3. /\ cancel' \in [Cancels -> [pc : CancelPcs, run : Runs \cup {None}]]
      /\ cancel'[c].pc = to /\ cancel'[c].run = r
      /\ \A d \in Cancels \ {c} : cancel'[d] = cancel[d]
  BY <1>0, <1>2, CancelGotoFacts DEF Final
<1>4. /\ state' \in [Runs -> {"absent", "running"} \cup Finals]
      /\ row' \in [Runs -> {"absent", "running"} \cup Finals]
      /\ \A q \in Runs : state'[q] = state[q] \/ (q = r /\ state'[q] = "cancelled")
      /\ \A q \in Runs : row'[q] = row[q] \/ (q = r /\ row'[q] = "cancelled")
  <2>1. CASE to = "stated"
    BY <1>0, <1>2, <2>1 DEF CancelState, TypeOK, Finals
  <2>2. CASE to \in {"replied", "unsaved"}
    BY <1>0, <1>2, <2>2 DEF CancelRecord, TypeOK, Finals
  <2>3. CASE to \in {"done", "ended"}
    BY <1>0, <1>2, <2>3 DEF CancelDone, CancelDonePushed, TypeOK, runVars
  <2> QED
    BY <2>1, <2>2, <2>3
<1>5. /\ Len(events[r]) \in Nat /\ MaxEvents \in Nat /\ DrainRoom(r) \in {0, 1}
      /\ DrainRoom(r)' = DrainRoom(r)
      /\ Len(events[r]) + DrainRoom(r) + CancelRoom(r) =< MaxEvents + 1
      /\ CancelRoom(r) = IF cancel[c].pc = "done" THEN 1 ELSE 0
      /\ CancelRoom(r)' = IF to = "done" THEN 1 ELSE 0
      /\ \A q \in Runs \ {r} : CancelRoom(q) = 0 /\ CancelRoom(q)' = 0
  <2>1. events[r] \in Seq(Events) /\ Len(events[r]) \in Nat /\ MaxEvents \in Nat
    BY <1>0, SwarmAssumption DEF TypeOK
  <2>2. DrainRoom(r) \in {0, 1} /\ DrainRoom(r)' = DrainRoom(r)
    BY <1>1 DEF DrainRoom
  <2>3. Len(events[r]) + DrainRoom(r) + CancelRoom(r) =< MaxEvents + 1
    BY <1>0 DEF SwarmInv, RoomInv
  <2>4. \A d \in Cancels \ {c} : cancel[d].pc # "done" /\ cancel'[d].pc # "done"
    BY <1>0, <1>3 DEF Final
  <2>5. /\ CancelRoom(r) = IF cancel[c].pc = "done" THEN 1 ELSE 0
        /\ CancelRoom(r)' = IF to = "done" THEN 1 ELSE 0
    BY <1>0, <1>3, <2>4 DEF CancelRoom
  <2>6. \A q \in Runs \ {r} : CancelRoom(q) = 0 /\ CancelRoom(q)' = 0
    BY <1>0, <1>3, <2>4 DEF CancelRoom
  <2> QED
    BY <2>1, <2>2, <2>3, <2>5, <2>6
<1>6. /\ events' \in [Runs -> Seq(Events)] /\ queue' \in [Runs -> Seq(Events \cup {Sentinel})]
      /\ \A q \in Runs \ {r} : events'[q] = events[q]
      /\ Len(events'[r]) + DrainRoom(r) + CancelRoom(r)' =< MaxEvents + 1
      /\ \/ events'[r] # <<>> /\ LastOf(events'[r]) = Done
         \/ events[r] # <<>> => events'[r] # <<>> /\ LastOf(events'[r]) = LastOf(events[r])
  <2>1. CASE to = "done"
    <3>1. MakeRoom(r) /\ queue' = queue /\ cancel[c].pc = "stated"
      BY <1>0, <1>2, <2>1 DEF CancelDone
    <3>2. /\ events' \in [Runs -> Seq(Events)] /\ \A q \in Runs \ {r} : events'[q] = events[q]
          /\ \/ Len(events'[r]) = Len(events[r]) - 1
             \/ Len(events'[r]) = Len(events[r]) /\ Len(events[r]) < MaxEvents
          /\ events[r] # <<>> => events'[r] # <<>> /\ LastOf(events'[r]) = LastOf(events[r])
      BY <1>0, <3>1, MakeRoomFacts
    <3>3. Len(events'[r]) + DrainRoom(r) + CancelRoom(r)' =< MaxEvents + 1
      BY <1>5, <2>1, <3>1, <3>2
    <3>4. queue' \in [Runs -> Seq(Events \cup {Sentinel})]
      BY <1>0, <3>1 DEF TypeOK
    <3> QED
      BY <3>2, <3>3, <3>4
  <2>2. CASE to = "ended"
    <3>1. AppendEvent(r, Done) /\ cancel[c].pc = "done" /\ Done \in Events
      BY <1>0, <1>2, <2>2, SwarmAssumption DEF CancelDonePushed, Done, Events
    <3>2. /\ events' \in [Runs -> Seq(Events)] /\ \A q \in Runs \ {r} : events'[q] = events[q]
          /\ queue' \in [Runs -> Seq(Events \cup {Sentinel})]
          /\ Len(events'[r]) = Len(events[r]) + 1
          /\ events'[r] # <<>> /\ LastOf(events'[r]) = Done
      BY <1>0, <3>1, AppendFacts
    <3>3. Len(events'[r]) + DrainRoom(r) + CancelRoom(r)' =< MaxEvents + 1
      BY <1>5, <2>2, <3>1, <3>2
    <3> QED
      BY <3>2, <3>3
  <2>3. CASE to \in {"stated", "replied", "unsaved"}
    <3>1. events' = events /\ queue' = queue /\ cancel[c].pc # "done"
      BY <1>2, <2>3 DEF CancelState, CancelRecord
    <3>2. Len(events'[r]) + DrainRoom(r) + CancelRoom(r)' =< MaxEvents + 1
      BY <1>5, <2>3, <3>1
    <3>3. events' \in [Runs -> Seq(Events)] /\ queue' \in [Runs -> Seq(Events \cup {Sentinel})]
      BY <1>0, <3>1 DEF TypeOK
    <3> QED
      BY <3>1, <3>2, <3>3
  <2> QED
    BY <2>1, <2>2, <2>3
<1>7. TypeOK'
  BY <1>0, <1>1, <1>2, <1>3, <1>4, <1>6 DEF TypeOK
<1>8. CancelInv'
  <2>1. \A d \in Cancels : cancel'[d].pc \in Final <=> busy' = d
    BY <1>0, <1>2, <1>3, SwarmAssumption DEF Final
  <2>2. \A d \in Cancels : cancel'[d].run = cancel[d].run /\ (cancel'[d].pc # "idle" => cancel[d].pc # "idle")
    BY <1>0, <1>3 DEF Final
  <2>3. \A d \in Cancels : cancel'[d].pc # "idle" =>
          cancel'[d].run \in Runs /\ state'[cancel'[d].run] # "absent"
    BY <1>4, <2>2 DEF SwarmInv, CancelInv
  <2>4. \A d \in Cancels : cancel'[d].pc \in Final =>
          proc'[cancel'[d].run] # "alive" \/ signal'[cancel'[d].run] = "kill"
    BY <1>0, <1>1, <1>3
  <2> QED
    BY <2>1, <2>3, <2>4 DEF CancelInv
<1>9. StartInv' /\ StreamInv' /\ PipeInv'
  BY <1>0, <1>1, <1>4 DEF SwarmInv, StartInv, StreamInv, PipeInv
<1>13. StatedInv'
  BY <1>0, <1>1, <1>4 DEF SwarmInv, StatedInv, Finals
<1>10. CompletedMeansOk' /\ CancelledIsDying'
  BY <1>0, <1>1, <1>4 DEF SwarmInv, CompletedMeansOk, CancelledIsDying
<1>11. ReplayEndsWithDone'
  BY <1>1, <1>6 DEF SwarmInv, ReplayEndsWithDone, LastOf
<1>12. RoomInv'
  <2> SUFFICES ASSUME NEW q \in Runs
               PROVE  Len(events'[q]) + DrainRoom(q)' + CancelRoom(q)' =< MaxEvents + 1
    BY DEF RoomInv
  <2>1. CASE q = r
    BY <1>5, <1>6, <2>1
  <2>2. CASE q # r
    <3>1. events'[q] = events[q] /\ DrainRoom(q)' = DrainRoom(q) /\ CancelRoom(q)' = CancelRoom(q)
      BY <1>1, <1>5, <1>6, <2>2 DEF DrainRoom
    <3> QED
      BY <3>1 DEF SwarmInv, RoomInv
  <2> QED
    BY <2>1, <2>2
<1> QED
  BY <1>7, <1>8, <1>9, <1>10, <1>11, <1>12, <1>13 DEF SwarmInv

LEMMA SwarmNext == SwarmInv /\ [Next]_vars => SwarmInv'
<1> SUFFICES ASSUME SwarmInv, [Next]_vars PROVE SwarmInv'
  OBVIOUS
<1>1. CASE UNCHANGED vars
  <2>1. TypeOK'
    BY <1>1 DEF vars, SwarmInv, TypeOK
  <2>2. CancelInv' /\ StartInv' /\ StatedInv' /\ StreamInv'
    BY <1>1 DEF vars, SwarmInv, CancelInv, StartInv, StatedInv, StreamInv
  <2>3. RoomInv'
    BY <1>1 DEF vars, SwarmInv, RoomInv, DrainRoom, CancelRoom
  <2>4. PipeInv'
    BY <1>1 DEF vars, SwarmInv, PipeInv
  <2>5. CompletedMeansOk' /\ CancelledIsDying' /\ ReplayEndsWithDone'
    BY <1>1 DEF vars, SwarmInv, CompletedMeansOk, CancelledIsDying, ReplayEndsWithDone, LastOf
  <2> QED
    BY <2>1, <2>2, <2>3, <2>4, <2>5 DEF SwarmInv
<1> QED
  BY <1>1, StartRunInv, ProcessInv, DrainPushInv, DrainWriteInv, CancelRunInv, CancelWaitInv,
     CancelFinalInv, StreamStepInv DEF Next, Drain, CancelStep

LEMMA SwarmAlways == SafetySpec => []SwarmInv
BY SwarmInit, SwarmNext, PTL DEF SafetySpec

\* Types, for all constants.
THEOREM TypeCorrect == SafetySpec => []TypeOK
BY SwarmAlways, PTL DEF SwarmInv

\* The event list passes its limit by one at most, however the drain thread
\* and the cancellations of a run meet in _push_event.
THEOREM EventListBound == SafetySpec => []EventsBounded
<1>1. SwarmInv => EventsBounded
  <2> SUFFICES ASSUME SwarmInv, NEW r \in Runs PROVE Len(events[r]) =< MaxEvents + 1
    BY DEF EventsBounded
  <2>1. Len(events[r]) \in Nat /\ DrainRoom(r) \in {0, 1} /\ CancelRoom(r) \in {0, 1} /\ MaxEvents \in Nat
    BY SwarmAssumption DEF SwarmInv, TypeOK, DrainRoom, CancelRoom
  <2>2. Len(events[r]) + DrainRoom(r) + CancelRoom(r) =< MaxEvents + 1
    BY DEF SwarmInv, RoomInv
  <2> QED
    BY <2>1, <2>2
<1> QED
  BY <1>1, SwarmAlways, PTL

\* What memory and history say of the end of a run is true of its process.
THEOREM ReportsTrue == SafetySpec => [](CompletedMeansOk /\ CancelledIsDying)
BY SwarmAlways, PTL DEF SwarmInv

\* The event list of a drained run ends with done, for any interleaving with
\* cancellations and any number of dropped events.
THEOREM ReplayComplete == SafetySpec => []ReplayEndsWithDone
BY SwarmAlways, PTL DEF SwarmInv

\* The process of a run reported as cancelled is dead or dying, whatever the
\* drain thread makes of the state meanwhile.
THEOREM CancelledDies == SafetySpec => []CancelledIsDying
BY SwarmAlways, PTL DEF SwarmInv

-----------------------------------------------------------------------------
(* The history rows settle *)

\* A row that the drain thread or a cancellation has written is final.
SettledInv ==
  /\ \A r \in Runs : drain[r] = "finished" => row[r] \in Finals
  /\ \A c \in Cancels : cancel[c].pc = "replied" => row[cancel[c].run] \in Finals

\* What a step may do to a row: a run that starts writes the first state, and
\* all others who write bring a final one.
LEMMA RowSteps ==
  ASSUME SwarmInv, [Next]_vars
  PROVE  /\ \A r \in Runs : row'[r] = row[r] \/ row'[r] \in Finals \/ (state[r] = "absent" /\ StartRun(r))
         /\ \A r \in Runs : drain'[r] = "finished" => drain[r] = "finished" \/ row'[r] \in Finals
         /\ \A c \in Cancels : cancel'[c].pc = "replied" =>
              /\ cancel'[c].run = cancel[c].run
              /\ cancel[c].pc = "replied" \/ row'[cancel[c].run] \in Finals
<1>0. TypeOK
  BY DEF SwarmInv
<1>1. ASSUME NEW q \in Runs, StartRun(q)
      PROVE  /\ \A r \in Runs \ {q} : row'[r] = row[r] /\ drain'[r] = drain[r]
             /\ state[q] = "absent" /\ drain'[q] = "reading" /\ cancel' = cancel
  BY <1>0, <1>1 DEF StartRun, TypeOK
<1>2. ASSUME NEW q \in Runs, PrintLine(q) \/ \E how \in {"ok", "bad"} : Exit(q, how)
      PROVE  UNCHANGED <<row, drain, cancel>>
  BY <1>2 DEF PrintLine, Exit
<1>3. ASSUME NEW q \in Runs, DrainLine(q) \/ DrainLinePushed(q) \/ DrainDone(q) \/ DrainDonePushed(q)
                              \/ DrainEnd(q) \/ DrainError(q) \/ DrainRead(q)
      PROVE  /\ row' = row /\ cancel' = cancel
             /\ \A r \in Runs : drain'[r] = "finished" => drain[r] = "finished"
  <2>1. PICK to \in {"line", "reading", "done", "ended", "stated", "saving"} : DrainGoto(q, to)
    BY <1>3 DEF DrainLine, DrainLinePushed, DrainDone, DrainDonePushed, DrainEnd, DrainError, DrainRead
  <2>2. drain'[q] = to /\ \A r \in Runs \ {q} : drain'[r] = drain[r]
    BY <1>0, <2>1, DrainGotoFacts
  <2> QED
    BY <1>3, <2>2 DEF DrainLine, DrainLinePushed, DrainDone, DrainDonePushed, DrainEnd, DrainError,
       DrainRead, otherThanDrain
<1>4. ASSUME NEW q \in Runs, DrainRecord(q)
      PROVE  /\ cancel' = cancel
             /\ \A r \in Runs : row'[r] = row[r] \/ row'[r] \in Finals
             /\ \A r \in Runs : drain'[r] = "finished" => drain[r] = "finished" \/ row'[r] \in Finals
  <2>1. upsert[q] \in Finals
    BY <1>4 DEF DrainRecord, SwarmInv, StatedInv
  <2> QED
    BY <1>0, <1>4, <2>1 DEF DrainRecord, DrainGoto, otherThanDrain, TypeOK
<1>5. ASSUME NEW c \in Cancels, CancelRecord(c)
      PROVE  /\ drain' = drain /\ \A r \in Runs : row'[r] = row[r] \/ row'[r] \in Finals
             /\ \A d \in Cancels : cancel'[d].pc = "replied" =>
                  /\ cancel'[d].run = cancel[d].run
                  /\ cancel[d].pc = "replied" \/ row'[cancel[d].run] \in Finals
  <2>1. cancel[c].run \in Runs
    BY <1>5 DEF CancelRecord, SwarmInv, CancelInv
  <2>2. PICK to \in {"replied", "unsaved"} :
          /\ CancelGoto(c, to)
          /\ to = "replied" => row' = [row EXCEPT ![cancel[c].run] = "cancelled"]
          /\ to = "unsaved" => row' = row
    BY <1>5 DEF CancelRecord
  <2>3. /\ cancel'[c].pc = to /\ cancel'[c].run = cancel[c].run
        /\ \A d \in Cancels \ {c} : cancel'[d] = cancel[d]
    BY <1>0, <2>2, CancelGotoFacts
  <2>4. /\ \A r \in Runs : row'[r] = row[r] \/ row'[r] \in Finals
        /\ to = "replied" => row'[cancel[c].run] \in Finals
    BY <1>0, <2>1, <2>2 DEF TypeOK, Finals
  <2>5. drain' = drain
    BY <1>5 DEF CancelRecord
  <2> QED
    BY <2>3, <2>4, <2>5
<1>6. ASSUME NEW c \in Cancels,
             CancelWaited(c) \/ CancelTimeout(c) \/ CancelState(c) \/ CancelDone(c) \/ CancelDonePushed(c)
      PROVE  /\ row' = row /\ drain' = drain
             /\ \A d \in Cancels : cancel'[d].pc = "replied" => cancel'[d] = cancel[d]
  <2>1. PICK to \in Final : CancelGoto(c, to)
    BY <1>6 DEF CancelWaited, CancelTimeout, CancelState, CancelDone, CancelDonePushed, Final
  <2>2. cancel'[c].pc = to /\ \A d \in Cancels \ {c} : cancel'[d] = cancel[d]
    BY <1>0, <2>1, CancelGotoFacts
  <2>3. row' = row /\ drain' = drain
    BY <1>6 DEF CancelWaited, CancelTimeout, CancelState, CancelDone, CancelDonePushed, runVars
  <2> QED
    BY <2>2, <2>3 DEF Final
<1>7. ASSUME NEW c \in Cancels, NEW r \in Runs, CancelRun(c, r)
      PROVE  /\ row' = row /\ drain' = drain
             /\ \A d \in Cancels : cancel'[d].pc = "replied" => cancel'[d] = cancel[d]
  BY <1>0, <1>7 DEF CancelRun, TypeOK
<1>8. ASSUME NEW s \in Streams, StreamStep(s) \/ Leave(s) \/ \E r \in Runs : Attach(s, r)
      PROVE  UNCHANGED <<row, drain, cancel>>
  BY <1>8 DEF StreamStep, Replay, Follow, Get, Heartbeat, Leave, Attach, otherThanStream, runVars
<1>9. CASE UNCHANGED vars
  BY <1>9 DEF vars
<1>10. CASE \E q \in Runs : StartRun(q)
  BY <1>1, <1>10
<1>11. CASE \E q \in Runs : PrintLine(q) \/ Drain(q) \/ \E how \in {"ok", "bad"} : Exit(q, how)
  BY <1>2, <1>3, <1>4, <1>11 DEF Drain
<1>12. CASE \E c \in Cancels : CancelStep(c) \/ \E r \in Runs : CancelRun(c, r)
  BY <1>5, <1>6, <1>7, <1>12 DEF CancelStep
<1> QED
  BY <1>8, <1>9, <1>10, <1>11, <1>12 DEF Next

LEMMA SettledNext == SwarmInv /\ SettledInv /\ [Next]_vars => SettledInv'
<1> SUFFICES ASSUME SwarmInv, SettledInv, [Next]_vars PROVE SettledInv'
  OBVIOUS
<1>1. /\ \A r \in Runs : row'[r] = row[r] \/ row'[r] \in Finals \/ (state[r] = "absent" /\ StartRun(r))
      /\ \A r \in Runs : drain'[r] = "finished" => drain[r] = "finished" \/ row'[r] \in Finals
      /\ \A c \in Cancels : cancel'[c].pc = "replied" =>
           /\ cancel'[c].run = cancel[c].run
           /\ cancel[c].pc = "replied" \/ row'[cancel[c].run] \in Finals
  BY RowSteps
<1>2. \A r \in Runs : drain[r] = "finished" => state[r] # "absent"
  BY DEF SwarmInv, StartInv
<1>3. \A c \in Cancels : cancel[c].pc = "replied" => cancel[c].run \in Runs /\ state[cancel[c].run] # "absent"
  BY DEF SwarmInv, CancelInv
<1> QED
  BY <1>1, <1>2, <1>3 DEF SettledInv

\* A row that the drain thread or a cancellation has written is final and
\* stays so, whether or not the run is still registered, whoever writes later,
\* and whichever writes of the history fail.
THEOREM RowsSettle == SafetySpec => []RowsSettled
<1>1. Init => SettledInv
  BY DEF Init, SettledInv
<1>2. SettledInv => RowsSettled
  BY DEF SettledInv, RowsSettled
<1> QED
  BY <1>1, <1>2, SwarmAlways, SettledNext, PTL DEF SafetySpec

-----------------------------------------------------------------------------
(* The lone viewer.  A run that nobody cancels and whose lines fit the list *)
(* numbers its events: the lines in order, then done, then the sentinel of *)
(* the queue.  The list holds them from the first, the queue those that no *)
(* stream has taken, and a viewer who is alone has what is missing there.  *)

Quiet(r) ==
  printed[r] < MaxEvents /\ \A c \in Cancels : cancel[c].pc = "idle" \/ cancel[c].run # r

Alone(s) == \A z \in Streams \ {s} : stream[z].run # stream[s].run

Ended(r) == drain[r] \in {"ended", "saving", "finished", "unsaved"}

\* The lines whose events have been pushed.
Pushed(r) == printed[r] - pipe[r] - (IF drain[r] = "line" THEN 1 ELSE 0)

\* What comes i-th when p lines have been pushed.
Item(p, i) == IF i =< p THEN i ELSE IF i = p + 1 THEN Done ELSE Sentinel

\* How many items the streams have taken out of the queue.
Taken(r) ==
  IF Ended(r) THEN Pushed(r) + 2 - Len(queue[r]) ELSE Pushed(r) - Len(queue[r])

KeptInOrder(r) ==
  /\ Len(events[r]) = IF Ended(r) THEN Pushed(r) + 1 ELSE Pushed(r)
  /\ \A i \in 1..Len(events[r]) : events[r][i] = Item(Pushed(r), i)

QueuedInOrder(r) ==
  /\ Taken(r) >= 0
  /\ \A j \in 1..Len(queue[r]) : queue[r][j] = Item(Pushed(r), Taken(r) + j)

Untouched(r) == (\A s \in Streams : stream[s].run # r) => Taken(r) = 0

QuietInv == \A r \in Runs : Quiet(r) => KeptInOrder(r) /\ QueuedInOrder(r) /\ Untouched(r)

\* What was got and what is left of the replay are the list as it was, and the
\* queue lacks nothing that the replay does not bring.
Replaying(s, r) ==
  LET k == Len(stream[s].got)
      left == stream[s].left
  IN  /\ Taken(r) =< Pushed(r) /\ Taken(r) =< k + Len(left)
      /\ k =< Pushed(r) /\ k + Len(left) =< Len(events[r])
      /\ \A i \in 1..k : stream[s].got[i] = i
      /\ \A j \in 1..Len(left) : left[j] = Item(Pushed(r), k + j)

\* All that was taken out of the queue has been got.
Following(s, r) ==
  Taken(r) =< Pushed(r) /\ 1..Taken(r) \subseteq Got(s) /\ Done \notin Got(s)

\* Either all has been got, or neither done nor the sentinel has been taken.
Closed(s, r) ==
  IF Done \in Got(s) THEN Ended(r) /\ 1..Pushed(r) \subseteq Got(s) ELSE Taken(r) =< Pushed(r)

Viewer(s, r) ==
  /\ stream[s].pc = "replay" => Replaying(s, r)
  /\ stream[s].pc \in {"follow", "get"} => Following(s, r)
  /\ stream[s].pc = "closed" => Closed(s, r)
  /\ stream[s].pc \in {"gone", "refused"} => Done \notin Got(s)

ViewerInv ==
  \A s \in Streams, r \in Runs : Quiet(r) /\ stream[s].run = r /\ Alone(s) => Viewer(s, r)

IdleInv == \A s \in Streams : stream[s].pc = "idle" => stream[s] = NoStream

LEMMA PushedType ==
  ASSUME SwarmInv, NEW r \in Runs
  PROVE  /\ Pushed(r) \in Nat /\ Pushed(r) =< printed[r] /\ printed[r] \in Nat /\ pipe[r] \in Nat
         /\ Len(queue[r]) \in Nat /\ Len(events[r]) \in Nat /\ Taken(r) \in Int
         /\ Ended(r) => Pushed(r) = printed[r] - pipe[r]
<1>1. printed[r] \in Nat /\ pipe[r] \in Nat /\ pipe[r] =< printed[r]
      /\ (drain[r] = "line" => pipe[r] < printed[r])
  BY SwarmAssumption DEF SwarmInv, TypeOK, PipeInv
<1>2. Len(queue[r]) \in Nat /\ Len(events[r]) \in Nat
  BY DEF SwarmInv, TypeOK
<1>3. /\ Pushed(r) \in Nat /\ Pushed(r) =< printed[r]
      /\ Ended(r) => Pushed(r) = printed[r] - pipe[r]
  <2>1. CASE drain[r] = "line"
    BY <1>1, <2>1 DEF Pushed, Ended
  <2>2. CASE drain[r] # "line"
    BY <1>1, <2>2 DEF Pushed
  <2> QED
    BY <2>1, <2>2
<1>4. Taken(r) \in Int
  <2>1. Pushed(r) + 2 - Len(queue[r]) \in Int /\ Pushed(r) - Len(queue[r]) \in Int
    BY <1>2, <1>3
  <2> QED
    BY <2>1 DEF Taken
<1> QED
  BY <1>1, <1>2, <1>3, <1>4

\* What a step of the process or of the drain thread does to a quiet run.
Still(r) ==
  /\ Pushed(r)' = Pushed(r) /\ (Ended(r)' <=> Ended(r))
  /\ events'[r] = events[r] /\ queue'[r] = queue[r]

PushesLine(r) ==
  /\ Pushed(r)' = Pushed(r) + 1 /\ ~Ended(r) /\ ~Ended(r)'
  /\ events'[r] = Append(events[r], Pushed(r) + 1)
  /\ queue'[r] = queue[r] \o <<Pushed(r) + 1>>

PushesDone(r) ==
  /\ Pushed(r)' = Pushed(r) /\ ~Ended(r) /\ Ended(r)'
  /\ events'[r] = Append(events[r], Done)
  /\ queue'[r] = queue[r] \o <<Done, Sentinel>>

\* Other runs are left alone.
LEMMA OtherRunStill ==
  ASSUME SwarmInv, NEW r \in Runs,
         printed'[r] = printed[r], pipe'[r] = pipe[r], drain'[r] = drain[r],
         events'[r] = events[r], queue'[r] = queue[r]
  PROVE  Still(r)
BY DEF Still, Pushed, Ended

LEMMA RunStep ==
  ASSUME SwarmInv, NEW q \in Runs,
         StartRun(q) \/ PrintLine(q) \/ Drain(q) \/ \E how \in {"ok", "bad"} : Exit(q, how),
         NEW r \in Runs, Quiet(r)', Quiet(r) => KeptInOrder(r)
  PROVE  Quiet(r) /\ (Still(r) \/ PushesLine(r) \/ PushesDone(r))
<1>0. TypeOK /\ printed \in [Runs -> 0..MaxLines] /\ pipe \in [Runs -> 0..MaxLines]
      /\ drain \in [Runs -> DrainPcs]
      /\ events \in [Runs -> Seq(Events)] /\ queue \in [Runs -> Seq(Events \cup {Sentinel})]
      /\ MaxEvents \in Nat /\ MaxLines \in Nat
  BY SwarmAssumption DEF SwarmInv, TypeOK
<1>1. Pushed(r) \in Nat /\ Pushed(r) =< printed[r] /\ Len(events[r]) \in Nat
      /\ printed[r] \in Nat /\ pipe[r] \in Nat
  BY PushedType
<1>2. cancel' = cancel /\ \A x \in Runs \ {q} :
        /\ printed'[x] = printed[x] /\ pipe'[x] = pipe[x] /\ drain'[x] = drain[x]
        /\ events'[x] = events[x] /\ queue'[x] = queue[x]
  <2>1. CASE StartRun(q)
    BY <1>0, <2>1 DEF StartRun
  <2>2. CASE PrintLine(q) \/ \E how \in {"ok", "bad"} : Exit(q, how)
    BY <1>0, <2>2 DEF PrintLine, Exit
  <2>3. CASE DrainLine(q) \/ DrainDone(q)
    BY <1>0, <2>3 DEF DrainLine, DrainDone, MakeRoom, DrainGoto, otherThanDrain
  <2>4. CASE DrainLinePushed(q) \/ DrainDonePushed(q)
    BY <1>0, <2>4 DEF DrainLinePushed, DrainDonePushed, AppendEvent, DrainGoto, otherThanDrain
  <2>5. CASE DrainEnd(q) \/ DrainError(q) \/ DrainRead(q) \/ DrainRecord(q)
    BY <1>0, <2>5 DEF DrainEnd, DrainError, DrainRead, DrainRecord, DrainGoto, otherThanDrain
  <2> QED
    BY <2>1, <2>2, <2>3, <2>4, <2>5 DEF Drain
<1>3. CASE q # r
  BY <1>2, <1>3, OtherRunStill DEF Quiet
<1>4. CASE q = r
  <2>1. CASE StartRun(r)
    <3>1. drain[r] = "none" /\ drain'[r] = "reading"
          /\ UNCHANGED <<printed, pipe, events, queue, cancel>>
      BY <1>0, <2>1 DEF StartRun, SwarmInv, StartInv
    <3> QED
      BY <3>1 DEF Still, Quiet, Pushed, Ended
  <2>2. CASE PrintLine(r)
    <3>1. /\ printed'[r] = printed[r] + 1 /\ pipe'[r] = pipe[r] + 1
          /\ UNCHANGED <<drain, events, queue, cancel>>
      BY <1>0, <2>2 DEF PrintLine
    <3>2. Quiet(r)
      BY <1>0, <1>1, <3>1 DEF Quiet
    <3>3. Pushed(r)' = Pushed(r) /\ (Ended(r)' <=> Ended(r))
      BY <1>1, <3>1 DEF Pushed, Ended
    <3> QED
      BY <3>1, <3>2, <3>3 DEF Still
  <2>3. CASE \E how \in {"ok", "bad"} : Exit(r, how)
    BY <2>3 DEF Exit, Still, Quiet, Pushed, Ended
  <2>4. ASSUME Drain(r) PROVE Quiet(r) /\ KeptInOrder(r) /\ printed' = printed
    BY <1>2, <2>4 DEF Drain, DrainLine, DrainLinePushed, DrainEnd, DrainError, DrainDone,
       DrainDonePushed, DrainRead, DrainRecord, otherThanDrain, Quiet
  <2>5. CASE DrainLine(r) \/ DrainDone(r)
    <3>1. Drain(r)
      BY <2>5 DEF Drain
    <3>2. drain[r] \in {"reading", "stated"} /\ ~Ended(r) /\ ~Ended(r)' /\ queue' = queue
      BY <1>0, <2>5 DEF DrainLine, DrainDone, DrainGoto, Ended
    <3>3. Len(events[r]) < MaxEvents
      BY <1>0, <1>1, <2>4, <3>1, <3>2 DEF Quiet, KeptInOrder
    <3>4. events'[r] = events[r]
      BY <1>0, <2>5, <3>3 DEF DrainLine, DrainDone, MakeRoom
    <3>5. Pushed(r)' = Pushed(r)
      <4>1. CASE DrainLine(r)
        <5>1. pipe'[r] = pipe[r] - 1 /\ drain'[r] = "line" /\ drain[r] = "reading" /\ printed' = printed
          BY <1>0, <4>1, <2>4, <3>1 DEF DrainLine, DrainGoto
        <5> QED
          BY <1>1, <5>1 DEF Pushed
      <4>2. CASE DrainDone(r)
        <5>1. pipe' = pipe /\ drain'[r] = "done" /\ drain[r] = "stated" /\ printed' = printed
          BY <1>0, <4>2, <2>4, <3>1 DEF DrainDone, DrainGoto
        <5> QED
          BY <1>1, <5>1 DEF Pushed
      <4> QED
        BY <2>5, <4>1, <4>2
    <3> QED
      BY <2>4, <3>1, <3>2, <3>4, <3>5 DEF Still
  <2>6. CASE DrainLinePushed(r)
    <3>1. Drain(r)
      BY <2>6 DEF Drain
    <3>2. pipe' = pipe /\ drain'[r] = "reading" /\ drain[r] = "line" /\ printed' = printed
      BY <1>0, <2>6, <2>4, <3>1 DEF DrainLinePushed, DrainGoto
    <3>3. Pushed(r) = printed[r] - pipe[r] - 1 /\ Pushed(r)' = printed[r] - pipe[r]
          /\ ~Ended(r) /\ ~Ended(r)'
      BY <1>1, <3>2 DEF Pushed, Ended
    <3>4. printed[r] - pipe[r] = Pushed(r) + 1 /\ Pushed(r) + 1 # Done /\ Pushed(r)' = Pushed(r) + 1
      BY <1>1, <3>3 DEF Done
    <3>5. AppendEvent(r, Pushed(r) + 1)
      BY <2>6, <3>4 DEF DrainLinePushed
    <3>6. events'[r] = Append(events[r], Pushed(r) + 1) /\ queue'[r] = queue[r] \o <<Pushed(r) + 1>>
      BY <1>0, <3>4, <3>5 DEF AppendEvent
    <3> QED
      BY <2>4, <3>1, <3>3, <3>4, <3>6 DEF PushesLine
  <2>7. CASE DrainDonePushed(r)
    <3>1. Drain(r)
      BY <2>7 DEF Drain
    <3>2. pipe' = pipe /\ drain'[r] = "ended" /\ drain[r] = "done" /\ printed' = printed
      BY <1>0, <2>7, <2>4, <3>1 DEF DrainDonePushed, DrainGoto
    <3>3. Pushed(r)' = Pushed(r) /\ ~Ended(r) /\ Ended(r)'
      BY <1>1, <3>2 DEF Pushed, Ended
    <3>4. events'[r] = Append(events[r], Done) /\ queue'[r] = queue[r] \o <<Done, Sentinel>>
      BY <1>0, <2>7 DEF AppendEvent, DrainDonePushed
    <3> QED
      BY <2>4, <3>1, <3>3, <3>4 DEF PushesDone
  <2>8. CASE DrainEnd(r) \/ DrainError(r) \/ DrainRead(r) \/ DrainRecord(r)
    <3>1. Drain(r)
      BY <2>8 DEF Drain
    <3>2. UNCHANGED <<pipe, events, queue, printed>>
      BY <2>4, <2>8, <3>1 DEF DrainEnd, DrainError, DrainRead, DrainRecord
    <3>3. Ended(r)' <=> Ended(r)
      BY <1>0, <2>8 DEF DrainEnd, DrainError, DrainRead, DrainRecord, DrainGoto, Ended
    <3>4. drain[r] # "line" /\ drain'[r] # "line"
      BY <1>0, <2>8 DEF DrainEnd, DrainError, DrainRead, DrainRecord, DrainGoto
    <3> QED
      BY <2>4, <3>1, <3>2, <3>3, <3>4 DEF Still, Pushed
  <2> QED
    BY <1>4, <2>1, <2>2, <2>3, <2>5, <2>6, <2>7, <2>8 DEF Drain
<1> QED
  BY <1>3, <1>4

LEMMA ItemFacts ==
  ASSUME NEW p \in Nat, NEW i \in Int
  PROVE  /\ i =< p => Item(p, i) = i /\ Item(p + 1, i) = i
         /\ Item(p, p + 1) = Done /\ Item(p, p + 2) = Sentinel /\ Item(p + 1, p + 1) = p + 1
         /\ Item(p, i) = Done => i = 0 \/ i = p + 1
<1>1. CASE i =< p
  BY <1>1 DEF Item, Done
<1>2. CASE i = p + 1
  BY <1>2 DEF Item, Done
<1>3. CASE i > p + 1
  BY <1>3 DEF Item, Done, Sentinel
<1>4. Item(p, p + 1) = Done /\ Item(p, p + 2) = Sentinel /\ Item(p + 1, p + 1) = p + 1
  BY DEF Item
<1> QED
  BY <1>1, <1>2, <1>3, <1>4

LEMMA AppendTwo ==
  ASSUME NEW S, NEW q \in Seq(S), NEW a \in S, NEW b \in S
  PROVE  /\ Len(q \o <<a, b>>) = Len(q) + 2 /\ q \o <<a, b>> \in Seq(S)
         /\ (q \o <<a, b>>)[Len(q) + 1] = a /\ (q \o <<a, b>>)[Len(q) + 2] = b
         /\ \A i \in 1..Len(q) : (q \o <<a, b>>)[i] = q[i]
<1> DEFINE more == <<a, b>>
<1>1. more \in Seq(S) /\ Len(more) = 2 /\ more[1] = a /\ more[2] = b
  OBVIOUS
<1> HIDE DEF more
<1>2. Len(q) \in Nat /\ Len(q \o more) = Len(q) + 2 /\ q \o more \in Seq(S)
  <2>1. q \o more \in Seq(S) /\ Len(q \o more) = Len(q) + Len(more)
    BY <1>1, ConcatProperties
  <2>2. Len(q) \in Nat
    OBVIOUS
  <2> QED
    BY <1>1, <2>1, <2>2
<1>3. \A i \in 1..Len(q) : (q \o more)[i] = q[i]
  BY <1>1
<1>4. (q \o more)[Len(q) + 1] = more[1] /\ (q \o more)[Len(q) + 2] = more[2]
  BY <1>1, <1>2
<1> QED
  BY <1>1, <1>2, <1>3, <1>4 DEF more

\* The numbering is kept, and nothing is taken, whoever pushes.
LEMMA QuietGrows ==
  ASSUME SwarmInv, SwarmInv', NEW r \in Runs, KeptInOrder(r), QueuedInOrder(r),
         Still(r) \/ PushesLine(r) \/ PushesDone(r)
  PROVE  /\ KeptInOrder(r)' /\ QueuedInOrder(r)' /\ Taken(r)' = Taken(r)
         /\ Pushed(r) =< Pushed(r)' /\ Len(events[r]) =< Len(events'[r])
         /\ Ended(r) => Ended(r)' /\ Pushed(r)' = Pushed(r)
         /\ \A i \in 1..Len(events[r]) : Item(Pushed(r)', i) = Item(Pushed(r), i)
<1> DEFINE p == Pushed(r)
           n == Len(queue[r])
           m == Len(events[r])
           t == Taken(r)
<1>1. /\ p \in Nat /\ n \in Nat /\ m \in Nat /\ t \in Int
      /\ events[r] \in Seq(Events) /\ queue[r] \in Seq(Events \cup {Sentinel})
  BY PushedType DEF SwarmInv, TypeOK
<1>a. /\ t >= 0 /\ \A j \in 1..n : queue[r][j] = Item(p, t + j)
      /\ \A i \in 1..m : events[r][i] = Item(p, i)
      /\ ~Ended(r) => m = p /\ t = p - n
  BY DEF KeptInOrder, QueuedInOrder, Taken
<1>2. CASE Still(r)
  <2>1. Taken(r)' = Taken(r) /\ m = Len(events'[r]) /\ Pushed(r)' = p
    BY <1>2 DEF Still, Taken
  <2> QED
    BY <1>1, <1>2, <2>1 DEF Still, KeptInOrder, QueuedInOrder
<1>3. CASE PushesLine(r)
  <2>0. Pushed(r)' = p + 1 /\ ~Ended(r) /\ ~Ended(r)' /\ m = p /\ t = p - n
    BY <1>a, <1>3 DEF PushesLine
  <2>1. /\ Len(events'[r]) = m + 1 /\ events'[r][m + 1] = p + 1
        /\ \A i \in 1..m : events'[r][i] = events[r][i]
    BY <1>1, <1>3 DEF PushesLine
  <2>2. /\ Len(queue'[r]) = n + 1 /\ queue'[r][n + 1] = p + 1
        /\ \A i \in 1..n : queue'[r][i] = queue[r][i]
    BY <1>1, <1>3 DEF PushesLine
  <2>3. Taken(r)' = p + 1 - (n + 1)
    BY <2>0, <2>2 DEF Taken
  <2>4. Taken(r)' = t /\ t >= 0 /\ t + n = p
    BY <1>1, <1>a, <2>0, <2>3
  <2> HIDE DEF p, n, m, t
  <2>5. \A i \in 1..p : Item(p, i) = i /\ Item(p + 1, i) = i
    <3> SUFFICES ASSUME NEW i \in 1..p PROVE Item(p, i) = i /\ Item(p + 1, i) = i
      OBVIOUS
    <3>1. i \in Int /\ i =< p
      BY <1>1
    <3> QED
      BY <1>1, <3>1, ItemFacts
  <2>6. Item(p + 1, p + 1) = p + 1
    BY <1>1, ItemFacts
  <2>7. \A i \in 1..(m + 1) : events'[r][i] = Item(p + 1, i)
    <3> SUFFICES ASSUME NEW i \in 1..(m + 1) PROVE events'[r][i] = Item(p + 1, i)
      OBVIOUS
    <3>1. CASE i = m + 1
      BY <2>0, <2>1, <2>6, <3>1
    <3>2. CASE i # m + 1
      <4>1. i \in 1..m /\ i \in 1..p
        BY <1>1, <2>0, <3>2
      <4> QED
        BY <1>a, <2>1, <2>5, <4>1
    <3> QED
      BY <3>1, <3>2
  <2>8. \A j \in 1..(n + 1) : queue'[r][j] = Item(p + 1, t + j)
    <3> SUFFICES ASSUME NEW j \in 1..(n + 1) PROVE queue'[r][j] = Item(p + 1, t + j)
      OBVIOUS
    <3>1. CASE j = n + 1
      <4>1. t + j = p + 1
        BY <1>1, <2>4, <3>1
      <4> QED
        BY <2>2, <2>6, <3>1, <4>1
    <3>2. CASE j # n + 1
      <4>1. j \in 1..n /\ t + j \in 1..p
        BY <1>1, <2>4, <3>2
      <4> QED
        BY <1>a, <2>2, <2>5, <4>1
    <3> QED
      BY <3>1, <3>2
  <2>9. KeptInOrder(r)' /\ QueuedInOrder(r)'
    BY <2>0, <2>1, <2>2, <2>4, <2>7, <2>8 DEF KeptInOrder, QueuedInOrder
  <2>10. \A i \in 1..m : Item(p + 1, i) = Item(p, i)
    BY <2>0, <2>5
  <2>11. p =< p + 1 /\ m =< m + 1
    BY <1>1
  <2> QED
    BY <2>0, <2>1, <2>4, <2>9, <2>10, <2>11 DEF p, m, t
<1>4. CASE PushesDone(r)
  <2>0. Pushed(r)' = p /\ ~Ended(r) /\ Ended(r)' /\ m = p /\ t = p - n
    BY <1>a, <1>4 DEF PushesDone
  <2>1. /\ Len(events'[r]) = m + 1 /\ events'[r][m + 1] = Done
        /\ \A i \in 1..m : events'[r][i] = events[r][i]
    BY <1>1, <1>4 DEF PushesDone
  <2>2. /\ Len(queue'[r]) = n + 2 /\ queue'[r][n + 1] = Done /\ queue'[r][n + 2] = Sentinel
        /\ \A i \in 1..n : queue'[r][i] = queue[r][i]
    <3>1. Done \in Events \cup {Sentinel} /\ Sentinel \in Events \cup {Sentinel}
      BY SwarmAssumption DEF Events, Done
    <3>2. queue'[r] = queue[r] \o <<Done, Sentinel>>
      BY <1>4 DEF PushesDone
    <3> QED
      BY <1>1, <3>1, <3>2, AppendTwo
  <2>3. Taken(r)' = p + 2 - (n + 2)
    BY <2>0, <2>2 DEF Taken
  <2>4. Taken(r)' = t /\ t >= 0 /\ t + n = p
    BY <1>1, <1>a, <2>0, <2>3
  <2> HIDE DEF p, n, m, t
  <2>6. Item(p, p + 1) = Done /\ Item(p, p + 2) = Sentinel
    BY <1>1, ItemFacts
  <2>7. \A i \in 1..(m + 1) : events'[r][i] = Item(p, i)
    <3> SUFFICES ASSUME NEW i \in 1..(m + 1) PROVE events'[r][i] = Item(p, i)
      OBVIOUS
    <3>1. i \in 1..m \/ i = p + 1
      BY <1>1, <2>0
    <3> QED
      BY <1>a, <2>0, <2>1, <2>6, <3>1
  <2>8. \A j \in 1..(n + 2) : queue'[r][j] = Item(p, t + j)
    <3> SUFFICES ASSUME NEW j \in 1..(n + 2) PROVE queue'[r][j] = Item(p, t + j)
      OBVIOUS
    <3>1. j \in 1..n \/ (j = n + 1 /\ t + j = p + 1) \/ (j = n + 2 /\ t + j = p + 2)
      BY <1>1, <2>4
    <3> QED
      BY <1>a, <2>2, <2>6, <3>1
  <2>9. KeptInOrder(r)' /\ QueuedInOrder(r)'
    BY <2>0, <2>1, <2>2, <2>4, <2>7, <2>8 DEF KeptInOrder, QueuedInOrder
  <2>10. p =< p /\ m =< m + 1
    BY <1>1
  <2> QED
    BY <2>0, <2>1, <2>4, <2>9, <2>10 DEF p, m, t
<1> QED
  BY <1>2, <1>3, <1>4

\* A viewer that stands still loses nothing by it.
LEMMA ViewerWaits ==
  ASSUME SwarmInv, SwarmInv', NEW r \in Runs, KeptInOrder(r), QueuedInOrder(r),
         Still(r) \/ PushesLine(r) \/ PushesDone(r),
         NEW s \in Streams, stream'[s] = stream[s], Viewer(s, r)
  PROVE  Viewer(s, r)'
<1>1. /\ Taken(r)' = Taken(r) /\ Pushed(r) =< Pushed(r)' /\ Len(events[r]) =< Len(events'[r])
      /\ Ended(r) => Ended(r)' /\ Pushed(r)' = Pushed(r)
      /\ \A i \in 1..Len(events[r]) : Item(Pushed(r)', i) = Item(Pushed(r), i)
  BY QuietGrows
<1>2. /\ Pushed(r) \in Nat /\ Taken(r) \in Int /\ Len(events[r]) \in Nat
      /\ Pushed(r)' \in Nat /\ Len(events'[r]) \in Nat
  <2>1. Pushed(r) \in Nat /\ Taken(r) \in Int /\ Len(events[r]) \in Nat
    BY PushedType
  <2>2. Pushed(r)' \in Nat
    BY <2>1 DEF Still, PushesLine, PushesDone
  <2>3. events'[r] \in Seq(Events)
    BY DEF SwarmInv, TypeOK
  <2> QED
    BY <2>1, <2>2, <2>3
<1> DEFINE k == Len(stream[s].got)
           left == stream[s].left
<1>3. k \in Nat /\ Len(left) \in Nat
  <2>1. stream[s].got \in Seq(Events) /\ stream[s].left \in Seq(Events)
    BY DEF SwarmInv, TypeOK
  <2> QED
    BY <2>1
<1>4. Got(s)' = Got(s)
  BY DEF Got
<1>5. ASSUME Replaying(s, r) PROVE Replaying(s, r)'
  <2>1. /\ Taken(r) =< Pushed(r) /\ Taken(r) =< k + Len(left)
        /\ k =< Pushed(r) /\ k + Len(left) =< Len(events[r])
        /\ \A i \in 1..k : stream[s].got[i] = i
        /\ \A j \in 1..Len(left) : left[j] = Item(Pushed(r), k + j)
    BY <1>5 DEF Replaying
  <2> HIDE DEF k, left
  <2>2. \A j \in 1..Len(left) : k + j \in 1..Len(events[r])
    BY <1>2, <1>3, <2>1
  <2>3. \A j \in 1..Len(left) : left[j] = Item(Pushed(r)', k + j)
    BY <1>1, <2>1, <2>2
  <2>4. /\ Taken(r)' =< Pushed(r)' /\ Taken(r)' =< k + Len(left)
        /\ k =< Pushed(r)' /\ k + Len(left) =< Len(events'[r])
    BY <1>1, <1>2, <1>3, <2>1
  <2> QED
    BY <2>1, <2>3, <2>4 DEF Replaying, k, left
<1>6. ASSUME Following(s, r) PROVE Following(s, r)'
  BY <1>1, <1>2, <1>4, <1>6 DEF Following
<1>7. ASSUME Closed(s, r) PROVE Closed(s, r)'
  BY <1>1, <1>2, <1>4, <1>7 DEF Closed
<1> QED
  BY <1>4, <1>5, <1>6, <1>7 DEF Viewer

\* What the steps of a stream leave alone.
LEMMA StreamFrame ==
  ASSUME SwarmInv, IdleInv, NEW s \in Streams,
         StreamStep(s) \/ Leave(s) \/ \E q \in Runs : Attach(s, q)
  PROVE  /\ UNCHANGED <<printed, pipe, drain, events, cancel>>
         /\ \A z \in Streams \ {s} : stream'[z] = stream[z]
         /\ stream[s].run \in Runs => stream'[s].run = stream[s].run
         /\ \A r \in Runs : queue'[r] = queue[r] \/ (Get(s) /\ stream[s].run = r)
         /\ IdleInv'
<1> DEFINE Conn == [pc : {"idle", "replay", "follow", "get", "closed", "gone", "refused"},
                    run : Runs \cup {None}, left : Seq(Events), got : Seq(Events)]
<1>0. /\ stream \in [Streams -> Conn] /\ stream[s] \in Conn
      /\ queue \in [Runs -> Seq(Events \cup {Sentinel})] /\ None \notin Runs
  BY SwarmAssumption DEF SwarmInv, TypeOK
<1>1. UNCHANGED <<printed, pipe, drain, events, cancel>>
  BY DEF StreamStep, Replay, Follow, Get, Heartbeat, Leave, Attach, otherThanStream, runVars
<1>2. \A z \in Streams \ {s} : stream'[z] = stream[z]
  BY <1>0 DEF StreamStep, Replay, Follow, Get, Heartbeat, Leave, Attach
<1>3. /\ stream[s].run \in Runs => stream'[s].run = stream[s].run
      /\ stream'[s].pc # "idle"
  <2>1. CASE Replay(s)
    BY <1>0, <2>1 DEF Replay
  <2>2. CASE Follow(s)
    BY <1>0, <2>2 DEF Follow
  <2>3. CASE Get(s)
    BY <1>0, <2>3 DEF Get
  <2>4. CASE Heartbeat(s) \/ Leave(s)
    BY <1>0, <2>4 DEF Heartbeat, Leave
  <2>5. CASE \E q \in Runs : Attach(s, q)
    BY <1>0, <2>5 DEF Attach, IdleInv, NoStream
  <2> QED
    BY <2>1, <2>2, <2>3, <2>4, <2>5 DEF StreamStep
<1>4. \A r \in Runs : queue'[r] = queue[r] \/ (Get(s) /\ stream[s].run = r)
  <2>1. CASE Get(s)
    BY <1>0, <2>1 DEF Get
  <2>2. CASE ~Get(s)
    BY <2>2 DEF StreamStep, Replay, Follow, Heartbeat, Leave, Attach
  <2> QED
    BY <2>1, <2>2
<1>5. IdleInv'
  BY <1>2, <1>3 DEF IdleInv
<1> QED
  BY <1>1, <1>2, <1>3, <1>4, <1>5

LEMMA GotGrows ==
  ASSUME SwarmInv, NEW s \in Streams, NEW evt \in Events,
         stream'[s].got = Append(stream[s].got, evt)
  PROVE  /\ Len(stream'[s].got) = Len(stream[s].got) + 1
         /\ stream'[s].got[Len(stream[s].got) + 1] = evt
         /\ \A i \in 1..Len(stream[s].got) : stream'[s].got[i] = stream[s].got[i]
         /\ Got(s)' = Got(s) \cup {evt}
<1> DEFINE k == Len(stream[s].got)
<1>1. stream[s].got \in Seq(Events) /\ k \in Nat
  BY DEF SwarmInv, TypeOK
<1>2. /\ Len(stream'[s].got) = k + 1 /\ stream'[s].got[k + 1] = evt
      /\ \A i \in 1..k : stream'[s].got[i] = stream[s].got[i]
  BY <1>1
<1>3. Got(s) = {stream[s].got[i] : i \in 1..k} /\ Got(s)' = {stream'[s].got[i] : i \in 1..(k + 1)}
  BY <1>2 DEF Got
<1>4. 1..(k + 1) = (1..k) \cup {k + 1}
  BY <1>1
<1> HIDE DEF k
<1> QED
  BY <1>2, <1>3, <1>4 DEF k

\* A step of a viewer who is alone with a quiet run.
LEMMA ViewerActs ==
  ASSUME SwarmInv, IdleInv, NEW s \in Streams,
         StreamStep(s) \/ Leave(s) \/ \E q \in Runs : Attach(s, q),
         NEW r \in Runs, stream'[s].run = r, Alone(s)',
         KeptInOrder(r), QueuedInOrder(r), Untouched(r), stream[s].run = r => Viewer(s, r)
  PROVE  Viewer(s, r)'
<1> DEFINE Conn == [pc : {"idle", "replay", "follow", "get", "closed", "gone", "refused"},
                    run : Runs \cup {None}, left : Seq(Events), got : Seq(Events)]
           p == Pushed(r)
           t == Taken(r)
           n == Len(queue[r])
           m == Len(events[r])
           got == stream[s].got
           left == stream[s].left
           k == Len(got)
<1>0. /\ stream \in [Streams -> Conn] /\ stream[s] \in Conn
      /\ queue \in [Runs -> Seq(Events \cup {Sentinel})] /\ events[r] \in Seq(Events)
      /\ None \notin Runs
  BY SwarmAssumption DEF SwarmInv, TypeOK
<1>1. p \in Nat /\ t \in Int /\ n \in Nat /\ m \in Nat /\ k \in Nat /\ Len(left) \in Nat
  BY <1>0, PushedType
<1>2. /\ UNCHANGED <<printed, pipe, drain, events, cancel>>
      /\ \A z \in Streams \ {s} : stream'[z] = stream[z]
      /\ queue'[r] = queue[r] \/ (Get(s) /\ stream[s].run = r)
  BY StreamFrame
<1>3. Pushed(r)' = p /\ (Ended(r)' <=> Ended(r)) /\ (queue'[r] = queue[r] => Taken(r)' = t)
  BY <1>2 DEF Pushed, Ended, Taken
<1>4. /\ m = (IF Ended(r) THEN p + 1 ELSE p) /\ t = (IF Ended(r) THEN p + 2 - n ELSE p - n)
      /\ \A i \in 1..m : events[r][i] = Item(p, i)
      /\ t >= 0 /\ \A j \in 1..n : queue[r][j] = Item(p, t + j)
  BY DEF KeptInOrder, QueuedInOrder, Taken
<1>5. CASE \E q \in Runs : Attach(s, q)
  <2>1. /\ Attach(s, r) /\ queue' = queue
        /\ \/ stream'[s] = [pc |-> "replay", run |-> r, left |-> events[r], got |-> <<>>]
           \/ stream'[s] = [pc |-> "refused", run |-> r, left |-> <<>>, got |-> <<>>]
    <3>1. PICK q \in Runs : Attach(s, q)
      BY <1>5
    <3>2. /\ \/ stream'[s] = [pc |-> "replay", run |-> q, left |-> events[q], got |-> <<>>]
             \/ stream'[s] = [pc |-> "refused", run |-> q, left |-> <<>>, got |-> <<>>]
          /\ queue' = queue
      BY <1>0, <3>1 DEF Attach
    <3>3. q = r
      BY <3>2
    <3> QED
      BY <3>1, <3>2, <3>3
  <2>2. t =< p
    <3>1. CASE stream[s].pc = "idle"
      <4>1. \A z \in Streams : stream[z].run # r
        <5>1. stream[s].run = None /\ None # r
          BY <1>0, <3>1 DEF IdleInv, NoStream
        <5>2. \A z \in Streams \ {s} : stream'[z].run # r
          BY DEF Alone
        <5> QED
          BY <1>2, <5>1, <5>2
      <4> QED
        BY <1>1, <4>1 DEF Untouched
    <3>2. CASE stream[s].pc # "idle"
      <4>1. stream[s].pc = "closed" /\ stream[s].run = r /\ Done \notin Got(s)
        BY <2>1, <3>2 DEF Attach, Got
      <4> QED
        BY <4>1 DEF Viewer, Closed
    <3> QED
      BY <3>1, <3>2
  <2>3. CASE stream'[s].pc = "refused"
    <3>1. Got(s)' = {}
      BY <2>1, <2>3 DEF Got
    <3> QED
      BY <2>3, <3>1 DEF Viewer
  <2>4. CASE stream'[s].pc # "refused"
    <3>1. stream'[s] = [pc |-> "replay", run |-> r, left |-> events[r], got |-> <<>>]
      BY <2>1, <2>4
    <3>2. Len(stream'[s].got) = 0 /\ stream'[s].left = events[r]
      BY <3>1
    <3> HIDE DEF p, t, n, m
    <3>3. t =< 0 + m /\ 0 =< p /\ 0 + m =< m
      BY <1>1, <1>4, <2>2
    <3>4. \A j \in 1..m : events[r][j] = Item(p, 0 + j)
      BY <1>1, <1>4
    <3>5. Replaying(s, r)'
      BY <1>2, <1>3, <2>1, <2>2, <3>2, <3>3, <3>4 DEF Replaying, m
    <3> QED
      BY <3>1, <3>5 DEF Viewer
  <2> QED
    BY <2>3, <2>4
<1>6. ASSUME StreamStep(s) \/ Leave(s) PROVE stream[s].run = r /\ Viewer(s, r)
  <2>1. stream[s].pc # "idle"
    BY <1>6 DEF StreamStep, Replay, Follow, Get, Heartbeat, Leave
  <2> QED
    BY <2>1, StreamFrame DEF SwarmInv, StreamInv
<1>7. ASSUME Replaying(s, r)
      PROVE  /\ t =< p /\ t =< k + Len(left) /\ k =< p /\ k + Len(left) =< m
             /\ \A i \in 1..k : got[i] = i
             /\ \A j \in 1..Len(left) : left[j] = Item(p, k + j)
             /\ Got(s) = 1..k /\ Done \notin Got(s)
  <2>1. \A i \in 1..k : got[i] = i
    BY <1>7 DEF Replaying
  <2>2. Got(s) = 1..k
    BY <2>1 DEF Got
  <2>3. Done \notin Got(s)
    BY <1>1, <2>2 DEF Done
  <2> QED
    BY <1>7, <2>1, <2>2, <2>3 DEF Replaying
<1>8. CASE Replay(s)
  <2>1. Replaying(s, r) /\ left # <<>> /\ queue' = queue
    BY <1>6, <1>8 DEF StreamStep, Viewer, Replay
  <2> DEFINE evt == Head(left)
  <2>2. /\ evt \in Events /\ Tail(left) \in Seq(Events) /\ Len(left) >= 1 /\ evt = left[1]
        /\ Len(Tail(left)) = Len(left) - 1
        /\ \A j \in 1..Len(Tail(left)) : Tail(left)[j] = left[j + 1]
    BY <1>0, <2>1
  <2>3. /\ stream'[s].pc = IF evt = Done THEN "closed" ELSE "replay"
        /\ stream'[s].got = Append(got, evt) /\ stream'[s].left = Tail(left)
    BY <1>0, <1>8 DEF Replay
  <2> HIDE DEF evt
  <2>4. /\ Len(stream'[s].got) = k + 1 /\ stream'[s].got[k + 1] = evt
        /\ \A i \in 1..k : stream'[s].got[i] = got[i]
        /\ Got(s)' = Got(s) \cup {evt}
    BY <2>2, <2>3, GotGrows
  <2> HIDE DEF p, t, n, m, k, got, left
  <2>5. evt = Item(p, k + 1) /\ k + 1 =< m /\ k + 1 =< p + 1
    <3>1. 1 \in 1..Len(left)
      BY <1>1, <2>2
    <3>2. evt = Item(p, k + 1)
      BY <1>7, <2>1, <2>2, <3>1
    <3> QED
      BY <1>1, <1>7, <2>1, <2>2, <3>2
  <2>6. CASE evt = Done
    <3>1. k + 1 = p + 1
      BY <1>1, <2>5, <2>6, ItemFacts DEF Done
    <3>2. k = p /\ Ended(r)
      BY <1>1, <1>4, <2>5, <3>1
    <3>3. Done \in Got(s)' /\ 1..p \subseteq Got(s)'
      BY <1>7, <2>1, <2>4, <2>6, <3>2
    <3> QED
      BY <1>3, <2>3, <2>6, <3>2, <3>3 DEF Viewer, Closed
  <2>7. CASE evt # Done
    <3>1. k + 1 # p + 1
      BY <1>1, <2>5, <2>7, ItemFacts
    <3>2. k + 1 =< p /\ k + 1 \in Int
      BY <1>1, <2>5, <3>1
    <3>3. evt = k + 1
      BY <1>1, <2>5, <3>2, ItemFacts
    <3>4. \A i \in 1..(k + 1) : stream'[s].got[i] = i
      <4> SUFFICES ASSUME NEW i \in 1..(k + 1) PROVE stream'[s].got[i] = i
        OBVIOUS
      <4>1. i \in 1..k \/ i = k + 1
        BY <1>1
      <4> QED
        BY <1>7, <2>1, <2>4, <3>3, <4>1
    <3>5. \A j \in 1..Len(Tail(left)) : Tail(left)[j] = Item(p, (k + 1) + j)
      <4> SUFFICES ASSUME NEW j \in 1..Len(Tail(left)) PROVE Tail(left)[j] = Item(p, (k + 1) + j)
        OBVIOUS
      <4>1. j + 1 \in 1..Len(left) /\ k + (j + 1) = (k + 1) + j
        BY <1>1, <2>2
      <4> QED
        BY <1>7, <2>1, <2>2, <4>1
    <3>6. t =< (k + 1) + Len(Tail(left)) /\ (k + 1) + Len(Tail(left)) =< m
      BY <1>1, <1>7, <2>1, <2>2
    <3>7. Replaying(s, r)'
      BY <1>2, <1>3, <1>7, <2>1, <2>3, <2>4, <3>2, <3>4, <3>5, <3>6 DEF Replaying, m
    <3> QED
      BY <2>3, <2>7, <3>7 DEF Viewer
  <2> QED
    BY <2>6, <2>7
<1>9. CASE Follow(s)
  <2>1. /\ stream'[s].pc \in {"get", "closed"} /\ stream'[s].got = got /\ queue' = queue
        /\ \/ stream[s].pc = "replay" /\ left = <<>>
           \/ stream[s].pc = "follow"
    BY <1>0, <1>9 DEF Follow
  <2>2. Following(s, r)
    <3>1. CASE stream[s].pc = "replay" /\ left = <<>>
      <4>1. Replaying(s, r) /\ Len(left) = 0
        BY <1>6, <1>9, <3>1 DEF StreamStep, Viewer
      <4> QED
        BY <1>1, <1>7, <4>1 DEF Following
    <3>2. CASE stream[s].pc = "follow"
      BY <1>6, <1>9, <3>2 DEF StreamStep, Viewer
    <3> QED
      BY <2>1, <3>1, <3>2
  <2>3. Got(s)' = Got(s)
    BY <2>1 DEF Got
  <2>4. Following(s, r)' /\ Closed(s, r)'
    BY <1>3, <2>1, <2>2, <2>3 DEF Following, Closed
  <2> QED
    BY <2>1, <2>4 DEF Viewer
<1>10. CASE Get(s)
  <2>0. stream[s].run = r /\ Following(s, r) /\ queue[r] # <<>>
    BY <1>6, <1>10 DEF StreamStep, Viewer, Get
  <2> DEFINE evt == Head(queue[r])
  <2>1. /\ evt \in Events \cup {Sentinel} /\ n >= 1 /\ evt = queue[r][1]
        /\ Len(Tail(queue[r])) = n - 1
    BY <1>0, <2>0
  <2>2. /\ queue'[r] = Tail(queue[r])
        /\ stream'[s].got = (IF evt = Sentinel THEN got ELSE Append(got, evt))
        /\ stream'[s].pc = IF evt \in {Sentinel, Done} THEN "closed" ELSE "follow"
    BY <1>0, <1>10, <2>0 DEF Get
  <2> HIDE DEF evt
  <2>3. t =< p /\ 1..t \subseteq Got(s) /\ Done \notin Got(s)
    BY <2>0 DEF Following
  <2>4. Taken(r)' = t + 1
    <3>1. Taken(r)' = IF Ended(r) THEN p + 2 - (n - 1) ELSE p - (n - 1)
      BY <1>3, <2>1, <2>2 DEF Taken
    <3> HIDE DEF p, t, n, m
    <3> QED
      BY <1>1, <1>4, <3>1
  <2> HIDE DEF p, t, n, m, k, got, left
  <2>5. evt = Item(p, t + 1)
    BY <1>1, <1>4, <2>1
  <2>6. CASE t < p
    <3>1. evt = t + 1
      <4>1. t + 1 \in Int /\ t + 1 =< p
        BY <1>1, <2>6
      <4> QED
        BY <1>1, <2>5, <4>1, ItemFacts
    <3>2. evt # Done /\ evt # Sentinel
      BY <1>1, <1>4, <3>1 DEF Done, Sentinel
    <3>3. Got(s)' = Got(s) \cup {evt}
      BY <2>1, <2>2, <3>2, GotGrows DEF got
    <3>4. 1..(t + 1) \subseteq Got(s)' /\ Done \notin Got(s)' /\ t + 1 =< p
      BY <1>1, <2>3, <2>6, <3>1, <3>2, <3>3
    <3> QED
      BY <1>3, <2>2, <2>4, <3>2, <3>4 DEF Viewer, Following
  <2>7. CASE t = p
    <3>1. evt = Done /\ evt # Sentinel
      BY <1>1, <2>5, <2>7, ItemFacts DEF Done, Sentinel
    <3>2. Got(s)' = Got(s) \cup {Done}
      BY <2>1, <2>2, <3>1, GotGrows DEF got
    <3>3. Ended(r)
      BY <1>1, <1>4, <2>1, <2>7
    <3>4. 1..p \subseteq Got(s)' /\ Done \in Got(s)'
      BY <2>3, <2>7, <3>2
    <3> QED
      BY <1>3, <2>2, <3>1, <3>3, <3>4 DEF Viewer, Closed
  <2> QED
    BY <1>1, <2>3, <2>6, <2>7
<1>11. CASE Heartbeat(s)
  <2>1. Following(s, r) /\ queue' = queue
    BY <1>6, <1>11 DEF StreamStep, Viewer, Heartbeat
  <2>2. stream'[s].pc = "follow" /\ stream'[s].got = got
    BY <1>0, <1>11 DEF Heartbeat
  <2>3. Got(s)' = Got(s)
    BY <2>2 DEF Got
  <2> QED
    BY <1>3, <2>1, <2>2, <2>3 DEF Viewer, Following
<1>12. CASE Leave(s)
  <2>1. stream'[s].pc = "gone" /\ stream'[s].got = <<>>
    BY <1>0, <1>12 DEF Leave
  <2>2. Got(s)' = {}
    BY <2>1 DEF Got
  <2> QED
    BY <2>1, <2>2 DEF Viewer
<1> QED
  BY <1>5, <1>8, <1>9, <1>10, <1>11, <1>12 DEF StreamStep

ViewersInv == SwarmInv /\ QuietInv /\ ViewerInv /\ IdleInv

\* A run that grows, or stands still, under streams that stand still.
LEMMA ViewersWait ==
  ASSUME ViewersInv, SwarmInv', stream' = stream,
         \A r \in Runs : Quiet(r)' => Quiet(r) /\ (Still(r) \/ PushesLine(r) \/ PushesDone(r))
  PROVE  ViewersInv'
<1>1. ASSUME NEW r \in Runs, Quiet(r)'
      PROVE  KeptInOrder(r)' /\ QueuedInOrder(r)' /\ Untouched(r)'
  <2>1. KeptInOrder(r) /\ QueuedInOrder(r) /\ Untouched(r)
        /\ (Still(r) \/ PushesLine(r) \/ PushesDone(r))
    BY <1>1 DEF ViewersInv, QuietInv
  <2>2. KeptInOrder(r)' /\ QueuedInOrder(r)' /\ Taken(r)' = Taken(r)
    BY <2>1, QuietGrows DEF ViewersInv
  <2> QED
    BY <2>1, <2>2 DEF Untouched
<1>2. ASSUME NEW s \in Streams, NEW r \in Runs, Quiet(r)', stream'[s].run = r, Alone(s)'
      PROVE  Viewer(s, r)'
  <2>1. KeptInOrder(r) /\ QueuedInOrder(r) /\ (Still(r) \/ PushesLine(r) \/ PushesDone(r))
    BY <1>2 DEF ViewersInv, QuietInv
  <2>2. Quiet(r) /\ stream[s].run = r /\ Alone(s)
    BY <1>2 DEF Alone
  <2>3. Viewer(s, r)
    BY <2>2 DEF ViewersInv, ViewerInv
  <2> QED
    BY <2>1, <2>3, ViewerWaits DEF ViewersInv
<1>3. QuietInv' /\ ViewerInv' /\ IdleInv'
  BY <1>1, <1>2 DEF QuietInv, ViewerInv, IdleInv, ViewersInv
<1> QED
  BY <1>3 DEF ViewersInv

\* A stream that moves, over runs that stand still.
LEMMA ViewersMove ==
  ASSUME ViewersInv, SwarmInv', NEW s \in Streams,
         StreamStep(s) \/ Leave(s) \/ \E q \in Runs : Attach(s, q)
  PROVE  ViewersInv'
<1>0. SwarmInv /\ IdleInv
  BY DEF ViewersInv
<1>1. /\ UNCHANGED <<printed, pipe, drain, events, cancel>>
      /\ \A z \in Streams \ {s} : stream'[z] = stream[z]
      /\ stream[s].run \in Runs => stream'[s].run = stream[s].run
      /\ \A r \in Runs : queue'[r] = queue[r] \/ (Get(s) /\ stream[s].run = r)
      /\ IdleInv'
  BY <1>0, StreamFrame
<1>2. ASSUME NEW r \in Runs, Quiet(r)'
      PROVE  /\ KeptInOrder(r) /\ QueuedInOrder(r) /\ Untouched(r)
             /\ Pushed(r)' = Pushed(r) /\ (Ended(r)' <=> Ended(r))
             /\ queue'[r] = queue[r] => Taken(r)' = Taken(r)
  <2>1. Quiet(r)
    BY <1>1, <1>2 DEF Quiet
  <2> QED
    BY <1>1, <2>1 DEF ViewersInv, QuietInv, Pushed, Ended, Taken
<1>3. ASSUME NEW r \in Runs, Quiet(r)'
      PROVE  KeptInOrder(r)' /\ QueuedInOrder(r)' /\ Untouched(r)'
  <2>1. KeptInOrder(r)'
    BY <1>1, <1>2, <1>3 DEF KeptInOrder
  <2>2. CASE queue'[r] = queue[r]
    <3>1. QueuedInOrder(r)'
      BY <1>2, <1>3, <2>2 DEF QueuedInOrder
    <3>2. Untouched(r)'
      <4>1. (\A z \in Streams : stream'[z].run # r) => \A z \in Streams : stream[z].run # r
        BY <1>1
      <4> QED
        BY <1>2, <1>3, <2>2, <4>1 DEF Untouched
    <3> QED
      BY <2>1, <3>1, <3>2
  <2>3. CASE Get(s) /\ stream[s].run = r
    <3> DEFINE p == Pushed(r)
               t == Taken(r)
               n == Len(queue[r])
    <3>1. p \in Nat /\ t \in Int /\ n \in Nat /\ queue[r] \in Seq(Events \cup {Sentinel})
          /\ queue \in [Runs -> Seq(Events \cup {Sentinel})]
      BY <1>0, PushedType DEF SwarmInv, TypeOK
    <3>2. queue'[r] = Tail(queue[r]) /\ queue[r] # <<>>
      BY <2>3, <3>1 DEF Get
    <3>3. n >= 1 /\ Len(queue'[r]) = n - 1 /\ \A j \in 1..(n - 1) : queue'[r][j] = queue[r][j + 1]
      BY <3>1, <3>2
    <3>4. /\ t = (IF Ended(r) THEN p + 2 - n ELSE p - n)
          /\ t >= 0 /\ \A j \in 1..n : queue[r][j] = Item(p, t + j)
      BY <1>2, <1>3 DEF QueuedInOrder, Taken
    <3>5. Taken(r)' = IF Ended(r) THEN p + 2 - (n - 1) ELSE p - (n - 1)
      BY <1>2, <1>3, <3>3 DEF Taken
    <3>6. Pushed(r)' = p
      BY <1>2, <1>3
    <3> HIDE DEF p, t, n
    <3>7. Taken(r)' = t + 1 /\ t + 1 >= 0
      BY <3>1, <3>4, <3>5
    <3>8. \A j \in 1..(n - 1) : queue'[r][j] = Item(p, (t + 1) + j)
      <4> SUFFICES ASSUME NEW j \in 1..(n - 1) PROVE queue'[r][j] = Item(p, (t + 1) + j)
        OBVIOUS
      <4>1. j + 1 \in 1..n /\ t + (j + 1) = (t + 1) + j
        BY <3>1
      <4> QED
        BY <3>3, <3>4, <4>1
    <3>9. QueuedInOrder(r)'
      BY <3>3, <3>6, <3>7, <3>8 DEF QueuedInOrder
    <3>10. Untouched(r)'
      BY <1>1, <2>3 DEF Untouched
    <3> QED
      BY <2>1, <3>9, <3>10
  <2> QED
    BY <1>1, <2>2, <2>3
<1>4. ASSUME NEW z \in Streams, NEW r \in Runs, Quiet(r)', stream'[z].run = r, Alone(z)'
      PROVE  Viewer(z, r)'
  <2>0. Quiet(r)
    BY <1>1, <1>4 DEF Quiet
  <2>1. stream[z].run = r => Alone(z)
    BY <1>1, <1>4 DEF Alone
  <2>2. stream[z].run = r => Viewer(z, r)
    BY <2>0, <2>1 DEF ViewersInv, ViewerInv
  <2>3. CASE z = s
    BY <1>0, <1>2, <1>4, <2>2, <2>3, ViewerActs
  <2>4. CASE z # s
    <3>1. stream'[z] = stream[z] /\ stream[z].run = r /\ stream[s].run # r
      BY <1>1, <1>4, <2>1, <2>4 DEF Alone
    <3>2. queue'[r] = queue[r]
      BY <1>1, <3>1
    <3>3. Still(r)
      BY <1>1, <1>2, <1>4, <3>2 DEF Still
    <3> QED
      BY <1>0, <1>2, <1>4, <2>2, <3>1, <3>3, ViewerWaits
  <2> QED
    BY <2>3, <2>4
<1> QED
  BY <1>1, <1>3, <1>4 DEF ViewersInv, QuietInv, ViewerInv

LEMMA ViewersNext == ViewersInv /\ [Next]_vars => ViewersInv'
<1> SUFFICES ASSUME ViewersInv, [Next]_vars PROVE ViewersInv'
  OBVIOUS
<1>0. SwarmInv /\ SwarmInv' /\ TypeOK /\ \A r \in Runs : Quiet(r) => KeptInOrder(r)
  BY SwarmNext DEF ViewersInv, QuietInv, SwarmInv
<1>1. ASSUME NEW q \in Runs,
             StartRun(q) \/ PrintLine(q) \/ Drain(q) \/ \E how \in {"ok", "bad"} : Exit(q, how)
      PROVE  ViewersInv'
  <2>1. stream' = stream
    BY <1>1 DEF StartRun, PrintLine, Exit, Drain, DrainLine, DrainLinePushed, DrainEnd, DrainError,
       DrainDone, DrainDonePushed, DrainRead, DrainRecord, otherThanDrain
  <2>2. \A r \in Runs : Quiet(r)' => Quiet(r) /\ (Still(r) \/ PushesLine(r) \/ PushesDone(r))
    BY <1>0, <1>1, RunStep
  <2> QED
    BY <1>0, <2>1, <2>2, ViewersWait
<1>2. ASSUME NEW c \in Cancels, CancelStep(c) \/ \E q \in Runs : CancelRun(c, q)
      PROVE  ViewersInv'
  <2>1. UNCHANGED <<printed, pipe, drain, stream>>
    BY <1>2 DEF CancelStep, CancelWaited, CancelTimeout, CancelState, CancelDone, CancelDonePushed,
       CancelRecord, CancelRun, runVars
  <2>2. \A d \in Cancels : cancel[d].pc # "idle" =>
          cancel'[d].run = cancel[d].run /\ cancel'[d].pc # "idle"
    <3>1. CASE CancelStep(c)
      <4>1. PICK to \in Final \cup {"replied", "unsaved"} : CancelGoto(c, to)
        BY <3>1 DEF CancelStep, CancelWaited, CancelTimeout, CancelState, CancelDone, CancelDonePushed,
           CancelRecord, CancelGoto, Final
      <4> QED
        BY <1>0, <4>1, CancelGotoFacts DEF Final
    <3>2. CASE \E q \in Runs : CancelRun(c, q)
      BY <1>0, <3>2 DEF CancelRun, TypeOK
    <3> QED
      BY <1>2, <3>1, <3>2
  <2>3. \A r \in Runs : cancel[c].pc = "idle" \/ cancel[c].run # r =>
          events'[r] = events[r] /\ queue'[r] = queue[r]
    BY <1>0, <1>2 DEF CancelStep, CancelWaited, CancelTimeout, CancelState, CancelDone, CancelDonePushed,
       CancelRecord, CancelRun, MakeRoom, AppendEvent, TypeOK, runVars
  <2>4. ASSUME NEW r \in Runs, Quiet(r)' PROVE Quiet(r) /\ Still(r)
    <3>1. \A d \in Cancels : cancel[d].pc = "idle" \/ cancel[d].run # r
      BY <2>2, <2>4 DEF Quiet
    <3> QED
      BY <1>0, <2>1, <2>3, <2>4, <3>1, OtherRunStill DEF Quiet
  <2> QED
    BY <1>0, <2>1, <2>4, ViewersWait
<1>3. ASSUME NEW s \in Streams, StreamStep(s) \/ Leave(s) \/ \E q \in Runs : Attach(s, q)
      PROVE  ViewersInv'
  BY <1>0, <1>3, ViewersMove
<1>4. CASE UNCHANGED vars
  <2>1. \A r \in Runs : Quiet(r)' => Quiet(r) /\ Still(r)
    BY <1>4 DEF vars, Quiet, Still, Pushed, Ended
  <2> QED
    BY <1>0, <1>4, <2>1, ViewersWait DEF vars
<1> QED
  BY <1>1, <1>2, <1>3, <1>4 DEF Next

LEMMA ViewersInit == Init => ViewersInv
<1> SUFFICES ASSUME Init PROVE ViewersInv
  OBVIOUS
<1>1. SwarmInv
  BY SwarmInit
<1>2. \A r \in Runs : Pushed(r) = 0 /\ ~Ended(r) /\ Len(events[r]) = 0 /\ Len(queue[r]) = 0
  BY DEF Init, Pushed, Ended
<1>3. QuietInv
  BY <1>2 DEF QuietInv, KeptInOrder, QueuedInOrder, Untouched, Taken
<1>4. ViewerInv /\ IdleInv
  BY SwarmAssumption DEF Init, ViewerInv, IdleInv, NoStream
<1> QED
  BY <1>1, <1>3, <1>4 DEF ViewersInv

\* A viewer who is alone with a run that nobody cancels, and whose lines fit
\* the list, has every line that was read when it is told that the run is
\* done: for any number of lines and reconnections, and any interleaving of
\* the drain thread with replay and queue.
THEOREM LoneViewerComplete == SafetySpec => []SoleViewerComplete
<1>1. ViewersInv => SoleViewerComplete
  <2> SUFFICES ASSUME ViewersInv, NEW s \in Streams, Done \in Got(s), Alone(s),
                      \A c \in Cancels : cancel[c].run # stream[s].run,
                      printed[stream[s].run] < MaxEvents
               PROVE  1..(printed[stream[s].run] - pipe[stream[s].run]) \subseteq Got(s)
    BY DEF SoleViewerComplete, Alone
  <2> DEFINE r == stream[s].run
  <2>1. stream[s].pc # "idle"
    BY DEF ViewersInv, IdleInv, NoStream, Got
  <2>2. r \in Runs /\ Quiet(r)
    BY <2>1 DEF ViewersInv, SwarmInv, StreamInv, Quiet
  <2>3. Viewer(s, r)
    BY <2>2 DEF ViewersInv, ViewerInv
  <2>4. stream[s].pc \in {"replay", "follow", "get", "closed", "gone", "refused"}
    BY <2>1 DEF ViewersInv, SwarmInv, TypeOK
  <2>5. stream[s].pc # "replay"
    <3> SUFFICES ASSUME Replaying(s, r) PROVE FALSE
      BY <2>3 DEF Viewer
    <3>1. \A i \in 1..Len(stream[s].got) : stream[s].got[i] = i
      BY DEF Replaying
    <3> QED
      BY <3>1 DEF Got, Done
  <2>6. Ended(r) /\ 1..Pushed(r) \subseteq Got(s)
    BY <2>3, <2>4, <2>5 DEF Viewer, Following, Closed
  <2>7. Pushed(r) = printed[r] - pipe[r]
    BY <2>2, <2>6, PushedType DEF ViewersInv
  <2> QED
    BY <2>6, <2>7
<1> QED
  BY <1>1, ViewersInit, ViewersNext, PTL DEF SafetySpec

-----------------------------------------------------------------------------
(* The two ways to lose a written cancellation: the drain thread states    *)
(* the end after the cancellation has, or it has read the state for the    *)
(* row before the cancellation and writes it afterwards, as in the run     *)
(* that violates CancelledRecorded.  Nothing else loses one.               *)

Past == {"stated", "done", "ended", "replied", "unsaved"}

\* A step in which a cancellation writes the state finds that the drain thread
\* has stated the end, and is not between reading the state and writing the row
\* with anything but cancelled.  cancel_run leaves both to chance.
ThreadFirst ==
  \A c \in Cancels : CancelState(c) =>
    drain[cancel[c].run] \in Through /\ upsert[cancel[c].run] \in {None, "cancelled"}

RecordInv ==
  \A c \in Cancels :
    /\ cancel[c].pc \in Past =>
         /\ state[cancel[c].run] = "cancelled" /\ drain[cancel[c].run] \in Through
         /\ upsert[cancel[c].run] \in {None, "cancelled"}
    /\ cancel[c].pc = "replied" => row[cancel[c].run] = "cancelled"

LEMMA RecordNext == SwarmInv /\ RecordInv /\ [Next]_vars /\ [ThreadFirst]_vars => RecordInv'
<1> SUFFICES ASSUME SwarmInv, RecordInv, [Next]_vars, [ThreadFirst]_vars PROVE RecordInv'
  OBVIOUS
<1>0. /\ TypeOK /\ \A c \in Cancels : cancel[c].pc \in Past =>
                     /\ cancel[c].run \in Runs /\ state[cancel[c].run] = "cancelled"
                     /\ drain[cancel[c].run] \in Through
                     /\ upsert[cancel[c].run] \in {None, "cancelled"}
      /\ \A c \in Cancels : cancel[c].pc = "replied" => row[cancel[c].run] = "cancelled"
  BY DEF SwarmInv, CancelInv, RecordInv, Past
<1>1. ASSUME NEW r \in Runs, StartRun(r) PROVE RecordInv'
  <2>1. \A c \in Cancels : cancel[c].pc \in Past => cancel[c].run # r
    BY <1>1 DEF StartRun, SwarmInv, CancelInv, Past
  <2>2. /\ \A q \in Runs \ {r} : state'[q] = state[q] /\ row'[q] = row[q] /\ drain'[q] = drain[q]
        /\ upsert' = upsert /\ cancel' = cancel
    BY <1>0, <1>1 DEF StartRun, TypeOK
  <2> QED
    BY <1>0, <2>1, <2>2 DEF RecordInv, Past
<1>2. ASSUME NEW r \in Runs, DrainEnd(r) \/ DrainError(r) PROVE RecordInv'
  <2>1. drain[r] \notin Through
    BY <1>2 DEF DrainEnd, DrainError, Through
  <2>2. /\ \A q \in Runs \ {r} : state'[q] = state[q] /\ drain'[q] = drain[q]
        /\ UNCHANGED <<row, upsert, cancel>>
    BY <1>0, <1>2 DEF DrainEnd, DrainError, DrainGoto, otherThanDrain, TypeOK
  <2> QED
    BY <1>0, <2>1, <2>2 DEF RecordInv, Past
<1>3. ASSUME NEW r \in Runs, DrainRecord(r) PROVE RecordInv'
  <2>1. /\ state' = state /\ cancel' = cancel /\ drain[r] = "saving"
        /\ row' \in {row, [row EXCEPT ![r] = upsert[r]]}
    BY <1>3 DEF DrainRecord, otherThanDrain
  <2>2. \A c \in Cancels : cancel[c].pc = "replied" => row'[cancel[c].run] = "cancelled"
    <3>1. upsert[r] # None
      BY <2>1, SwarmAssumption DEF SwarmInv, StatedInv, None, Finals
    <3>2. \A c \in Cancels : cancel[c].pc = "replied" /\ cancel[c].run = r => upsert[r] = "cancelled"
      BY <1>0, <3>1 DEF Past
    <3>3. \A q \in Runs \ {r} : row'[q] = row[q]
      BY <1>0, <2>1 DEF TypeOK
    <3>4. row'[r] \in {row[r], upsert[r]}
      BY <1>0, <2>1 DEF TypeOK
    <3> QED
      BY <1>0, <3>2, <3>3, <3>4 DEF Past
  <2>3. /\ drain'[r] \in Through /\ upsert'[r] = None
        /\ \A q \in Runs \ {r} : drain'[q] = drain[q] /\ upsert'[q] = upsert[q]
    BY <1>0, <1>3 DEF DrainRecord, DrainGoto, TypeOK, Through
  <2> QED
    BY <1>0, <2>1, <2>2, <2>3 DEF RecordInv
<1>4. ASSUME NEW c \in Cancels, CancelState(c) \/ CancelRecord(c) PROVE RecordInv'
  <2>1. PICK to \in {"stated", "replied", "unsaved"} : CancelGoto(c, to)
    BY <1>4 DEF CancelState, CancelRecord, CancelGoto
  <2>2. /\ cancel'[c].pc = to /\ cancel'[c].run = cancel[c].run
        /\ \A d \in Cancels \ {c} : cancel'[d] = cancel[d]
    BY <1>0, <2>1, CancelGotoFacts DEF Final
  <2>3. cancel[c].run \in Runs
    BY <1>4 DEF CancelState, CancelRecord, SwarmInv, CancelInv
  <2>4. CASE CancelState(c)
    <3>1. /\ state'[cancel[c].run] = "cancelled" /\ to = "stated"
          /\ UNCHANGED <<row, drain, upsert>>
          /\ \A q \in Runs : state'[q] = state[q] \/ state'[q] = "cancelled"
      BY <1>0, <2>2, <2>3, <2>4 DEF CancelState, CancelGoto, TypeOK
    <3>2. cancel' # cancel
      BY <2>2, <2>4 DEF CancelState
    <3>3. drain[cancel[c].run] \in Through /\ upsert[cancel[c].run] \in {None, "cancelled"}
      BY <2>4, <3>2 DEF ThreadFirst, vars
    <3> QED
      BY <1>0, <2>2, <3>1, <3>3 DEF RecordInv, Past
  <2>5. CASE CancelRecord(c)
    <3>1. /\ to = "replied" => row'[cancel[c].run] = "cancelled"
          /\ UNCHANGED <<state, drain, upsert>> /\ cancel[c].pc = "ended"
          /\ \A q \in Runs : row'[q] = row[q] \/ row'[q] = "cancelled"
      BY <1>0, <2>2, <2>3, <2>5 DEF CancelRecord, CancelGoto, TypeOK
    <3> QED
      BY <1>0, <2>2, <3>1 DEF RecordInv, Past
  <2> QED
    BY <1>4, <2>4, <2>5
<1>5. ASSUME NEW c \in Cancels,
             CancelWaited(c) \/ CancelTimeout(c) \/ CancelDone(c) \/ CancelDonePushed(c)
      PROVE  RecordInv'
  <2>1. PICK to \in {"state", "done", "ended"} : CancelGoto(c, to)
            /\ (to \in Past => cancel[c].pc \in Past)
    BY <1>5 DEF CancelWaited, CancelTimeout, CancelDone, CancelDonePushed, Past
  <2>2. /\ cancel'[c].pc = to /\ cancel'[c].run = cancel[c].run
        /\ \A d \in Cancels \ {c} : cancel'[d] = cancel[d]
    BY <1>0, <2>1, CancelGotoFacts DEF Final
  <2>3. UNCHANGED <<state, row, drain, upsert>>
    BY <1>5 DEF CancelWaited, CancelTimeout, CancelDone, CancelDonePushed, runVars
  <2> QED
    BY <1>0, <2>1, <2>2, <2>3 DEF RecordInv
<1>6. ASSUME NEW c \in Cancels, NEW r \in Runs, CancelRun(c, r) PROVE RecordInv'
  BY <1>0, <1>6 DEF CancelRun, RecordInv, TypeOK, Past
<1>7. ASSUME UNCHANGED <<state, row, drain, upsert, cancel>> PROVE RecordInv'
  BY <1>7 DEF RecordInv
<1>8. ASSUME NEW r \in Runs, PrintLine(r) \/ \E how \in {"ok", "bad"} : Exit(r, how)
      PROVE  RecordInv'
  BY <1>7, <1>8 DEF PrintLine, Exit
<1>a. ASSUME NEW r \in Runs, DrainLine(r) \/ DrainLinePushed(r) \/ DrainDone(r) \/ DrainDonePushed(r)
                              \/ DrainRead(r)
      PROVE  RecordInv'
  <2>1. UNCHANGED <<state, row, cancel>>
    BY <1>a DEF DrainLine, DrainLinePushed, DrainDone, DrainDonePushed, DrainRead, otherThanDrain
  <2>2. \A q \in Runs : drain[q] \in Through => drain'[q] \in Through
    BY <1>0, <1>a DEF DrainLine, DrainLinePushed, DrainDone, DrainDonePushed, DrainRead, DrainGoto,
       TypeOK, Through
  <2>3. \A q \in Runs : upsert'[q] = upsert[q] \/ upsert'[q] = state[q]
    BY <1>0, <1>a DEF DrainLine, DrainLinePushed, DrainDone, DrainDonePushed, DrainRead, TypeOK
  <2> QED
    BY <1>0, <2>1, <2>2, <2>3 DEF RecordInv, Past
<1>9. ASSUME NEW s \in Streams, StreamStep(s) \/ Leave(s) \/ \E r \in Runs : Attach(s, r)
      PROVE  RecordInv'
  BY <1>7, <1>9 DEF StreamStep, Replay, Follow, Get, Heartbeat, Leave, Attach, otherThanStream, runVars
<1>10. CASE UNCHANGED vars
  BY <1>7, <1>10 DEF vars
<1> QED
  BY <1>1, <1>2, <1>3, <1>4, <1>5, <1>6, <1>8, <1>9, <1>10, <1>a DEF Next, Drain, CancelStep

\* The history keeps a cancellation that was written to it, and says cancelled
\* for good, where every cancellation writes the state after the drain thread
\* has stated the end, and not while the thread carries an older state to the
\* row: whatever other cancellations, failed writes and evictions do.
THEOREM CancellationKept == SafetySpec /\ [][ThreadFirst]_vars => []CancelledRecorded
<1>1. Init => RecordInv
  BY DEF Init, RecordInv, Past
<1>2. RecordInv => CancelledRecorded
  BY DEF RecordInv, CancelledRecorded
<1> QED
  BY <1>1, <1>2, SwarmAlways, RecordNext, PTL DEF SafetySpec

=============================================================================
