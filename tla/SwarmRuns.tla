------------------------------ MODULE SwarmRuns ------------------------------
(***************************************************************************)
(* The swarm runs of the portal API (swarm.py, and the SSE endpoint of     *)
(* main.py): the run registry, the process each run spawns, the thread     *)
(* that drains its output, cancellation, and the event streams.            *)
(*                                                                         *)
(* Two kinds of actors interleave.  The tasks of the event loop (start,    *)
(* cancel, stream) run without interruption by each other between awaits.  *)
(* The drain threads interleave with them at any point, so what a cancel   *)
(* does between two awaits is split where a drain thread can come between, *)
(* and `busy' keeps the other tasks out meanwhile.                         *)
(***************************************************************************)
EXTENDS Integers, Sequences, FiniteSets

CONSTANTS
  Runs,        \* run ids
  Cancels,     \* DELETE requests that can be under way together
  Streams,     \* connections to the event stream
  MaxRuns,     \* _MAX_RUNS
  MaxEvents,   \* _MAX_EVENTS
  MaxLines     \* bound: output lines of a process that become events

None == "none"

ASSUME SwarmAssumption ==
  /\ MaxRuns \in Nat \ {0} /\ MaxEvents \in Nat /\ MaxEvents >= 2 /\ MaxLines \in Nat
  /\ None \notin Runs /\ None \notin Cancels

Done     == 0     \* the done event; the event of output line i is i
Sentinel == -1    \* the None that ends the queue

VARIABLES
  registry,  \* _registry: its runs, oldest first
  state,     \* handle.state, "absent" before the start
  proc,      \* the process: none, alive, or how it exited
  signal,    \* what cancellation has sent to it
  printed,   \* lines the process has printed
  pipe,      \* how many of them are still in the pipe
  events,    \* handle.events
  queue,     \* handle.queue, one for all streams of the run
  drain,     \* where the drain thread of the run is
  row,       \* the state in the run's row of swarm_runs
  upsert,    \* the state that the drain thread has read for the row, or None
  cancel,    \* where each cancellation is, and its run
  busy,      \* the cancellation that holds the event loop, or None
  stream     \* each connection: where it is, what is left of its replay, what it got

runVars == <<registry, state, proc, signal, printed, pipe, drain, row, upsert>>
vars == <<registry, state, proc, signal, printed, pipe, events, queue, drain, row, upsert,
          cancel, busy, stream>>

Finals == {"completed", "failed", "cancelled"}

NoStream == [pc |-> "idle", run |-> None, left |-> <<>>, got |-> <<>>]

Init ==
  /\ registry = <<>>
  /\ state = [r \in Runs |-> "absent"]
  /\ proc = [r \in Runs |-> "none"]
  /\ signal = [r \in Runs |-> "none"]
  /\ printed = [r \in Runs |-> 0]
  /\ pipe = [r \in Runs |-> 0]
  /\ events = [r \in Runs |-> <<>>]
  /\ queue = [r \in Runs |-> <<>>]
  /\ drain = [r \in Runs |-> "none"]
  /\ row = [r \in Runs |-> "absent"]
  /\ upsert = [r \in Runs |-> None]
  /\ cancel = [c \in Cancels |-> [pc |-> "idle", run |-> None]]
  /\ busy = None
  /\ stream = [s \in Streams |-> NoStream]

Registered(r) == \E i \in 1..Len(registry) : registry[i] = r

-----------------------------------------------------------------------------
(* _push_event: it runs in the drain thread and in the event loop, with    *)
(* nothing to keep one from coming between the two steps of the other.     *)

\* Seeded bug: room is made only after the limit has been passed.
LateRoom(r) ==
  events' = [events EXCEPT ![r] = IF Len(@) > MaxEvents THEN Tail(@) ELSE @]

\* First the oldest event is dropped if the list is full ...
MakeRoom(r) ==
  events' = [events EXCEPT ![r] = IF Len(@) >= MaxEvents THEN Tail(@) ELSE @]

\* Seeded bug: a full list drops the newest event instead of the oldest.
AppendIfRoom(r, evt) ==
  /\ events' = [events EXCEPT ![r] = IF Len(@) < MaxEvents - 1 THEN Append(@, evt) ELSE @]
  /\ queue' = [queue EXCEPT ![r] = @ \o (IF evt = Done THEN <<Done, Sentinel>> ELSE <<evt>>)]

\* Seeded bug: the done event is queued for the streams but not kept.
DoneQueuedOnly(r, evt) ==
  /\ events' = [events EXCEPT ![r] = IF evt = Done THEN @ ELSE Append(@, evt)]
  /\ queue' = [queue EXCEPT ![r] = @ \o (IF evt = Done THEN <<Done, Sentinel>> ELSE <<evt>>)]

\* ... then the event is appended and queued, the sentinel after a done event.
AppendEvent(r, evt) ==
  /\ events' = [events EXCEPT ![r] = Append(@, evt)]
  /\ queue' = [queue EXCEPT ![r] = @ \o (IF evt = Done THEN <<Done, Sentinel>> ELSE <<evt>>)]

-----------------------------------------------------------------------------
(* start_run, after the token: spawn, evict, register, record.  A write of  *)
(* the history that fails is swallowed, here and below, and leaves the row  *)
(* as it was.                                                               *)

Register(r) ==
  registry' = Append(IF Len(registry) >= MaxRuns THEN Tail(registry) ELSE registry, r)

StartRun(r) ==
  /\ busy = None
  /\ state[r] = "absent"
  /\ state' = [state EXCEPT ![r] = "running"]
  /\ proc' = [proc EXCEPT ![r] = "alive"]
  /\ Register(r)
  /\ row' \in {row, [row EXCEPT ![r] = "running"]}
  /\ drain' = [drain EXCEPT ![r] = "reading"]
  /\ UNCHANGED <<signal, printed, pipe, events, queue, upsert, cancel, busy, stream>>

-----------------------------------------------------------------------------
(* The process *)

PrintLine(r) ==
  /\ proc[r] = "alive" /\ printed[r] < MaxLines
  /\ printed' = [printed EXCEPT ![r] = @ + 1]
  /\ pipe' = [pipe EXCEPT ![r] = @ + 1]
  /\ UNCHANGED <<registry, state, proc, signal, drain, row, upsert, events, queue, cancel, busy, stream>>

\* It ends by itself, or because of a signal.
Exit(r, how) ==
  /\ proc[r] = "alive"
  /\ signal[r] = "kill" => how = "bad"
  /\ proc' = [proc EXCEPT ![r] = how]
  /\ UNCHANGED <<registry, state, signal, printed, pipe, drain, row, upsert, events, queue,
                 cancel, busy, stream>>

-----------------------------------------------------------------------------
(* _drain_stdout, a thread of its own *)

DrainGoto(r, to) == drain' = [drain EXCEPT ![r] = to]

otherThanDrain == <<registry, proc, signal, printed, cancel, busy, stream>>

\* A line is read; its event is about to be pushed.
DrainLine(r) ==
  /\ drain[r] = "reading" /\ pipe[r] > 0
  /\ MakeRoom(r)
  /\ pipe' = [pipe EXCEPT ![r] = @ - 1]
  /\ DrainGoto(r, "line")
  /\ UNCHANGED <<otherThanDrain, state, row, upsert, queue>>

DrainLinePushed(r) ==
  /\ drain[r] = "line"
  /\ AppendEvent(r, printed[r] - pipe[r])
  /\ DrainGoto(r, "reading")
  /\ UNCHANGED <<otherThanDrain, state, row, upsert, pipe>>

\* Seeded bug: an exit code that is not known yet counts as success.
FinalStateLenient(r, how) == IF how = "bad" THEN "failed" ELSE "completed"

\* exit_code is -1 while proc.returncode is None
FinalState(r, how) == IF how = "ok" THEN "completed" ELSE "failed"

\* End of file and proc.wait(): the state becomes final.
DrainEnd(r) ==
  /\ drain[r] = "reading" /\ pipe[r] = 0 /\ proc[r] \in {"ok", "bad"}
  /\ state' = [state EXCEPT ![r] = FinalState(r, proc[r])]
  /\ DrainGoto(r, "stated")
  /\ UNCHANGED <<otherThanDrain, row, upsert, pipe, events, queue>>

\* A line that cannot be decoded or parsed ends the reading.  The return code
\* is known only if a cancellation has polled the exited process.
DrainError(r) ==
  /\ drain[r] = "reading" /\ pipe[r] > 0
  /\ \E how \in {"none"} \cup ({proc[r]} \ {"alive"}) :
       state' = [state EXCEPT ![r] = FinalState(r, how)]
  /\ DrainGoto(r, "stated")
  /\ UNCHANGED <<otherThanDrain, row, upsert, pipe, events, queue>>

DrainDone(r) ==
  /\ drain[r] = "stated"
  /\ MakeRoom(r)
  /\ DrainGoto(r, "done")
  /\ UNCHANGED <<otherThanDrain, state, row, upsert, pipe, queue>>

DrainDonePushed(r) ==
  /\ drain[r] = "done"
  /\ AppendEvent(r, Done)
  /\ DrainGoto(r, "ended")
  /\ UNCHANGED <<otherThanDrain, state, row, upsert, pipe>>

\* The arguments of the upsert: the state of the handle as it is now.
DrainRead(r) ==
  /\ drain[r] = "ended"
  /\ upsert' = [upsert EXCEPT ![r] = state[r]]
  /\ DrainGoto(r, "saving")
  /\ UNCHANGED <<otherThanDrain, state, row, pipe, events, queue>>

\* Seeded bug: the row is written only when the run completed.
DrainRecordsSuccess(r) ==
  /\ drain[r] = "saving"
  /\ row' = [row EXCEPT ![r] = IF upsert[r] = "completed" THEN "completed" ELSE @]
  /\ upsert' = [upsert EXCEPT ![r] = None]
  /\ DrainGoto(r, "finished")
  /\ UNCHANGED <<otherThanDrain, state, pipe, events, queue>>

\* The upsert itself, or its failure, ends the thread.
DrainRecord(r) ==
  /\ drain[r] = "saving"
  /\ \/ row' = [row EXCEPT ![r] = upsert[r]] /\ DrainGoto(r, "finished")
     \/ row' = row /\ DrainGoto(r, "unsaved")
  /\ upsert' = [upsert EXCEPT ![r] = None]
  /\ UNCHANGED <<otherThanDrain, state, pipe, events, queue>>

Drain(r) ==
  \/ DrainLine(r) \/ DrainLinePushed(r) \/ DrainEnd(r) \/ DrainError(r)
  \/ DrainDone(r) \/ DrainDonePushed(r) \/ DrainRead(r) \/ DrainRecord(r)

-----------------------------------------------------------------------------
(* cancel_run, a task of the event loop *)

CancelGoto(c, to) == cancel' = [cancel EXCEPT ![c].pc = to]

\* A registered run that is running: terminate its process and wait for it;
\* if the process has exited already, go on at once.
CancelRun(c, r) ==
  /\ busy = None
  /\ cancel[c].pc = "idle"
  /\ Registered(r) /\ state[r] = "running"
  /\ cancel' = [cancel EXCEPT ![c] =
       [pc |-> IF proc[r] = "alive" THEN "waiting" ELSE "state", run |-> r]]
  /\ busy' = IF proc[r] = "alive" THEN None ELSE c
  /\ signal' = [signal EXCEPT ![r] = IF proc[r] = "alive" /\ @ = "none" THEN "term" ELSE @]
  /\ UNCHANGED <<registry, state, proc, printed, pipe, drain, row, upsert, events, queue, stream>>

CancelWaited(c) ==
  /\ busy = None
  /\ cancel[c].pc = "waiting" /\ proc[cancel[c].run] # "alive"
  /\ busy' = c
  /\ CancelGoto(c, "state")
  /\ UNCHANGED <<runVars, events, queue, stream>>

\* Seeded bug: nothing is killed when the two seconds are over.
CancelGivesUp(c) ==
  /\ busy = None
  /\ cancel[c].pc = "waiting"
  /\ busy' = c
  /\ CancelGoto(c, "state")
  /\ UNCHANGED <<runVars, events, queue, stream>>

\* Two seconds have passed: kill (which does nothing to an exited process).
CancelTimeout(c) ==
  /\ busy = None
  /\ cancel[c].pc = "waiting"
  /\ busy' = c
  /\ signal' = [signal EXCEPT ![cancel[c].run] = "kill"]
  /\ CancelGoto(c, "state")
  /\ UNCHANGED <<registry, state, proc, printed, pipe, drain, row, upsert, events, queue, stream>>

\* Whatever the drain thread has done to the state meanwhile.
CancelState(c) ==
  /\ cancel[c].pc = "state"
  /\ state' = [state EXCEPT ![cancel[c].run] = "cancelled"]
  /\ CancelGoto(c, "stated")
  /\ UNCHANGED <<registry, proc, signal, printed, pipe, drain, row, upsert, events, queue, busy, stream>>

CancelDone(c) ==
  /\ cancel[c].pc = "stated"
  /\ MakeRoom(cancel[c].run)
  /\ CancelGoto(c, "done")
  /\ UNCHANGED <<runVars, queue, busy, stream>>

CancelDonePushed(c) ==
  /\ cancel[c].pc = "done"
  /\ AppendEvent(cancel[c].run, Done)
  /\ CancelGoto(c, "ended")
  /\ UNCHANGED <<runVars, busy, stream>>

\* The row says cancelled, or stays as it was; the task gives the event loop
\* back and replies in either case.
CancelRecord(c) ==
  /\ cancel[c].pc = "ended"
  /\ \/ row' = [row EXCEPT ![cancel[c].run] = "cancelled"] /\ CancelGoto(c, "replied")
     \/ row' = row /\ CancelGoto(c, "unsaved")
  /\ busy' = None
  /\ UNCHANGED <<registry, state, proc, signal, printed, pipe, drain, upsert, events, queue, stream>>

CancelStep(c) ==
  \/ CancelWaited(c) \/ CancelTimeout(c) \/ CancelState(c)
  \/ CancelDone(c) \/ CancelDonePushed(c) \/ CancelRecord(c)

-----------------------------------------------------------------------------
(* stream_events, one task per connection *)

otherThanStream == <<runVars, events, cancel, busy>>

Got(s) == {stream[s].got[i] : i \in 1..Len(stream[s].got)}

\* A connection, or a reconnection of a browser that has not seen done.  For a
\* run that was evicted the answer is 404, which a browser takes as final.
Attach(s, r) ==
  /\ busy = None
  /\ \/ stream[s].pc = "idle" /\ state[r] # "absent"
     \/ stream[s].pc = "closed" /\ stream[s].run = r /\ Done \notin Got(s)
  /\ stream' = [stream EXCEPT ![s] =
       IF Registered(r) THEN [pc |-> "replay", run |-> r, left |-> events[r], got |-> <<>>]
                        ELSE [pc |-> "refused", run |-> r, left |-> <<>>, got |-> <<>>]]
  /\ UNCHANGED <<otherThanStream, queue>>

\* The next event of the list as it was on attaching; a done event ends it.
Replay(s) ==
  /\ busy = None
  /\ stream[s].pc = "replay" /\ stream[s].left # <<>>
  /\ LET evt == Head(stream[s].left)
     IN  stream' = [stream EXCEPT ![s].left = Tail(@),
                                  ![s].got = Append(@, evt),
                                  ![s].pc = IF evt = Done THEN "closed" ELSE "replay"]
  /\ UNCHANGED <<otherThanStream, queue>>

\* Seeded bug: the queue is emptied before it is followed, as all is replayed.
FollowEmptied(s) ==
  /\ busy = None
  /\ \/ stream[s].pc = "replay" /\ stream[s].left = <<>>
     \/ stream[s].pc = "follow"
  /\ IF state[stream[s].run] = "running"
     THEN /\ stream' = [stream EXCEPT ![s].pc = "get"]
          /\ IF stream[s].pc = "replay"
             THEN queue' = [queue EXCEPT ![stream[s].run] = <<>>]
             ELSE UNCHANGED queue
     ELSE /\ stream' = [stream EXCEPT ![s].pc = "closed"]
          /\ UNCHANGED queue
  /\ UNCHANGED otherThanStream

\* while handle.state == "running"
Follow(s) ==
  /\ busy = None
  /\ \/ stream[s].pc = "replay" /\ stream[s].left = <<>>
     \/ stream[s].pc = "follow"
  /\ stream' = [stream EXCEPT ![s].pc = IF state[stream[s].run] = "running" THEN "get" ELSE "closed"]
  /\ UNCHANGED <<otherThanStream, queue>>

\* queue.get() has something: an event is sent, the sentinel or done ends it.
Get(s) ==
  /\ busy = None
  /\ stream[s].pc = "get" /\ queue[stream[s].run] # <<>>
  /\ LET evt == Head(queue[stream[s].run])
     IN  stream' = [stream EXCEPT
           ![s].got = IF evt = Sentinel THEN @ ELSE Append(@, evt),
           ![s].pc = IF evt \in {Sentinel, Done} THEN "closed" ELSE "follow"]
  /\ queue' = [queue EXCEPT ![stream[s].run] = Tail(@)]
  /\ UNCHANGED otherThanStream

\* 15 s without an event: a heartbeat, and the loop tests its condition.
Heartbeat(s) ==
  /\ busy = None
  /\ stream[s].pc = "get" /\ queue[stream[s].run] = <<>>
  /\ stream' = [stream EXCEPT ![s].pc = "follow"]
  /\ UNCHANGED <<otherThanStream, queue>>

\* The client closes the connection.
Leave(s) ==
  /\ busy = None
  /\ stream[s].pc \in {"replay", "follow", "get"}
  /\ stream' = [stream EXCEPT ![s] =
       [pc |-> "gone", run |-> stream[s].run, left |-> <<>>, got |-> <<>>]]
  /\ UNCHANGED <<otherThanStream, queue>>

StreamStep(s) == Replay(s) \/ Follow(s) \/ Get(s) \/ Heartbeat(s)

-----------------------------------------------------------------------------
Next ==
  \/ \E r \in Runs :
       \/ StartRun(r) \/ PrintLine(r) \/ Drain(r)
       \/ \E how \in {"ok", "bad"} : Exit(r, how)
  \/ \E c \in Cancels : CancelStep(c) \/ \E r \in Runs : CancelRun(c, r)
  \/ \E s \in Streams : StreamStep(s) \/ Leave(s) \/ \E r \in Runs : Attach(s, r)

\* Threads and tasks are scheduled; the swarm script ends (its calls have
\* timeouts); a browser whose stream ended without done reconnects.
Fairness(rs) ==
  /\ \A r \in rs :
       /\ WF_vars(Drain(r))
       /\ WF_vars(\E how \in {"ok", "bad"} : Exit(r, how))
  /\ \A c \in Cancels : WF_vars(CancelStep(c))
  /\ \A s \in Streams :
       SF_vars(StreamStep(s) \/ (stream[s].pc = "closed" /\ \E r \in rs : Attach(s, r)))

SafetySpec == Init /\ [][Next]_vars

Spec == SafetySpec /\ Fairness(Runs)

-----------------------------------------------------------------------------
(* Properties *)

Events == 0..MaxLines

TypeOK ==
  /\ registry \in Seq(Runs) /\ Len(registry) =< MaxRuns
  /\ state \in [Runs -> {"absent", "running"} \cup Finals]
  /\ proc \in [Runs -> {"none", "alive", "ok", "bad"}]
  /\ signal \in [Runs -> {"none", "term", "kill"}]
  /\ printed \in [Runs -> 0..MaxLines]
  /\ pipe \in [Runs -> 0..MaxLines]
  /\ events \in [Runs -> Seq(Events)]
  /\ queue \in [Runs -> Seq(Events \cup {Sentinel})]
  /\ drain \in [Runs -> {"none", "reading", "line", "stated", "done", "ended", "saving",
                         "finished", "unsaved"}]
  /\ row \in [Runs -> {"absent", "running"} \cup Finals]
  /\ upsert \in [Runs -> Finals \cup {None}]
  /\ cancel \in [Cancels ->
       [pc : {"idle", "waiting", "state", "stated", "done", "ended", "replied", "unsaved"},
        run : Runs \cup {None}]]
  /\ busy \in Cancels \cup {None}
  /\ stream \in [Streams ->
       [pc : {"idle", "replay", "follow", "get", "closed", "gone", "refused"}, run : Runs \cup {None},
        left : Seq(Events), got : Seq(Events)]]

\* Two threads push into one list without a lock: the bound of 500 can be
\* passed, but by one event only, however often they meet.
EventsBounded == \A r \in Runs : Len(events[r]) =< MaxEvents + 1

\* A run is reported as completed, in memory or in the history, only if its
\* process ended well, whoever else was writing the state.
CompletedMeansOk ==
  \A r \in Runs : state[r] = "completed" \/ row[r] = "completed" => proc[r] = "ok"

\* The process of a run reported as cancelled has exited or has been killed:
\* one that ignores the polite request does not stay behind.
CancelledIsDying ==
  \A r \in Runs : state[r] = "cancelled" /\ proc[r] = "alive" => signal[r] = "kill"

\* Once the drain thread is through, a late subscriber's replay ends with done,
\* whatever cancellations push before or after it and whatever was dropped.
ReplayEndsWithDone ==
  \A r \in Runs : drain[r] \in {"ended", "saving", "finished", "unsaved"} =>
    events[r] # <<>> /\ events[r][Len(events[r])] = Done

\* A viewer that is alone with a run nobody cancels, whose lines fit the list,
\* and that is told that it is done has been sent every line that was read:
\* nothing falls between replay and queue.
SoleViewerComplete ==
  \A s \in Streams :
    Done \in Got(s) /\ (\A z \in Streams \ {s} : stream[z].run # stream[s].run)
                    /\ (\A c \in Cancels : cancel[c].run # stream[s].run)
                    /\ printed[stream[s].run] < MaxEvents
      => (1..(printed[stream[s].run] - pipe[stream[s].run])) \subseteq Got(s)

\* A browser that stays and reconnects is told that the run is done, though
\* streams share one queue and take each other's events and sentinels; or that
\* the run is not there, if other runs drove it from the registry meanwhile.
ViewerSeesDone ==
  \A s \in Streams :
    stream[s].pc = "replay" ~> \/ Done \in Got(s) \/ stream[s].pc = "gone"
                               \/ stream[s].pc = "refused" /\ ~Registered(stream[s].run)

\* Once the drain thread or a cancellation has written the end of a run into
\* the history, its row is final, also when the run was evicted while it was
\* running, whoever else writes the row later and whichever writes fail.
RowsSettled ==
  \A r \in Runs :
    drain[r] = "finished" \/ (\E c \in Cancels : cancel[c].run = r /\ cancel[c].pc = "replied")
      => row[r] \in Finals

\* A cancellation that was written to the history is there once nobody writes
\* to the row any more.
CancelledRecorded ==
  \A c \in Cancels :
    LET r == cancel[c].run
    IN  cancel[c].pc = "replied" /\ drain[r] \in {"finished", "unsaved"}
          /\ (\A d \in Cancels : cancel[d].run = r => cancel[d].pc \in {"replied", "unsaved"})
        => row[r] = "cancelled"
=============================================================================
