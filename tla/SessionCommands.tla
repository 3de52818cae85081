-------------------------- MODULE SessionCommands ---------------------------
(***************************************************************************)
(* The requests that use a session without changing it: get_session and    *)
(* run_command of routers/sessions.py, with the audit event that a command *)
(* leaves at Event Hubs (middleware/audit.py).  What happens to sessions   *)
(* and pods meanwhile is left to SandboxLeases, which module Sessions      *)
(* implements: any step of it may come between two awaits here.            *)
(***************************************************************************)
EXTENDS SandboxLeases, Naturals

CONSTANT Requests    \* GET requests and commands

VARIABLES
  request,    \* each request: where it is suspended, its kind and its pod
  producer,   \* _eventhub_producer and _eventhub_init_attempted
  delivered,  \* how many events of a request are at Event Hubs
  excused,    \* commands whose event was skipped or failed, with a log entry
  reported,   \* what a GET says of its pod
  goneBefore  \* the pods that were gone when a request arrived

auditVars   == <<producer, delivered, excused>>
statusVars  == <<reported, goneBefore>>
commandVars == <<leaseVars, request, auditVars, statusVars>>

Unasked == [pc |-> "idle", kind |-> "none"]

CommandInit ==
  /\ LeaseInit
  /\ request = [r \in Requests |-> Unasked]
  /\ producer = "untried"
  /\ delivered = [r \in Requests |-> 0]
  /\ excused = {}
  /\ reported = [r \in Requests |-> "none"]
  /\ goneBefore = [r \in Requests |-> {}]

Awaits(r, pc) == request[r].pc = pc

Continues(r, pc) == request' = [request EXCEPT ![r].pc = pc]

\* The look-up and the test of the owner, in one go with what follows.
Arrives(r, u, s, kind, pc) ==
  /\ request[r] = Unasked
  /\ lease[s].state = "held" /\ lease[s].owner = u
  /\ request' = [request EXCEPT ![r] = [pc |-> pc, kind |-> kind, pod |-> lease[s].pod]]

-----------------------------------------------------------------------------
(* run_command and emit_command_audit_event *)

\* The first command creates the producer.  Without a connection string, or
\* if that fails, there is none, until the process ends.
Producers == IF producer = "untried" THEN {"none", "ready"} ELSE {producer}

\* exec_in_sandbox awaits nothing: the command has run when the event is due.
RunCommand(r, u, s) ==
  /\ \E p \in Producers :
       /\ producer' = p
       /\ IF p = "ready"
          THEN Arrives(r, u, s, "run", "batch") /\ UNCHANGED excused
          ELSE Arrives(r, u, s, "run", "replied") /\ excused' = excused \cup {r}
  /\ UNCHANGED <<leaseVars, delivered, statusVars>>

BatchCreated(r) ==
  /\ Awaits(r, "batch") /\ Continues(r, "send")
  /\ UNCHANGED <<leaseVars, auditVars, statusVars>>

\* Event Hubs has the event; the thread that sends it returns later.
EventStored(r) ==
  /\ Awaits(r, "send") /\ Continues(r, "stored")
  /\ delivered' = [delivered EXCEPT ![r] = @ + 1]
  /\ UNCHANGED <<leaseVars, producer, excused, statusVars>>

EventSent(r) ==
  /\ Awaits(r, "stored") /\ Continues(r, "replied")
  /\ UNCHANGED <<leaseVars, auditVars, statusVars>>

\* Seeded bug: an event whose sending raised is sent again.
EventRetried(r) ==
  /\ \E pc \in {"batch", "send", "stored"} : Awaits(r, pc)
  /\ delivered[r] < 2 /\ Continues(r, "send")
  /\ UNCHANGED <<leaseVars, auditVars, statusVars>>

\* Any exception is logged, and the command is answered.
EventFails(r) ==
  /\ \E pc \in {"batch", "send", "stored"} : Awaits(r, pc)
  /\ Continues(r, "replied")
  /\ excused' = excused \cup {r}
  /\ UNCHANGED <<leaseVars, producer, delivered, statusVars>>

-----------------------------------------------------------------------------
(* get_session and get_sandbox_pod *)

GetSession(r, u, s) ==
  /\ Arrives(r, u, s, "get", "read")
  /\ goneBefore' = [goneBefore EXCEPT ![r] = destroyed]
  /\ UNCHANGED <<leaseVars, auditVars, reported>>

\* 404 is answered as an empty record, whose phase is unknown.
Status(p) == IF p \in destroyed THEN "unknown" ELSE "live"

\* Kubernetes reads the pod; the answer comes later, and says running for the
\* session whatever has become of it.
PodRead(r) ==
  /\ Awaits(r, "read") /\ Continues(r, "replying")
  /\ reported' = [reported EXCEPT ![r] = Status(request[r].pod)]
  /\ UNCHANGED <<leaseVars, auditVars, goneBefore>>

GetReplies(r) ==
  /\ Awaits(r, "replying") /\ Continues(r, "replied")
  /\ UNCHANGED <<leaseVars, auditVars, statusVars>>

\* The exchange or the call raises.
PodReadFails(r) ==
  /\ Awaits(r, "read") \/ Awaits(r, "replying")
  /\ Continues(r, "failed")
  /\ reported' = [reported EXCEPT ![r] = "none"]
  /\ UNCHANGED <<leaseVars, auditVars, goneBefore>>

-----------------------------------------------------------------------------
(* The rest of the control plane *)

InFlight == {"batch", "send", "stored", "read", "replying"}

LeasesMove ==
  /\ \/ \E s \in SessionIds, u \in Users, p \in Pods : Grant(s, u, p)
     \/ \E s \in SessionIds : Abandon(s) \/ Release(s)
     \/ \E p \in Pods : Destroy(p)
  /\ UNCHANGED <<request, auditVars, statusVars>>

\* Requests in flight are gone, and with them the events not yet sent.
\* The leases take a step of Forget.
ControlPlaneRestarts ==
  /\ \E dropped \in SUBSET {s \in SessionIds : lease[s] = Fresh} :
       lease' = [s \in SessionIds |->
         IF lease[s].state = "held" \/ s \in dropped THEN Ended ELSE lease[s]]
  /\ UNCHANGED destroyed
  /\ producer' = "untried"
  /\ request' = [r \in Requests |->
       IF request[r].pc \in InFlight THEN [request[r] EXCEPT !.pc = "lost"] ELSE request[r]]
  /\ UNCHANGED <<delivered, excused, statusVars>>

CommandNext ==
  \/ \E r \in Requests :
       \/ \E u \in Users, s \in SessionIds : RunCommand(r, u, s) \/ GetSession(r, u, s)
       \/ BatchCreated(r) \/ EventStored(r) \/ EventSent(r) \/ EventFails(r)
       \/ PodRead(r) \/ GetReplies(r) \/ PodReadFails(r)
  \/ LeasesMove \/ ControlPlaneRestarts

CommandSpec == CommandInit /\ [][CommandNext]_commandVars

-----------------------------------------------------------------------------
(* Properties *)

Asked(pcs, kind) == [pc : pcs \cup {"lost"}, kind : {kind}, pod : Pods]

CommandTypeOK ==
  /\ LeaseTypeOK
  /\ request \in [Requests -> {Unasked}
                    \cup Asked({"batch", "send", "stored", "replied"}, "run")
                    \cup Asked({"read", "replying", "replied", "failed"}, "get")]
  /\ producer \in {"untried", "none", "ready"}
  /\ delivered \in [Requests -> Nat]
  /\ excused \subseteq Requests
  /\ reported \in [Requests -> {"none", "live", "unknown"}]
  /\ goneBefore \in [Requests -> SUBSET Pods]

\* Event Hubs gets no event twice; and a command that was answered has its
\* event there, or the log says why not.
CommandsAudited ==
  \A r \in Requests :
    /\ delivered[r] =< 1
    /\ request[r].kind = "run" /\ request[r].pc = "replied" => delivered[r] = 1 \/ r \in excused

\* The record a GET answers from may be out of date, but what it says of the
\* pod is newer than the request.
StatusTimely ==
  \A r \in Requests : reported[r] = "live" => request[r].pod \notin goneBefore[r]

\* Both hold while sessions come and go, calls fail with or without effect and
\* the control plane restarts.
RequestsAccounted == CommandsAudited /\ StatusTimely
=============================================================================
