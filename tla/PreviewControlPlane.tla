------------------------ MODULE PreviewControlPlane ------------------------
(***************************************************************************)
(* The Control Plane's side of Local Preview: the PreviewRun table, the    *)
(* public requests that create and stop runs, and the handlers that accept *)
(* a Worker's evidence (apps/control-plane/src/lifecycle.service.ts).      *)
(*                                                                         *)
(* A request is split where its code awaits: other requests and the Worker *)
(* run between two of its steps.  The database executes one statement at a *)
(* time, so a statement is one step; its unique constraints are guards.    *)
(* The Worker's actions are in PreviewSystem, which extends this module.   *)
(***************************************************************************)
EXTENDS Naturals, Sequences, FiniteSets

CONSTANTS
  Runs,          \* preview run identities (random, or named by the caller)
  Compilations,  \* succeeded compilations with one registered artifact root
  Clients,       \* concurrent requests to the Control Plane
  None,          \* the database NULL
  Faults,        \* the kinds of fault a run of the model may meet
  MaxFaults      \* bound: how many faults a behaviour contains

FaultKinds == {"queue", "ack", "crash", "net", "artifact", "ports", "compose",
               "probe", "timeout", "down", "remove", "stall", "restart", "block"}

VARIABLES
  status,      \* status column, "unused" before the insert, "deleted" after
  comp,        \* compilationId column
  activeKey,   \* activeKey column: nullable and unique
  sequence,    \* sequence column: unique with compilationId
  diagnostic,  \* the failure code behind the diagnostic column, or None
  queue,       \* the Redis list of the preview queue, oldest job first
  req,         \* what each request in flight remembers between its awaits
  faults       \* faults met so far (bound only)

rows == <<status, comp, activeKey, sequence, diagnostic>>
controlPlane == <<rows, queue, req, faults>>

LiveStatus == {"starting", "ready", "stopping", "failed"}
RowStatus  == LiveStatus \cup {"stopped"}
Status     == RowStatus \cup {"unused", "deleted"}

\* The Worker's PreviewFailureCode values, a cancellation apart.
FailureCode == {"preview_artifact_failed", "preview_compose_up_failed",
                "preview_port_discovery_failed", "preview_readiness_failed",
                "preview_start_failed", "preview_start_timeout",
                "preview_stop_failed"}
\* The codes previewFailedEvidence knows (preview_health_check_failed is the
\* fourth, which the runner never throws).
AcceptedCode == {"preview_start_failed", "preview_start_timeout",
                 "preview_stop_failed"}

\* What a failed enqueue of a local acceptance run leaves in diagnostic.
EnqueueFailed == "acknowledgement_failed"

ASSUME PreviewAssumption ==
  /\ None \notin Compilations
  /\ None \notin Runs
  /\ None \notin FailureCode
  /\ IsFiniteSet(Runs)
  /\ Faults \subseteq FaultKinds
  /\ MaxFaults \in Nat

\* "again" marks a job that the queue gives out for the second time.
Job == [action : {"start", "stop"}, run : Runs, again : BOOLEAN]

Idle == [op |-> "none", pc |-> "idle", comp |-> None, run |-> None,
         seq |-> 0, seen |-> "unused"]
Request == [op : {"none", "create", "accept", "stop"},
            pc : {"idle", "count", "insert", "cas", "enqueue", "undo"},
            comp : Compilations \cup {None}, run : Runs \cup {None},
            seq : Nat, seen : Status]

(***************************************************************************)
(* Reads of the table.                                                     *)
(***************************************************************************)
RowsOf(c) == {r \in Runs : status[r] \in RowStatus /\ comp[r] = c}

\* findFirst ordered by sequence, descending.
Latest(c) == CHOOSE r \in RowsOf(c) : \A o \in RowsOf(c) : sequence[o] <= sequence[r]

Has(c, S) == RowsOf(c) # {} /\ status[Latest(c)] \in S

\* An identity nobody has used: randomUUID never repeats one in use.
Fresh(r) == status[r] = "unused" /\ \A k \in Clients : req[k].run # r

Fault(kind) ==
  /\ kind \in Faults
  /\ faults < MaxFaults
  /\ faults' = faults + 1

(***************************************************************************)
(* createPreviewRun and createLocalAcceptancePreviewRun.  Both read the    *)
(* current run, count the rows for the next sequence number, insert, and   *)
(* enqueue a start job; they differ in who names the run, in which current *)
(* run stops them and in what a failed enqueue leaves behind.              *)
(***************************************************************************)
CreateRead(k, c) ==
  /\ req[k].pc = "idle"
  /\ ~Has(c, {"starting", "ready"})
  /\ req' = [req EXCEPT ![k] = [Idle EXCEPT !.op = "create", !.pc = "count",
                                            !.comp = c]]
  /\ UNCHANGED <<rows, queue, faults>>

\* The caller names the run, with a digest no randomUUID can equal.  A run that
\* exists already is only returned.
AcceptRead(k, c, r) ==
  /\ req[k].pc = "idle"
  /\ status[r] = "unused"
  /\ ~Has(c, LiveStatus)
  /\ req' = [req EXCEPT ![k] = [Idle EXCEPT !.op = "accept", !.pc = "count",
                                            !.comp = c, !.run = r]]
  /\ UNCHANGED <<rows, queue, faults>>

CountRuns(k) ==
  /\ req[k].pc = "count"
  /\ req' = [req EXCEPT ![k].pc = "insert",
                        ![k].seq = Cardinality(RowsOf(req[k].comp)) + 1]
  /\ UNCHANGED <<rows, queue, faults>>

\* Mutant of Insertable: activeKey without its unique index.
InsertableWithoutLease(r, c, n) ==
  /\ status[r] \notin RowStatus
  /\ \A o \in RowsOf(c) : sequence[o] # n

\* id, activeKey and (compilationId, sequence) are unique in schema.prisma.
Insertable(r, c, n) ==
  /\ status[r] \notin RowStatus
  /\ \A o \in Runs : activeKey[o] # c
  /\ \A o \in RowsOf(c) : sequence[o] # n

InsertAs(k, r) ==
  LET c == req[k].comp
      n == req[k].seq
  IN IF Insertable(r, c, n)
     THEN /\ status' = [status EXCEPT ![r] = "starting"]
          /\ comp' = [comp EXCEPT ![r] = c]
          /\ activeKey' = [activeKey EXCEPT ![r] = c]
          /\ sequence' = [sequence EXCEPT ![r] = n]
          /\ diagnostic' = [diagnostic EXCEPT ![r] = None]
          /\ req' = [req EXCEPT ![k].run = r, ![k].pc = "enqueue"]
     ELSE /\ req' = [req EXCEPT ![k] = Idle]  \* the winner's run, or a Conflict
          /\ UNCHANGED rows

InsertRun(k) ==
  /\ req[k].pc = "insert"
  /\ IF req[k].op = "accept" THEN InsertAs(k, req[k].run)
     ELSE \E r \in Runs : Fresh(r) /\ InsertAs(k, r)
  /\ UNCHANGED <<queue, faults>>

(***************************************************************************)
(* stopPreviewRun: read, compare-and-set to stopping, enqueue a stop job.  *)
(***************************************************************************)
StopRead(k, r) ==
  /\ req[k].pc = "idle"
  /\ status[r] \in {"starting", "ready", "failed"}
  /\ req' = [req EXCEPT ![k] = [Idle EXCEPT !.op = "stop", !.pc = "cas",
                                            !.run = r, !.seen = status[r]]]
  /\ UNCHANGED <<rows, queue, faults>>

StopTransition(k) ==
  /\ req[k].pc = "cas"
  /\ LET r == req[k].run
     IN IF status[r] = req[k].seen
        THEN /\ status' = [status EXCEPT ![r] = "stopping"]
             /\ req' = [req EXCEPT ![k].pc = "enqueue"]
        ELSE /\ req' = [req EXCEPT ![k] = Idle]
             /\ UNCHANGED status
  /\ UNCHANGED <<comp, activeKey, sequence, diagnostic, queue, faults>>

(***************************************************************************)
(* The enqueue every request ends with, and the compensation of one that   *)
(* raised.  The queue's add can raise after Redis stored the job: the      *)
(* acknowledgement is what was lost ("ack"), not the job.                  *)
(***************************************************************************)
JobOf(k) == [action |-> IF req[k].op = "stop" THEN "stop" ELSE "start",
             run |-> req[k].run, again |-> FALSE]

Enqueue(k) ==
  /\ req[k].pc = "enqueue"
  /\ queue' = Append(queue, JobOf(k))
  /\ req' = [req EXCEPT ![k] = Idle]
  /\ UNCHANGED <<rows, faults>>

EnqueueRaises(k) ==
  /\ req[k].pc = "enqueue"
  /\ \/ Fault("queue") /\ UNCHANGED queue
     \/ Fault("ack") /\ queue' = Append(queue, JobOf(k))
  /\ req' = [req EXCEPT ![k].pc = "undo"]
  /\ UNCHANGED rows

\* deleteMany where status is starting
UndoCreate(k) ==
  /\ req[k].pc = "undo" /\ req[k].op = "create"
  /\ LET r == req[k].run
     IN IF status[r] = "starting"
        THEN /\ status' = [status EXCEPT ![r] = "deleted"]
             /\ activeKey' = [activeKey EXCEPT ![r] = None]
        ELSE UNCHANGED <<status, activeKey>>
  /\ req' = [req EXCEPT ![k] = Idle]
  /\ UNCHANGED <<comp, sequence, diagnostic, queue, faults>>

\* updateMany from starting to failed: the row and its activeKey stay
UndoAccept(k) ==
  /\ req[k].pc = "undo" /\ req[k].op = "accept"
  /\ LET r == req[k].run
     IN IF status[r] = "starting"
        THEN /\ status' = [status EXCEPT ![r] = "failed"]
             /\ diagnostic' = [diagnostic EXCEPT ![r] = EnqueueFailed]
        ELSE UNCHANGED <<status, diagnostic>>
  /\ req' = [req EXCEPT ![k] = Idle]
  /\ UNCHANGED <<comp, activeKey, sequence, queue, faults>>

\* Mutant of UndoStop: a stop that could not be queued is not taken back.
UndoStopForgotten(k) ==
  /\ req[k].pc = "undo" /\ req[k].op = "stop"
  /\ req' = [req EXCEPT ![k] = Idle]
  /\ UNCHANGED <<rows, queue, faults>>

\* updateMany from stopping back to the status the request read
UndoStop(k) ==
  /\ req[k].pc = "undo" /\ req[k].op = "stop"
  /\ LET r == req[k].run
     IN status' = [status EXCEPT ![r] = IF @ = "stopping" THEN req[k].seen ELSE @]
  /\ req' = [req EXCEPT ![k] = Idle]
  /\ UNCHANGED <<comp, activeKey, sequence, diagnostic, queue, faults>>

\* The process restarts: every request in flight is gone, compensation too.
ControlPlaneRestart ==
  /\ \E k \in Clients : req[k].pc # "idle"
  /\ Fault("crash")
  /\ req' = [k \in Clients |-> Idle]
  /\ UNCHANGED <<rows, queue>>

(***************************************************************************)
(* Handlers of the Worker's calls.  Each Report is applied only when the   *)
(* conditional update finds the expected status; otherwise it is a 409 or, *)
(* for a code it does not know, a 400, and changes nothing.                *)
(***************************************************************************)
Dispatchable(action, r) ==
  status[r] = IF action = "start" THEN "starting" ELSE "stopping"

\* Mutant of AcceptsReady: the update is not conditional on starting.
AcceptsReadyLate(r) == status[r] \in {"starting", "stopping"}

AcceptsReady(r) == status[r] = "starting"

AcceptsFailed(r, code) ==
  /\ code \in AcceptedCode
  /\ status[r] = IF code = "preview_stop_failed" THEN "stopping" ELSE "starting"

AcceptsStopped(r) == status[r] = "stopping"

ReportPreviewReady(r) ==
  /\ status' = [status EXCEPT ![r] = "ready"]
  /\ UNCHANGED <<comp, activeKey, sequence, diagnostic>>

\* Mutant of ReportPreviewFailed: failure gives the lease up as a stop does.
ReportPreviewFailedReleasing(r, code) ==
  /\ status' = [status EXCEPT ![r] = "failed"]
  /\ diagnostic' = [diagnostic EXCEPT ![r] = code]
  /\ activeKey' = [activeKey EXCEPT ![r] = None]
  /\ UNCHANGED <<comp, sequence>>

ReportPreviewFailed(r, code) ==
  /\ status' = [status EXCEPT ![r] = "failed"]
  /\ diagnostic' = [diagnostic EXCEPT ![r] = code]
  /\ UNCHANGED <<comp, activeKey, sequence>>

\* Mutant of ReportPreviewStopped: the lease is not given up.
ReportPreviewStoppedHolding(r) ==
  /\ status' = [status EXCEPT ![r] = "stopped"]
  /\ UNCHANGED <<comp, activeKey, sequence, diagnostic>>

ReportPreviewStopped(r) ==
  /\ status' = [status EXCEPT ![r] = "stopped"]
  /\ activeKey' = [activeKey EXCEPT ![r] = None]
  /\ UNCHANGED <<comp, sequence, diagnostic>>

-----------------------------------------------------------------------------
ControlPlaneInit ==
  /\ status = [r \in Runs |-> "unused"]
  /\ comp = [r \in Runs |-> None]
  /\ activeKey = [r \in Runs |-> None]
  /\ sequence = [r \in Runs |-> 0]
  /\ diagnostic = [r \in Runs |-> None]
  /\ queue = <<>>
  /\ req = [k \in Clients |-> Idle]
  /\ faults = 0

\* One step of a request that has begun.
RequestStep(k) ==
  \/ CountRuns(k) \/ InsertRun(k)
  \/ StopTransition(k)
  \/ Enqueue(k) \/ EnqueueRaises(k)
  \/ UndoCreate(k) \/ UndoAccept(k) \/ UndoStop(k)

ControlPlaneNext ==
  \/ \E k \in Clients, c \in Compilations : CreateRead(k, c)
  \/ \E k \in Clients, c \in Compilations, r \in Runs : AcceptRead(k, c, r)
  \/ \E k \in Clients, r \in Runs : StopRead(k, r)
  \/ \E k \in Clients : RequestStep(k)
  \/ ControlPlaneRestart

ControlPlaneTypeOK ==
  /\ status \in [Runs -> Status]
  /\ comp \in [Runs -> Compilations \cup {None}]
  /\ activeKey \in [Runs -> Compilations \cup {None}]
  /\ sequence \in [Runs -> Nat]
  /\ diagnostic \in [Runs -> FailureCode \cup {EnqueueFailed, None}]
  /\ queue \in Seq(Job)
  /\ req \in [Clients -> Request]
  /\ faults \in Nat
=============================================================================
