--------------------------- MODULE PreviewSystem ---------------------------
(***************************************************************************)
(* Local Preview as a whole: the Control Plane's requests and evidence     *)
(* handlers (PreviewControlPlane) with the preview Worker that takes the   *)
(* jobs (apps/compiler-worker/src/queued-preview-run.ts) and the runner    *)
(* that drives Docker Compose (preview-runner.ts).                         *)
(*                                                                         *)
(* The Worker is one process with a few concurrent jobs.  A job is a slot; *)
(* it is split where its code awaits.  The queue gives a job out at most   *)
(* twice, but the second execution can overlap the first: what a start     *)
(* registers (stopRequested, runtimeEntered, the abort signal,             *)
(* preDockerCleanupComplete) is kept per execution, a run with a Boolean   *)
(* that says which.  All of it is gone when the process restarts;          *)
(* directories and containers stay.                                        *)
(***************************************************************************)
EXTENDS PreviewControlPlane

CONSTANT Slots   \* concurrent jobs of the preview Worker, two in main.ts

VARIABLES
  slot,           \* the job each slot executes and where it stands
  stopRequested,  \* executions of a start that were told of a stop
  entered,        \* executions of a start in the runtime (runtimeEntered)
  aborted,        \* executions of a start that had their signal aborted
  preDocker,      \* preDockerCleanupComplete of each execution of a start
  replaced,       \* runs whose start registered itself a second time
  skipped,        \* skippedPreviewStarts: starts given up before the runtime
  copies,         \* runs whose directory under .preview-runs exists
  up,             \* runs whose Compose project may have containers
  held,           \* jobs whose lock a Worker that died still holds
  failedJobs,     \* jobs the queue failed, their lock having expired twice
  overlapped      \* runs a job of which was given out while it was executed

starts == <<stopRequested, entered, aborted, preDocker, replaced>>
host   == <<copies, up>>
lost   == <<held, failedJobs, overlapped>>
worker == <<slot, starts, skipped, host, lost>>
vars   == <<controlPlane, worker>>

NoJob == [action |-> "none", run |-> None, again |-> FALSE, pc |-> "free",
          reply |-> FALSE, saw |-> {}, code |-> None, unlocked |-> FALSE]
StartPc == {"dispatch", "replied", "enter", "materialize", "ports", "unreserve",
            "up", "probe", "reportReady", "reportFailed"}
StopPc  == {"dispatch", "replied", "route", "settle", "verify", "down",
            "remove", "reportStopped",
            "reportFailed"}
SlotState == [action : {"none", "start", "stop"}, run : Runs \cup {None},
              again : BOOLEAN, pc : StartPc \cup StopPc \cup {"free"}, reply : BOOLEAN,
              saw : SUBSET BOOLEAN, code : FailureCode \cup {None},
              unlocked : BOOLEAN]

\* The execution of a start in slot s, and those of run r under way.
Execution(s) == <<slot[s].run, slot[s].again>>
Starts(r)    == {s \in Slots : slot[s].action = "start" /\ slot[s].run = r}

\* The start queuedPreviewStarts has for the run: the one registered last.
Registered(r) == {s \in Starts(r) : r \in replaced => slot[s].again}

\* The start activePreviewStarts has for the run, past its first checks: there
\* is one at most.
Active(r) ==
  {s \in Starts(r) : slot[s].pc \in {"materialize", "ports", "unreserve", "up", "probe"}}

Which(S) == {slot[s].again : s \in S}

At(s, action, pc) == slot[s].action = action /\ slot[s].pc = pc
Goto(s, pc)       == slot' = [slot EXCEPT ![s].pc = pc]
Fail(s, code)     == slot' = [slot EXCEPT ![s].pc = "reportFailed", ![s].code = code]
Finish(s)         == slot' = [slot EXCEPT ![s] = NoJob]

(***************************************************************************)
(* A slot takes the oldest job.  A start registers itself and a stop tells *)
(* the registered start before either awaits anything.                     *)
(***************************************************************************)
Take(s) ==
  /\ slot[s].pc = "free"
  /\ queue # <<>>
  /\ LET job == Head(queue)
         told == IF job.action = "stop" THEN Which(Registered(job.run)) ELSE {}
     IN /\ slot' = [slot EXCEPT ![s] = [NoJob EXCEPT !.action = job.action,
                      !.run = job.run, !.again = job.again, !.pc = "dispatch",
                      !.saw = told]]
        /\ stopRequested' = stopRequested \cup ({job.run} \X told)
        /\ replaced' = IF job.action = "start" /\ job.again
                       THEN replaced \cup {job.run} ELSE replaced
  /\ queue' = Tail(queue)
  /\ UNCHANGED <<rows, req, faults, entered, aborted, preDocker, skipped, host, lost>>

\* getPreviewDispatch answers; a lost call is an error to the Worker as well.
Dispatch(s) ==
  /\ slot[s].pc = "dispatch"
  /\ \/ /\ slot' = [slot EXCEPT ![s].pc = "replied",
                      ![s].reply = Dispatchable(slot[s].action, slot[s].run)]
        /\ UNCHANGED faults
     \/ /\ Fault("net")
        /\ slot' = [slot EXCEPT ![s].pc = "replied", ![s].reply = FALSE]
  /\ UNCHANGED <<rows, queue, req, starts, skipped, host>>

(***************************************************************************)
(* The start job.                                                          *)
(***************************************************************************)
\* With a stop requested the start gives up whatever the dispatch said.
StartReplied(s) ==
  /\ At(s, "start", "replied")
  /\ IF Execution(s) \in stopRequested
     THEN /\ skipped' = skipped \cup {slot[s].run}
          /\ Finish(s)
          /\ UNCHANGED entered
     ELSE /\ UNCHANGED skipped
          /\ IF slot[s].reply
             THEN Goto(s, "enter") /\ entered' = entered \cup {Execution(s)}
             ELSE Fail(s, "preview_start_failed") /\ UNCHANGED entered
  /\ UNCHANGED <<controlPlane, stopRequested, aborted, preDocker, replaced, host>>

\* How a start that entered the runtime ends in failure: silently when a stop
\* was requested or the start was cancelled, else with a report of its code.
StartFails(s, code) ==
  IF Execution(s) \in stopRequested THEN Finish(s) ELSE Fail(s, code)

\* The environment is read, then the start is registered as active, unless the
\* run has an active start: that one goes on, and this one fails.
StartEnter(s) ==
  /\ At(s, "start", "enter")
  /\ \/ Active(slot[s].run) = {} /\ Goto(s, "materialize") /\ UNCHANGED faults
     \/ Active(slot[s].run) # {} /\ StartFails(s, "preview_start_failed") /\ UNCHANGED faults
     \/ Fault("artifact") /\ StartFails(s, "preview_artifact_failed")
  /\ UNCHANGED <<rows, queue, req, starts, skipped, host>>

\* The artifacts are verified, a directory an earlier execution left is removed,
\* and the copy is written.  A failed copy is removed, if it can be.
StartMaterialize(s) ==
  /\ At(s, "start", "materialize")
  /\ \/ /\ slot[s].run \in copies
        /\ copies' = copies \ {slot[s].run}
        /\ UNCHANGED <<slot, faults>>
     \/ /\ slot[s].run \notin copies
        /\ Goto(s, "ports")
        /\ copies' = copies \cup {slot[s].run}
        /\ UNCHANGED faults
     \/ /\ Fault("artifact")
        /\ StartFails(s, "preview_artifact_failed")
        /\ copies' \in {copies \ {slot[s].run}, copies \cup {slot[s].run}}
  /\ UNCHANGED <<rows, queue, req, starts, skipped, up>>

\* Two ports are reserved and released.  An abort seen here cancels the start,
\* with preDockerCleanupComplete false when the reservation did not close; a
\* failed reservation goes on to remove the copy.  From compose up on there may
\* be containers, if the copied Compose file is there to be read.
StartPorts(s) ==
  /\ At(s, "start", "ports")
  /\ LET r == slot[s].run
         e == Execution(s)
     IN IF e \in aborted
        THEN /\ Finish(s)
             /\ \/ UNCHANGED <<preDocker, faults>>
                \/ Fault("ports") /\ preDocker' = [preDocker EXCEPT ![e] = "incomplete"]
             /\ UNCHANGED up
        ELSE \/ /\ Goto(s, "up")
                /\ up' = up \cup ({r} \cap copies)
                /\ UNCHANGED <<preDocker, faults>>
             \/ /\ Fault("ports")
                /\ Goto(s, "unreserve")
                /\ preDocker' = [preDocker EXCEPT ![e] = "incomplete"]
                /\ UNCHANGED up
  /\ UNCHANGED <<rows, queue, req, stopRequested, entered, aborted, replaced, skipped,
                 copies>>

StartUnreserve(s) ==
  /\ At(s, "start", "unreserve")
  /\ LET r == slot[s].run
         e == Execution(s)
     IN /\ \/ /\ copies' = copies \ {r}
              /\ preDocker' \in {preDocker, [preDocker EXCEPT ![e] = "complete"]}
              /\ UNCHANGED faults
           \/ Fault("remove") /\ UNCHANGED <<copies, preDocker>>
        /\ IF e \in aborted THEN Finish(s) ELSE StartFails(s, "preview_start_failed")
  /\ UNCHANGED <<rows, queue, req, stopRequested, entered, aborted, replaced, skipped, up>>

\* compose up, then port discovery and readiness.  A late abort can lose to an
\* operation that has just succeeded.
StartProceeds(s) ==
  /\ slot[s].run \in up
  /\ \/ At(s, "start", "up") /\ Goto(s, "probe")
     \/ At(s, "start", "probe") /\ Goto(s, "reportReady")
  /\ UNCHANGED <<controlPlane, starts, skipped, host>>

StartCancelled(s) ==
  /\ At(s, "start", "up") \/ At(s, "start", "probe")
  /\ Execution(s) \in aborted
  /\ Finish(s)
  /\ UNCHANGED <<controlPlane, starts, skipped, host>>

\* Mutant of StageCode: a code outside the runner's vocabulary of failures.
StageCodeUnknown(pc) == {"preview_start_cancelled"}

\* What a failure of each stage is called.
StageCode(pc) ==
  IF pc = "up" THEN {"preview_compose_up_failed"}
  ELSE {"preview_port_discovery_failed", "preview_readiness_failed"}

\* Mutant of StartCleanup: the copy is removed whatever the failure was.
StartCleanupWhole(s, code) ==
  LET r == slot[s].run
  IN \/ r \in copies /\ up' = up \ {r} /\ copies' = copies \ {r}
     \/ (r \notin copies \/ "down" \in Faults) /\ UNCHANGED host

\* The cleanup of a failed start: the copied Compose file is verified, compose
\* down, and the copy is removed unless the failure was a timeout.  A cleanup
\* step that fails leaves the rest undone.
StartCleanup(s, code) ==
  LET r == slot[s].run
      removed == IF code = "preview_start_timeout" THEN copies ELSE copies \ {r}
  IN \/ r \in copies /\ up' = up \ {r} /\ copies' = removed
     \/ r \in copies /\ "remove" \in Faults /\ up' = up \ {r} /\ UNCHANGED copies
     \/ (r \notin copies \/ "down" \in Faults) /\ UNCHANGED host

StartStageFails(s) ==
  /\ At(s, "start", "up") \/ At(s, "start", "probe")
  /\ \E code \in StageCode(slot[s].pc) \cup {"preview_start_timeout"} :
       /\ IF slot[s].run \in up
          THEN Fault(IF code = "preview_start_timeout" THEN "timeout"
                     ELSE IF slot[s].pc = "up" THEN "compose" ELSE "probe")
          ELSE UNCHANGED faults
       /\ StartCleanup(s, code)
       /\ StartFails(s, code)
  /\ UNCHANGED <<rows, queue, req, starts, skipped>>

\* Ready evidence: applied, rejected, or lost on either leg of the call.
StartReportsReady(s) ==
  /\ At(s, "start", "reportReady")
  /\ LET r == slot[s].run
         Raises == StartFails(s, "preview_start_failed")
     IN \/ /\ AcceptsReady(r)
           /\ ReportPreviewReady(r)
           /\ \/ Finish(s) /\ UNCHANGED faults
              \/ Fault("net") /\ Raises
        \/ /\ \/ ~AcceptsReady(r) /\ UNCHANGED faults
              \/ Fault("net")
           /\ Raises
           /\ UNCHANGED rows
  /\ UNCHANGED <<queue, req, starts, skipped, host>>

\* Failure evidence of either action.  The job then ends, accepted or not.
ReportsFailed(s) ==
  /\ slot[s].pc = "reportFailed"
  /\ LET r == slot[s].run
     IN \/ /\ AcceptsFailed(r, slot[s].code)
           /\ ReportPreviewFailed(r, slot[s].code)
           /\ UNCHANGED faults
        \/ ~AcceptsFailed(r, slot[s].code) /\ UNCHANGED <<rows, faults>>
        \/ Fault("net") /\ UNCHANGED rows
  /\ Finish(s)
  /\ UNCHANGED <<queue, req, starts, skipped, host>>

(***************************************************************************)
(* The stop job.                                                           *)
(***************************************************************************)
\* A stop that told a start waits for it, unless that start is in the runtime.
StopReplied(s) ==
  /\ At(s, "stop", "replied")
  /\ IF slot[s].reply
     THEN /\ \A o \in Starts(slot[s].run) :
               slot[o].again \in slot[s].saw => Execution(o) \in entered
          /\ Goto(s, "route")
     ELSE Fail(s, "preview_stop_failed")
  /\ UNCHANGED <<controlPlane, starts, skipped, host>>

\* Mutant of StopRoute: an active start is neither aborted nor waited for.
StopRouteAtOnce(s) ==
  /\ At(s, "stop", "route")
  /\ Goto(s, IF slot[s].run \in skipped THEN "reportStopped" ELSE "verify")
  /\ UNCHANGED <<controlPlane, starts, skipped, host>>

\* A skipped start has nothing to take down; an active one is aborted first.
\* A start that entered the runtime becomes active after its first file reads:
\* a stop that gets here before it does ("stall") finds nothing to abort.
StopRoute(s) ==
  /\ At(s, "stop", "route")
  /\ LET r == slot[s].run
         Entering == \E o \in Starts(r) : slot[o].pc = "enter"
     IN \/ /\ r \in skipped
           /\ Goto(s, "reportStopped")
           /\ UNCHANGED <<aborted, faults>>
        \/ /\ r \notin skipped /\ Active(r) # {}
           /\ slot' = [slot EXCEPT ![s].pc = "settle", ![s].saw = Which(Active(r))]
           /\ aborted' = aborted \cup ({r} \X Which(Active(r)))
           /\ UNCHANGED faults
        \/ /\ r \notin skipped /\ Active(r) = {}
           /\ Goto(s, "verify")
           /\ IF Entering THEN Fault("stall") ELSE UNCHANGED faults
           /\ UNCHANGED aborted
  /\ UNCHANGED <<rows, queue, req, stopRequested, entered, preDocker, replaced, skipped,
                 host>>

StopSettled(s) ==
  /\ At(s, "stop", "settle")
  /\ Which(Active(slot[s].run)) \cap slot[s].saw = {}
  /\ LET ended == {preDocker[<<slot[s].run, a>>] : a \in slot[s].saw}
     IN CASE "complete" \in ended   -> Goto(s, "reportStopped")
          [] "incomplete" \in ended -> Fail(s, "preview_stop_failed")
          [] OTHER                  -> Goto(s, "verify")
  /\ UNCHANGED <<controlPlane, starts, skipped, host>>

\* The copied Compose file is verified before Docker is asked anything.
StopVerify(s) ==
  /\ At(s, "stop", "verify")
  /\ IF slot[s].run \in copies THEN Goto(s, "down") ELSE Fail(s, "preview_stop_failed")
  /\ UNCHANGED <<controlPlane, starts, skipped, host>>

StopDown(s) ==
  /\ At(s, "stop", "down")
  /\ \/ Goto(s, "remove") /\ up' = up \ {slot[s].run} /\ UNCHANGED faults
     \/ Fault("down") /\ Fail(s, "preview_stop_failed") /\ UNCHANGED up
  /\ UNCHANGED <<rows, queue, req, starts, skipped, copies>>

StopRemove(s) ==
  /\ At(s, "stop", "remove")
  /\ \/ Goto(s, "reportStopped") /\ copies' = copies \ {slot[s].run} /\ UNCHANGED faults
     \/ Fault("remove") /\ Fail(s, "preview_stop_failed") /\ UNCHANGED copies
  /\ UNCHANGED <<rows, queue, req, starts, skipped, up>>

\* Stopped evidence.  A skipped start is forgotten once it is acknowledged.
StopReportsStopped(s) ==
  /\ At(s, "stop", "reportStopped")
  /\ LET r == slot[s].run
         Raises == Fail(s, "preview_stop_failed") /\ UNCHANGED skipped
     IN \/ /\ AcceptsStopped(r)
           /\ ReportPreviewStopped(r)
           /\ \/ Finish(s) /\ skipped' = skipped \ {r} /\ UNCHANGED faults
              \/ Fault("net") /\ Raises
        \/ /\ \/ ~AcceptsStopped(r) /\ UNCHANGED faults
              \/ Fault("net")
           /\ Raises
           /\ UNCHANGED rows
  /\ UNCHANGED <<queue, req, starts, host>>

(***************************************************************************)
(* The queue gives a job out again when its lock expires: once more, before *)
(* the jobs that wait; the second time it fails the job.  A Worker that    *)
(* died leaves its locks to expire.  One that lives renews them, but not   *)
(* while a verification of the same process blocks it in spawnSync: then   *)
(* the queue takes a job for stalled whose execution goes on ("block").    *)
(***************************************************************************)
GiveOutAgain(job) ==
  IF job.again
  THEN failedJobs' = failedJobs \cup {job} /\ UNCHANGED queue
  ELSE queue' = <<[job EXCEPT !.again = TRUE]>> \o queue /\ UNCHANGED failedJobs

JobIn(s) == [action |-> slot[s].action, run |-> slot[s].run, again |-> slot[s].again]
UnderWay == {JobIn(s) : s \in {t \in Slots : slot[t].pc # "free" /\ ~slot[t].unlocked}}

\* The process is restarted.  What it knew of its starts is gone, its locks stay.
WorkerRestart ==
  /\ \/ \E s \in Slots : slot[s].pc # "free"
     \/ skipped # {}
  /\ Fault("restart")
  /\ held' = held \cup UnderWay
  /\ slot' = [s \in Slots |-> NoJob]
  /\ stopRequested' = {} /\ entered' = {} /\ aborted' = {} /\ replaced' = {}
  /\ preDocker' = [e \in Runs \X BOOLEAN |-> "unset"]
  /\ skipped' = {}
  /\ UNCHANGED <<rows, queue, req, host, failedJobs, overlapped>>

LockExpires(job) ==
  /\ job \in held
  /\ held' = held \ {job}
  /\ GiveOutAgain(job)
  /\ UNCHANGED <<rows, req, faults, slot, starts, skipped, host, overlapped>>

\* The lock of a job in a slot expires and cannot be renewed: the slot executes
\* it to its end all the same.
LockLost(s) ==
  /\ slot[s].pc # "free" /\ ~slot[s].unlocked
  /\ Fault("block")
  /\ slot' = [slot EXCEPT ![s].unlocked = TRUE]
  /\ GiveOutAgain(JobIn(s))
  /\ overlapped' = IF slot[s].again THEN overlapped ELSE overlapped \cup {slot[s].run}
  /\ UNCHANGED <<rows, req, starts, skipped, host, held>>

-----------------------------------------------------------------------------
Init ==
  /\ ControlPlaneInit
  /\ slot = [s \in Slots |-> NoJob]
  /\ stopRequested = {} /\ entered = {} /\ aborted = {} /\ replaced = {}
  /\ preDocker = [e \in Runs \X BOOLEAN |-> "unset"]
  /\ skipped = {} /\ copies = {} /\ up = {}
  /\ held = {} /\ failedJobs = {} /\ overlapped = {}

JobStep(s) ==
  \/ Dispatch(s) \/ ReportsFailed(s)
  \/ StartReplied(s) \/ StartEnter(s) \/ StartMaterialize(s) \/ StartPorts(s)
  \/ StartUnreserve(s) \/ StartProceeds(s) \/ StartCancelled(s)
  \/ StartStageFails(s) \/ StartReportsReady(s)
  \/ StopReplied(s) \/ StopRoute(s) \/ StopSettled(s) \/ StopVerify(s)
  \/ StopDown(s) \/ StopRemove(s) \/ StopReportsStopped(s)

SlotStep(s) == JobStep(s) /\ UNCHANGED lost

Next ==
  \/ ControlPlaneNext /\ UNCHANGED worker
  \/ \E s \in Slots : Take(s)
  \/ \E s \in Slots : SlotStep(s)
  \/ WorkerRestart
  \/ \E job \in held : LockExpires(job)
  \/ \E s \in Slots : LockLost(s)

Spec == Init /\ [][Next]_vars

(***************************************************************************)
(* Fairness.  A request in flight, a free slot with a job waiting, and a   *)
(* job being executed all make progress: the event loops run, every Docker *)
(* operation has a deadline (runPreviewOperation), and locks expire.       *)
(* Nothing is assumed of the people and clients who send requests.         *)
(***************************************************************************)
Fairness ==
  /\ \A k \in Clients : WF_vars(RequestStep(k) /\ UNCHANGED worker)
  /\ WF_vars(\E s \in Slots : Take(s))
  /\ \A s \in Slots : WF_vars(SlotStep(s))
  /\ WF_vars(\E job \in held : LockExpires(job))

FairSpec == Spec /\ Fairness

TypeOK ==
  /\ ControlPlaneTypeOK
  /\ slot \in [Slots -> SlotState]
  /\ stopRequested \subseteq Runs \X BOOLEAN /\ entered \subseteq Runs \X BOOLEAN
  /\ aborted \subseteq Runs \X BOOLEAN
  /\ preDocker \in [Runs \X BOOLEAN -> {"unset", "complete", "incomplete"}]
  /\ replaced \subseteq Runs /\ skipped \subseteq Runs /\ overlapped \subseteq Runs
  /\ copies \subseteq Runs /\ up \subseteq Runs
  /\ held \subseteq Job /\ failedJobs \subseteq Job
=============================================================================
