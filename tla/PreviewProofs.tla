--------------------------- MODULE PreviewProofs ---------------------------
(***************************************************************************)
(* Theorems about Local Preview for any sets of runs, compilations,        *)
(* requests and Worker slots, any kinds of fault and any number of them.   *)
(*                                                                         *)
(* The inductive invariant adds to the properties what a step needs to     *)
(* know of requests in flight: which run a request names once it may write *)
(* a row, and that a stop can only take a run back to a live status.       *)
(***************************************************************************)
EXTENDS PreviewProperties, FiniteSetTheorems, TLAPS

(***************************************************************************)
(* The strengthening.                                                      *)
(***************************************************************************)
\* A slot that is not free executes a job of a run.
SlotsNameRuns ==
  \A s \in Slots : slot[s].pc # "free" =>
    slot[s].run \in Runs /\ slot[s].action \in {"start", "stop"}

RequestsNameRuns ==
  \A k \in Clients :
    /\ req[k].pc \in {"count", "insert"} =>
         /\ req[k].comp \in Compilations
         /\ req[k].op = "accept" => req[k].run \in Runs
    /\ req[k].pc \in {"cas", "enqueue", "undo"} => req[k].run \in Runs
    /\ req[k].pc = "cas" => req[k].op = "stop"

\* What UndoStop writes back is the status of a run with a lease.
StopsSawLiveRuns ==
  \A k \in Clients : req[k].op = "stop" => req[k].seen \in LiveStatus

LiveRunsHaveCompilation ==
  \A r \in Runs : status[r] \in LiveStatus => comp[r] \in Compilations

\* activeKey is unique where it is not null.
KeysDiffer ==
  \A r, o \in Runs : activeKey[r] = activeKey[o] /\ activeKey[r] # None => r = o

Keyed == LiveRunsHaveCompilation /\ KeyMarksLiveRun /\ KeysDiffer

Typed == TypeOK /\ SlotsNameRuns /\ RequestsNameRuns

LeaseInv == Typed /\ StopsSawLiveRuns /\ Keyed

-----------------------------------------------------------------------------
(***************************************************************************)
(* Types.                                                                  *)
(***************************************************************************)
LEMMA InitTyped == Init => Typed
  BY PreviewAssumption
  DEF Init, ControlPlaneInit, Typed, TypeOK, ControlPlaneTypeOK, SlotsNameRuns,
      RequestsNameRuns, Status, RowStatus, LiveStatus, Request, Idle, SlotState,
      NoJob, StartPc, StopPc

LEMMA CountIsNat == ASSUME NEW c PROVE Cardinality(RowsOf(c)) \in Nat
  BY PreviewAssumption, FS_Subset, FS_CardinalityType DEF RowsOf

\* The three ways a request changes: it begins, it goes on to its next await
\* (as the run it inserted, if it has), and it is over.
RequestsTyped == req \in [Clients -> Request] /\ RequestsNameRuns

Names(q) ==
  /\ q.pc \in {"count", "insert"} =>
       q.comp \in Compilations /\ (q.op = "accept" => q.run \in Runs)
  /\ q.pc \in {"cas", "enqueue", "undo"} => q.run \in Runs
  /\ q.pc = "cas" => q.op = "stop"

LEMMA RequestBegins ==
  ASSUME RequestsTyped, NEW k \in Clients, NEW q \in Request, Names(q),
         req' = [req EXCEPT ![k] = q]
  PROVE  RequestsTyped'
  BY DEF RequestsTyped, RequestsNameRuns, Names

LEMMA RequestEnds ==
  ASSUME RequestsTyped, NEW k \in Clients, req' = [req EXCEPT ![k] = Idle]
  PROVE  RequestsTyped'
<1>1. Idle \in Request /\ Names(Idle)
  BY DEF Idle, Request, Names, Status, RowStatus, LiveStatus
<1> QED
  BY <1>1, RequestBegins

LEMMA RequestGoesOn ==
  ASSUME RequestsTyped, NEW k \in Clients, req[k].run \in Runs,
         NEW pc \in {"enqueue", "undo"}, req' = [req EXCEPT ![k].pc = pc]
  PROVE  RequestsTyped'
<1> DEFINE q == [req[k] EXCEPT !.pc = pc]
<1>1. req[k] \in Request /\ Names(req[k])
  BY DEF RequestsTyped, RequestsNameRuns, Names
<1>2. q \in Request /\ Names(q)
  BY <1>1 DEF Request, Names
<1>3. req' = [req EXCEPT ![k] = q]
  BY DEF RequestsTyped
<1> QED
  BY <1>2, <1>3, RequestBegins

LEMMA RequestCounts ==
  ASSUME RequestsTyped, NEW k \in Clients, req[k].pc = "count", NEW n \in Nat,
         req' = [req EXCEPT ![k].pc = "insert", ![k].seq = n]
  PROVE  RequestsTyped'
<1> DEFINE q == [req[k] EXCEPT !.pc = "insert", !.seq = n]
<1>1. req[k] \in Request /\ Names(req[k])
  BY DEF RequestsTyped, RequestsNameRuns, Names
<1>2. q \in Request /\ Names(q)
  BY <1>1 DEF Request, Names
<1>3. req' = [req EXCEPT ![k] = q]
  BY DEF RequestsTyped
<1> QED
  BY <1>2, <1>3, RequestBegins

LEMMA RequestInserts ==
  ASSUME RequestsTyped, NEW k \in Clients, NEW r \in Runs,
         req' = [req EXCEPT ![k].run = r, ![k].pc = "enqueue"]
  PROVE  RequestsTyped'
<1> DEFINE q == [req[k] EXCEPT !.run = r, !.pc = "enqueue"]
<1>1. req[k] \in Request /\ Names(req[k])
  BY DEF RequestsTyped, RequestsNameRuns, Names
<1>2. q \in Request /\ Names(q)
  BY <1>1 DEF Request, Names
<1>3. req' = [req EXCEPT ![k] = q]
  BY DEF RequestsTyped
<1> QED
  BY <1>2, <1>3, RequestBegins

RestTyped ==
  /\ status \in [Runs -> Status]
  /\ comp \in [Runs -> Compilations \cup {None}]
  /\ activeKey \in [Runs -> Compilations \cup {None}]
  /\ sequence \in [Runs -> Nat]
  /\ diagnostic \in [Runs -> FailureCode \cup {EnqueueFailed, None}]
  /\ queue \in Seq(Job)
  /\ faults \in Nat

LEMMA ControlPlaneTypes ==
  ASSUME RequestsTyped, RestTyped, ControlPlaneNext
  PROVE  RequestsTyped' /\ RestTyped'
<1>1. ASSUME NEW k \in Clients, NEW c \in Compilations, CreateRead(k, c)
      PROVE  RequestsTyped' /\ RestTyped'
  <2> DEFINE q == [Idle EXCEPT !.op = "create", !.pc = "count", !.comp = c]
  <2>1. q \in Request /\ Names(q)
    BY DEF Idle, Request, Names, Status, RowStatus, LiveStatus
  <2> QED
    BY <1>1, <2>1, RequestBegins DEF CreateRead, RestTyped, rows
<1>2. ASSUME NEW k \in Clients, NEW c \in Compilations, NEW r \in Runs, AcceptRead(k, c, r)
      PROVE  RequestsTyped' /\ RestTyped'
  <2> DEFINE q == [Idle EXCEPT !.op = "accept", !.pc = "count", !.comp = c, !.run = r]
  <2>1. q \in Request /\ Names(q)
    BY DEF Idle, Request, Names, Status, RowStatus, LiveStatus
  <2> QED
    BY <1>2, <2>1, RequestBegins DEF AcceptRead, RestTyped, rows
<1>3. ASSUME NEW k \in Clients, NEW r \in Runs, StopRead(k, r)
      PROVE  RequestsTyped' /\ RestTyped'
  <2> DEFINE q == [Idle EXCEPT !.op = "stop", !.pc = "cas", !.run = r, !.seen = status[r]]
  <2>1. q \in Request /\ Names(q)
    BY DEF Idle, Request, Names, Status, RowStatus, LiveStatus, RestTyped
  <2> QED
    BY <1>3, <2>1, RequestBegins DEF StopRead, RestTyped, rows
<1>4. ASSUME NEW k \in Clients, CountRuns(k)
      PROVE  RequestsTyped' /\ RestTyped'
  <2> DEFINE n == Cardinality(RowsOf(req[k].comp)) + 1
  <2>1. n \in Nat
    BY CountIsNat
  <2>2. req[k].pc = "count" /\ req' = [req EXCEPT ![k].pc = "insert", ![k].seq = n]
    BY <1>4 DEF CountRuns
  <2> HIDE DEF n
  <2> QED
    BY <1>4, <2>1, <2>2, RequestCounts DEF CountRuns, RestTyped, rows
<1>5. ASSUME NEW k \in Clients, InsertRun(k)
      PROVE  RequestsTyped' /\ RestTyped'
  <2>1. req[k].comp \in Compilations /\ req[k].seq \in Nat
    BY <1>5 DEF InsertRun, RequestsTyped, RequestsNameRuns, Request
  <2>2. PICK r \in Runs : InsertAs(k, r)
    BY <1>5 DEF InsertRun, RequestsTyped, RequestsNameRuns
  <2>3. RequestsTyped'
    BY <2>2, RequestInserts, RequestEnds DEF InsertAs
  <2>4. RestTyped'
    BY <1>5, <2>1, <2>2 DEF InsertRun, InsertAs, RestTyped, rows, Status, RowStatus, LiveStatus
  <2> QED
    BY <2>3, <2>4
<1>6. ASSUME NEW k \in Clients, StopTransition(k)
      PROVE  RequestsTyped' /\ RestTyped'
  <2>1. req[k].run \in Runs
    BY <1>6 DEF StopTransition, RequestsTyped, RequestsNameRuns
  <2>2. RequestsTyped'
    BY <1>6, <2>1, RequestGoesOn, RequestEnds DEF StopTransition
  <2>3. RestTyped'
    BY <1>6 DEF StopTransition, RestTyped, Status, RowStatus, LiveStatus
  <2> QED
    BY <2>2, <2>3
<1>7. ASSUME NEW k \in Clients, Enqueue(k) \/ EnqueueRaises(k)
      PROVE  RequestsTyped' /\ RestTyped'
  <2>1. req[k].run \in Runs
    BY <1>7 DEF Enqueue, EnqueueRaises, RequestsTyped, RequestsNameRuns
  <2>2. RequestsTyped'
    BY <1>7, <2>1, RequestGoesOn, RequestEnds DEF Enqueue, EnqueueRaises
  <2>3. JobOf(k) \in Job
    BY <2>1 DEF JobOf, Job
  <2>4. queue' = queue \/ queue' = Append(queue, JobOf(k))
    BY <1>7 DEF Enqueue, EnqueueRaises
  <2>5. queue' \in Seq(Job)
    <3>1. queue \in Seq(Job)
      BY DEF RestTyped
    <3>2. Append(queue, JobOf(k)) \in Seq(Job)
      BY <2>3, <3>1
    <3> QED
      BY <2>4, <3>1, <3>2
  <2>6. faults' \in Nat /\ UNCHANGED rows
    BY <1>7 DEF Enqueue, EnqueueRaises, Fault, RestTyped, rows
  <2> QED
    BY <2>2, <2>5, <2>6 DEF RestTyped, rows
<1>8. ASSUME NEW k \in Clients, UndoCreate(k) \/ UndoAccept(k) \/ UndoStop(k)
      PROVE  RequestsTyped' /\ RestTyped'
  <2>1. req[k].run \in Runs /\ req[k].seen \in Status
    BY <1>8 DEF UndoCreate, UndoAccept, UndoStop, RequestsTyped, RequestsNameRuns, Request
  <2>2. RequestsTyped'
    BY <1>8, RequestEnds DEF UndoCreate, UndoAccept, UndoStop
  <2>3. RestTyped'
    BY <1>8, <2>1 DEF UndoCreate, UndoAccept, UndoStop, RestTyped, Status, RowStatus, LiveStatus
  <2> QED
    BY <2>2, <2>3
<1>9. ASSUME ControlPlaneRestart
      PROVE  RequestsTyped' /\ RestTyped'
  BY <1>9 DEF ControlPlaneRestart, Fault, RequestsTyped, RequestsNameRuns, RestTyped,
     Request, Idle, rows, Status, RowStatus, LiveStatus
<1> QED
  BY <1>1, <1>2, <1>3, <1>4, <1>5, <1>6, <1>7, <1>8, <1>9
  DEF ControlPlaneNext, RequestStep

-----------------------------------------------------------------------------
(***************************************************************************)
(* The Worker's types.                                                     *)
(***************************************************************************)
SlotsTyped == slot \in [Slots -> SlotState] /\ SlotsNameRuns

HostTyped ==
  /\ stopRequested \subseteq Runs \X BOOLEAN /\ entered \subseteq Runs \X BOOLEAN
  /\ aborted \subseteq Runs \X BOOLEAN
  /\ preDocker \in [Runs \X BOOLEAN -> {"unset", "complete", "incomplete"}]
  /\ replaced \subseteq Runs /\ skipped \subseteq Runs
  /\ copies \subseteq Runs /\ up \subseteq Runs

LEMMA SlotGoesOn ==
  ASSUME SlotsTyped, NEW s \in Slots, slot[s].pc # "free",
         NEW pc \in StartPc \cup StopPc, Goto(s, pc)
  PROVE  SlotsTyped'
  BY DEF SlotsTyped, SlotsNameRuns, SlotState, Goto

LEMMA SlotFails ==
  ASSUME SlotsTyped, NEW s \in Slots, slot[s].pc # "free",
         NEW code \in FailureCode, Fail(s, code)
  PROVE  SlotsTyped'
<1> DEFINE q == [slot[s] EXCEPT !.pc = "reportFailed", !.code = code]
<1>1. slot[s] \in SlotState
  BY DEF SlotsTyped
<1>2. /\ q \in SlotState /\ q.pc # "free"
       /\ q.run = slot[s].run /\ q.action = slot[s].action
  BY <1>1 DEF SlotState, StartPc
<1>3. slot' = [slot EXCEPT ![s] = q]
  BY DEF Fail, SlotsTyped
<1> QED
  BY <1>2, <1>3 DEF SlotsTyped, SlotsNameRuns

LEMMA SlotEnds ==
  ASSUME SlotsTyped, NEW s \in Slots, Finish(s)
  PROVE  SlotsTyped'
<1>1. NoJob \in SlotState /\ NoJob.pc = "free"
  BY DEF NoJob, SlotState
<1> QED
  BY <1>1 DEF SlotsTyped, SlotsNameRuns, Finish

\* The codes of the runner are in its vocabulary.
LEMMA Codes ==
  /\ \A c \in {"preview_artifact_failed", "preview_start_failed",
               "preview_start_timeout", "preview_stop_failed"} : c \in FailureCode
  /\ \A pc : StageCode(pc) \subseteq FailureCode
  BY DEF StageCode, FailureCode

LEMMA StartFailsTyped ==
  ASSUME SlotsTyped, NEW s \in Slots, slot[s].pc # "free",
         NEW code \in FailureCode, StartFails(s, code)
  PROVE  SlotsTyped'
  BY SlotFails, SlotEnds DEF StartFails

\* Which executions a stop tells or aborts, and which one a start is.
LEMMA Executions ==
  ASSUME SlotsTyped
  PROVE  /\ \A r : Which(Registered(r)) \subseteq BOOLEAN /\ Which(Active(r)) \subseteq BOOLEAN
         /\ \A s \in Slots : slot[s].pc # "free" => Execution(s) \in Runs \X BOOLEAN
<1>1. \A s \in Slots : slot[s].again \in BOOLEAN
  BY DEF SlotsTyped, SlotState
<1>2. \A S \in SUBSET Slots : Which(S) \subseteq BOOLEAN
  BY <1>1 DEF Which
<1>3. \A r : Registered(r) \subseteq Slots /\ Active(r) \subseteq Slots
  BY DEF Registered, Active, Starts
<1> QED
  BY <1>1, <1>2, <1>3 DEF Execution, SlotsTyped, SlotsNameRuns

LEMMA SlotTypes ==
  ASSUME SlotsTyped, RestTyped, NEW s \in Slots, Take(s) \/ SlotStep(s)
  PROVE  SlotsTyped'
<1>1. CASE Take(s)
  <2> DEFINE job == Head(queue)
             told == IF job.action = "stop" THEN Which(Registered(job.run)) ELSE {}
             new == [NoJob EXCEPT !.action = job.action, !.run = job.run,
                   !.again = job.again, !.pc = "dispatch", !.saw = told]
  <2>1. job \in Job
    BY <1>1 DEF Take, RestTyped
  <2>2. told \subseteq BOOLEAN
    BY Executions
  <2> HIDE DEF job, told
  <2>3. new \in SlotState /\ new.run \in Runs /\ new.action \in {"start", "stop"}
    BY <2>1, <2>2 DEF NoJob, SlotState, Job, StartPc
  <2>4. slot' = [slot EXCEPT ![s] = new]
    BY <1>1 DEF Take, job, told
  <2> QED
    BY <2>3, <2>4 DEF SlotsTyped, SlotsNameRuns
<1>2. CASE Dispatch(s)
  <2>1. PICK b \in BOOLEAN : slot' = [slot EXCEPT ![s].pc = "replied", ![s].reply = b]
    BY <1>2 DEF Dispatch, Dispatchable
  <2> QED
    BY <1>2, <2>1 DEF Dispatch, SlotsTyped, SlotsNameRuns, SlotState, StartPc
<1>3. CASE ReportsFailed(s)
  BY <1>3, SlotEnds DEF ReportsFailed
<1>4. CASE StartReplied(s)
  BY <1>4, SlotEnds, SlotGoesOn, SlotFails, Codes DEF StartReplied, At, StartPc
<1>5. CASE StartEnter(s)
  BY <1>5, SlotGoesOn, StartFailsTyped, Codes DEF StartEnter, At, StartPc
<1>6. CASE StartMaterialize(s)
  BY <1>6, SlotGoesOn, StartFailsTyped, Codes
  DEF StartMaterialize, At, StartPc, SlotsTyped, SlotsNameRuns
<1>7. CASE StartPorts(s)
  BY <1>7, SlotEnds, SlotGoesOn DEF StartPorts, At, StartPc
<1>8. CASE StartUnreserve(s)
  BY <1>8, SlotEnds, StartFailsTyped, Codes DEF StartUnreserve, At
<1>9. CASE StartProceeds(s)
  BY <1>9, SlotGoesOn DEF StartProceeds, At, StartPc
<1>10. CASE StartCancelled(s)
  BY <1>10, SlotEnds DEF StartCancelled
<1>11. CASE StartStageFails(s)
  BY <1>11, StartFailsTyped, Codes DEF StartStageFails, At
<1>12. CASE StartReportsReady(s)
  BY <1>12, SlotEnds, StartFailsTyped, Codes DEF StartReportsReady, At
<1>13. CASE StopReplied(s)
  BY <1>13, SlotGoesOn, SlotFails, Codes DEF StopReplied, At, StopPc
<1>14. CASE StopRoute(s)
  <2>1. CASE slot' = [slot EXCEPT ![s].pc = "settle", ![s].saw = Which(Active(slot[s].run))]
    <3> DEFINE q == [slot[s] EXCEPT !.pc = "settle", !.saw = Which(Active(slot[s].run))]
    <3>1. slot[s] \in SlotState /\ slot[s].pc # "free" /\ Which(Active(slot[s].run)) \subseteq BOOLEAN
      BY <1>14, Executions DEF SlotsTyped, StopRoute, At
    <3>2. /\ q \in SlotState /\ q.pc # "free"
          /\ q.run = slot[s].run /\ q.action = slot[s].action
      BY <3>1 DEF SlotState, StopPc
    <3>3. slot' = [slot EXCEPT ![s] = q]
      BY <2>1 DEF SlotsTyped
    <3> QED
      BY <3>1, <3>2, <3>3 DEF SlotsTyped, SlotsNameRuns
  <2> QED
    BY <1>14, <2>1, SlotGoesOn DEF StopRoute, At, StopPc
<1>15. CASE StopSettled(s)
  BY <1>15, SlotGoesOn, SlotFails, Codes DEF StopSettled, At, StopPc
<1>16. CASE StopVerify(s)
  BY <1>16, SlotGoesOn, SlotFails, Codes DEF StopVerify, At, StopPc
<1>17. CASE StopDown(s)
  BY <1>17, SlotGoesOn, SlotFails, Codes DEF StopDown, At, StopPc
<1>18. CASE StopRemove(s)
  BY <1>18, SlotGoesOn, SlotFails, Codes DEF StopRemove, At, StopPc
<1>19. CASE StopReportsStopped(s)
  BY <1>19, SlotEnds, SlotFails, Codes DEF StopReportsStopped, At
<1> QED
  BY <1>1, <1>2, <1>3, <1>4, <1>5, <1>6, <1>7, <1>8, <1>9, <1>10, <1>11, <1>12,
     <1>13, <1>14, <1>15, <1>16, <1>17, <1>18, <1>19 DEF SlotStep, JobStep

LEMMA HostTypes ==
  ASSUME SlotsTyped, RestTyped, HostTyped, NEW s \in Slots, Take(s) \/ SlotStep(s)
  PROVE  HostTyped'
<1>1. CASE Take(s)
  <2> DEFINE job == Head(queue)
             told == IF job.action = "stop" THEN Which(Registered(job.run)) ELSE {}
  <2>0. Head(queue) \in Job
    BY <1>1 DEF Take, RestTyped
  <2>1. job.run \in Runs /\ told \subseteq BOOLEAN
    BY <2>0, Executions DEF Job
  <2>2. /\ stopRequested' = stopRequested \cup ({job.run} \X told)
        /\ replaced' \in {replaced, replaced \cup {job.run}}
        /\ UNCHANGED <<entered, aborted, preDocker, skipped, host>>
    BY <1>1 DEF Take
  <2> HIDE DEF job, told
  <2> QED
    BY <2>1, <2>2 DEF HostTyped, host
<1>2. CASE Dispatch(s)
  BY <1>2 DEF Dispatch, HostTyped, host, starts
<1>3. CASE ReportsFailed(s)
  BY <1>3 DEF ReportsFailed, HostTyped, host, starts
<1>4. CASE StartReplied(s)
  BY <1>4, Executions DEF StartReplied, At, HostTyped, host, SlotsTyped, SlotsNameRuns
<1>5. CASE StartEnter(s)
  BY <1>5 DEF StartEnter, HostTyped, host, starts
<1>6. CASE StartMaterialize(s)
  BY <1>6 DEF StartMaterialize, At, HostTyped, starts, SlotsTyped, SlotsNameRuns
<1>7. CASE StartPorts(s)
  BY <1>7 DEF StartPorts, At, HostTyped, SlotsTyped, SlotsNameRuns
<1>8. CASE StartUnreserve(s)
  BY <1>8 DEF StartUnreserve, HostTyped
<1>9. CASE StartProceeds(s)
  BY <1>9 DEF StartProceeds, HostTyped, host, starts
<1>10. CASE StartCancelled(s)
  BY <1>10 DEF StartCancelled, HostTyped, host, starts
<1>11. CASE StartStageFails(s)
  BY <1>11 DEF StartStageFails, StartCleanup, HostTyped, host, starts
<1>12. CASE StartReportsReady(s)
  BY <1>12 DEF StartReportsReady, HostTyped, host, starts
<1>13. CASE StopReplied(s)
  BY <1>13 DEF StopReplied, HostTyped, host, starts
<1>14. CASE StopRoute(s)
  <2>1. slot[s].run \in Runs /\ Which(Active(slot[s].run)) \subseteq BOOLEAN
    BY <1>14, Executions DEF StopRoute, At, SlotsTyped, SlotsNameRuns
  <2> QED
    BY <1>14, <2>1 DEF StopRoute, HostTyped, host
<1>15. CASE StopSettled(s)
  BY <1>15 DEF StopSettled, HostTyped, host, starts
<1>16. CASE StopVerify(s)
  BY <1>16 DEF StopVerify, HostTyped, host, starts
<1>17. CASE StopDown(s)
  BY <1>17 DEF StopDown, HostTyped, starts
<1>18. CASE StopRemove(s)
  BY <1>18 DEF StopRemove, HostTyped, starts
<1>19. CASE StopReportsStopped(s)
  BY <1>19 DEF StopReportsStopped, HostTyped, host, starts
<1> QED
  BY <1>1, <1>2, <1>3, <1>4, <1>5, <1>6, <1>7, <1>8, <1>9, <1>10, <1>11, <1>12,
     <1>13, <1>14, <1>15, <1>16, <1>17, <1>18, <1>19 DEF SlotStep, JobStep

\* The Worker writes the table through its three reports only, and never a
\* request of the Control Plane.
Reports(r) ==
  \/ AcceptsReady(r) /\ ReportPreviewReady(r)
  \/ \E code : AcceptsFailed(r, code) /\ ReportPreviewFailed(r, code)
  \/ AcceptsStopped(r) /\ ReportPreviewStopped(r)

LEMMA WorkerWritesByReports ==
  ASSUME NEW s \in Slots, Take(s) \/ SlotStep(s)
  PROVE  /\ UNCHANGED req
         /\ \/ UNCHANGED rows
            \/ slot[s].pc # "free" /\ Reports(slot[s].run)
<1>1. CASE Take(s)
  BY <1>1 DEF Take
<1>2. CASE ReportsFailed(s)
  BY <1>2 DEF ReportsFailed, Reports
<1>3. CASE StartReportsReady(s)
  BY <1>3 DEF StartReportsReady, Reports, At
<1>4. CASE StopReportsStopped(s)
  BY <1>4 DEF StopReportsStopped, Reports, At
<1>5. CASE Dispatch(s) \/ StartReplied(s) \/ StartEnter(s) \/ StartMaterialize(s)
  BY <1>5 DEF Dispatch, StartReplied, StartEnter, StartMaterialize, controlPlane
<1>6. CASE StartPorts(s) \/ StartUnreserve(s) \/ StartProceeds(s) \/ StartCancelled(s)
  BY <1>6 DEF StartPorts, StartUnreserve, StartProceeds, StartCancelled, controlPlane
<1>7. CASE StartStageFails(s) \/ StopReplied(s) \/ StopRoute(s) \/ StopSettled(s)
  BY <1>7 DEF StartStageFails, StopReplied, StopRoute, StopSettled, controlPlane
<1>8. CASE StopVerify(s) \/ StopDown(s) \/ StopRemove(s)
  BY <1>8 DEF StopVerify, StopDown, StopRemove, controlPlane
<1> QED
  BY <1>1, <1>2, <1>3, <1>4, <1>5, <1>6, <1>7, <1>8 DEF SlotStep, JobStep

LEMMA WorkerQueueAndFaults ==
  ASSUME RestTyped, NEW s \in Slots, Take(s) \/ SlotStep(s)
  PROVE  queue' \in Seq(Job) /\ faults' \in Nat
<1>1. CASE Take(s)
  BY <1>1 DEF Take, RestTyped
<1>2. CASE Dispatch(s) \/ ReportsFailed(s) \/ StartReplied(s) \/ StartEnter(s)
  BY <1>2 DEF Dispatch, ReportsFailed, StartReplied, StartEnter, Fault, RestTyped, controlPlane
<1>3. CASE StartMaterialize(s) \/ StartPorts(s) \/ StartUnreserve(s) \/ StartProceeds(s)
  BY <1>3 DEF StartMaterialize, StartPorts, StartUnreserve, StartProceeds, Fault, RestTyped,
     controlPlane
<1>4. CASE StartCancelled(s) \/ StartStageFails(s) \/ StartReportsReady(s) \/ StopReplied(s)
  BY <1>4 DEF StartCancelled, StartStageFails, StartReportsReady, StopReplied, Fault, RestTyped,
     controlPlane
<1>5. CASE StopRoute(s) \/ StopSettled(s) \/ StopVerify(s) \/ StopDown(s)
  BY <1>5 DEF StopRoute, StopSettled, StopVerify, StopDown, Fault, RestTyped, controlPlane
<1>6. CASE StopRemove(s) \/ StopReportsStopped(s)
  BY <1>6 DEF StopRemove, StopReportsStopped, Fault, RestTyped
<1> QED
  BY <1>1, <1>2, <1>3, <1>4, <1>5, <1>6 DEF SlotStep, JobStep

LEMMA ReportsTyped ==
  ASSUME RestTyped, NEW r \in Runs, Reports(r), queue' \in Seq(Job), faults' \in Nat
  PROVE  RestTyped'
  BY DEF RestTyped, Reports, ReportPreviewReady, ReportPreviewFailed, ReportPreviewStopped,
     AcceptsFailed, AcceptedCode, FailureCode, Status, RowStatus, LiveStatus

LEMMA WorkerTypes ==
  ASSUME RequestsTyped, RestTyped, SlotsTyped, NEW s \in Slots, Take(s) \/ SlotStep(s)
  PROVE  RequestsTyped' /\ RestTyped'
<1>1. RequestsTyped'
  BY WorkerWritesByReports DEF RequestsTyped, RequestsNameRuns
<1>2. RestTyped'
  BY WorkerWritesByReports, WorkerQueueAndFaults, ReportsTyped
  DEF SlotsTyped, SlotsNameRuns, RestTyped, rows
<1> QED
  BY <1>1, <1>2

\* Jobs whose Worker died, and runs a job of which was given out under way.
LostTyped == held \subseteq Job /\ failedJobs \subseteq Job /\ overlapped \subseteq Runs

LEMMA JobsInSlots ==
  ASSUME SlotsTyped
  PROVE  \A s \in Slots : slot[s].pc # "free" => JobIn(s) \in Job
  BY DEF JobIn, SlotsTyped, SlotsNameRuns, SlotState, Job

LEMMA GivenOutTypes ==
  ASSUME RestTyped, LostTyped, NEW job \in Job, GiveOutAgain(job)
  PROVE  queue' \in Seq(Job) /\ failedJobs' \subseteq Job
<1> DEFINE second == [job EXCEPT !.again = TRUE]
<1>1. second \in Job
  BY DEF Job
<1>2. \/ queue' = queue /\ failedJobs' = failedJobs \cup {job}
      \/ queue' = <<second>> \o queue /\ failedJobs' = failedJobs
  BY DEF GiveOutAgain
<1>3. queue \in Seq(Job) /\ <<second>> \in Seq(Job)
  BY <1>1 DEF RestTyped
<1>4. <<second>> \o queue \in Seq(Job)
  BY <1>3
<1> QED
  BY <1>2, <1>3, <1>4 DEF LostTyped

LEMMA RestartTypes ==
  ASSUME RequestsTyped, RestTyped, SlotsTyped, HostTyped, LostTyped, WorkerRestart
  PROVE  RequestsTyped' /\ RestTyped' /\ SlotsTyped' /\ HostTyped' /\ LostTyped'
<1>1. UnderWay \subseteq Job
  BY JobsInSlots DEF UnderWay
<1>2. LostTyped'
  BY <1>1 DEF WorkerRestart, LostTyped
<1>3. RequestsTyped' /\ RestTyped'
  BY DEF WorkerRestart, Fault, RequestsTyped, RequestsNameRuns, RestTyped, rows
<1>4. SlotsTyped'
  BY DEF WorkerRestart, SlotsTyped, SlotsNameRuns, SlotState, NoJob
<1>5. HostTyped'
  BY DEF WorkerRestart, HostTyped, host
<1> QED
  BY <1>2, <1>3, <1>4, <1>5

LEMMA ExpiryTypes ==
  ASSUME RequestsTyped, RestTyped, SlotsTyped, HostTyped, LostTyped,
         NEW job \in held, LockExpires(job)
  PROVE  RequestsTyped' /\ RestTyped' /\ SlotsTyped' /\ HostTyped' /\ LostTyped'
<1>1. job \in Job
  BY DEF LostTyped
<1>3. queue' \in Seq(Job) /\ failedJobs' \subseteq Job
  BY <1>1, GivenOutTypes DEF LockExpires
<1>4. LostTyped'
  BY <1>3 DEF LockExpires, LostTyped
<1>5. RequestsTyped' /\ RestTyped'
  BY <1>3 DEF LockExpires, RequestsTyped, RequestsNameRuns, RestTyped, rows
<1>6. SlotsTyped' /\ HostTyped'
  BY DEF LockExpires, SlotsTyped, SlotsNameRuns, HostTyped, starts, host
<1> QED
  BY <1>4, <1>5, <1>6

LEMMA LockLostTypes ==
  ASSUME RequestsTyped, RestTyped, SlotsTyped, HostTyped, LostTyped,
         NEW s \in Slots, LockLost(s)
  PROVE  RequestsTyped' /\ RestTyped' /\ SlotsTyped' /\ HostTyped' /\ LostTyped'
<1>1. JobIn(s) \in Job /\ slot[s].run \in Runs /\ slot[s] \in SlotState
  BY JobsInSlots DEF LockLost, SlotsTyped, SlotsNameRuns
<1>2. queue' \in Seq(Job) /\ failedJobs' \subseteq Job
  BY <1>1, GivenOutTypes DEF LockLost
<1>3. RequestsTyped' /\ RestTyped'
  BY <1>2 DEF LockLost, Fault, RequestsTyped, RequestsNameRuns, RestTyped, rows
<1>4. SlotsTyped'
  <2> DEFINE q == [slot[s] EXCEPT !.unlocked = TRUE]
  <2>1. /\ q \in SlotState /\ q.pc = slot[s].pc
        /\ q.run = slot[s].run /\ q.action = slot[s].action
    BY <1>1 DEF SlotState
  <2>2. slot' = [slot EXCEPT ![s] = q]
    BY DEF LockLost, SlotsTyped
  <2> QED
    BY <2>1, <2>2 DEF SlotsTyped, SlotsNameRuns
<1>5. HostTyped' /\ LostTyped'
  BY <1>1, <1>2 DEF LockLost, HostTyped, LostTyped, starts, host
<1> QED
  BY <1>3, <1>4, <1>5

LEMMA TypedParts ==
  Typed <=> RequestsTyped /\ RestTyped /\ SlotsTyped /\ HostTyped /\ LostTyped
  BY DEF Typed, TypeOK, ControlPlaneTypeOK, RequestsTyped, RestTyped, SlotsTyped, HostTyped,
     LostTyped

LEMMA TypedPartsNext ==
  ASSUME RequestsTyped', RestTyped', SlotsTyped', HostTyped', LostTyped' PROVE Typed'
  BY DEF Typed, TypeOK, ControlPlaneTypeOK, RequestsTyped, RestTyped, SlotsTyped, HostTyped,
     LostTyped

LEMMA StepTyped == Typed /\ [Next]_vars => Typed'
<1> SUFFICES ASSUME Typed, [Next]_vars PROVE Typed'
  OBVIOUS
<1>0. RequestsTyped /\ RestTyped /\ SlotsTyped /\ HostTyped /\ LostTyped
  BY TypedParts
<1>1. CASE ControlPlaneNext /\ UNCHANGED worker
  <2>1. RequestsTyped' /\ RestTyped'
    BY <1>0, <1>1, ControlPlaneTypes
  <2>2. SlotsTyped' /\ HostTyped' /\ LostTyped'
    BY <1>0, <1>1
    DEF SlotsTyped, SlotsNameRuns, HostTyped, LostTyped, worker, starts, host, lost
  <2> QED
    BY <2>1, <2>2, TypedPartsNext
<1>2. ASSUME NEW s \in Slots, Take(s) \/ SlotStep(s) PROVE Typed'
  <2>1. RequestsTyped' /\ RestTyped' /\ SlotsTyped' /\ HostTyped'
    BY <1>0, <1>2, WorkerTypes, SlotTypes, HostTypes
  <2>2. LostTyped'
    BY <1>0, <1>2 DEF Take, SlotStep, lost, LostTyped
  <2> QED
    BY <2>1, <2>2, TypedPartsNext
<1>3. CASE WorkerRestart
  BY <1>0, <1>3, RestartTypes, TypedPartsNext
<1>4. ASSUME NEW job \in held, LockExpires(job) PROVE Typed'
  BY <1>0, <1>4, ExpiryTypes, TypedPartsNext
<1>5. ASSUME NEW s \in Slots, LockLost(s) PROVE Typed'
  BY <1>0, <1>5, LockLostTypes, TypedPartsNext
<1>6. CASE UNCHANGED vars
  BY <1>6 DEF vars, controlPlane, rows, worker, starts, host, lost, Typed, TypeOK,
     ControlPlaneTypeOK, SlotsNameRuns, RequestsNameRuns
<1> QED
  BY <1>1, <1>2, <1>3, <1>4, <1>5, <1>6 DEF Next

-----------------------------------------------------------------------------
(***************************************************************************)
(* The lease.  A row moves in one of three ways that matter to its key: it *)
(* is inserted, it goes from one live status to another, and it dies.      *)
(***************************************************************************)
LEMMA KeyTaken ==
  ASSUME RestTyped, Keyed, NEW r \in Runs, NEW c \in Compilations,
         \A o \in Runs : activeKey[o] # c,
         status' = [status EXCEPT ![r] = "starting"],
         comp' = [comp EXCEPT ![r] = c],
         activeKey' = [activeKey EXCEPT ![r] = c]
  PROVE  Keyed'
  BY DEF RestTyped, Keyed, LiveRunsHaveCompilation, KeyMarksLiveRun, KeysDiffer, LiveStatus

LEMMA KeyKept ==
  ASSUME RestTyped, Keyed, NEW r \in Runs, NEW x \in LiveStatus, status[r] \in LiveStatus,
         status' = [status EXCEPT ![r] = x], UNCHANGED <<comp, activeKey>>
  PROVE  Keyed'
  BY DEF RestTyped, Keyed, LiveRunsHaveCompilation, KeyMarksLiveRun, KeysDiffer

LEMMA KeyGivenUp ==
  ASSUME RestTyped, Keyed, NEW r \in Runs, NEW x, x \notin LiveStatus,
         status' = [status EXCEPT ![r] = x],
         activeKey' = [activeKey EXCEPT ![r] = None], UNCHANGED comp
  PROVE  Keyed'
  BY DEF RestTyped, Keyed, LiveRunsHaveCompilation, KeyMarksLiveRun, KeysDiffer

LEMMA KeyUntouched == Keyed /\ UNCHANGED <<status, comp, activeKey>> => Keyed'
  BY DEF Keyed, LiveRunsHaveCompilation, KeyMarksLiveRun, KeysDiffer

LEMMA ReportsKeepKeys ==
  ASSUME RestTyped, Keyed, NEW r \in Runs, Reports(r)
  PROVE  Keyed'
<1>1. CASE AcceptsReady(r) /\ ReportPreviewReady(r)
  BY <1>1, KeyKept DEF AcceptsReady, ReportPreviewReady, LiveStatus
<1>2. ASSUME NEW code, AcceptsFailed(r, code), ReportPreviewFailed(r, code) PROVE Keyed'
  BY <1>2, KeyKept DEF AcceptsFailed, ReportPreviewFailed, LiveStatus
<1>3. CASE AcceptsStopped(r) /\ ReportPreviewStopped(r)
  BY <1>3, KeyGivenUp DEF AcceptsStopped, ReportPreviewStopped, LiveStatus
<1> QED
  BY <1>1, <1>2, <1>3 DEF Reports

LEMMA ControlPlaneKeepsKeys ==
  ASSUME RequestsTyped, RestTyped, StopsSawLiveRuns, Keyed, ControlPlaneNext
  PROVE  Keyed'
<1>1. ASSUME NEW k \in Clients, InsertRun(k) PROVE Keyed'
  <2>1. req[k].comp \in Compilations
    BY <1>1 DEF InsertRun, RequestsTyped, RequestsNameRuns
  <2>2. PICK r \in Runs : InsertAs(k, r)
    BY <1>1 DEF InsertRun, RequestsTyped, RequestsNameRuns
  <2> QED
    BY <2>1, <2>2, KeyTaken, KeyUntouched DEF InsertAs, Insertable, rows
<1>2. ASSUME NEW k \in Clients, StopTransition(k) PROVE Keyed'
  <2>1. req[k].run \in Runs /\ req[k].seen \in LiveStatus
    BY <1>2 DEF StopTransition, RequestsTyped, RequestsNameRuns, StopsSawLiveRuns
  <2> QED
    BY <1>2, <2>1, KeyKept, KeyUntouched DEF StopTransition, LiveStatus
<1>3. ASSUME NEW k \in Clients, UndoCreate(k) PROVE Keyed'
  <2>1. req[k].run \in Runs
    BY <1>3 DEF UndoCreate, RequestsTyped, RequestsNameRuns
  <2> QED
    BY <1>3, <2>1, KeyGivenUp, KeyUntouched DEF UndoCreate, LiveStatus
<1>4. ASSUME NEW k \in Clients, UndoAccept(k) PROVE Keyed'
  <2>1. req[k].run \in Runs
    BY <1>4 DEF UndoAccept, RequestsTyped, RequestsNameRuns
  <2> QED
    BY <1>4, <2>1, KeyKept, KeyUntouched DEF UndoAccept, LiveStatus
<1>5. ASSUME NEW k \in Clients, UndoStop(k) PROVE Keyed'
  <2>1. req[k].run \in Runs /\ req[k].seen \in LiveStatus
    BY <1>5 DEF UndoStop, RequestsTyped, RequestsNameRuns, StopsSawLiveRuns
  <2>2. CASE status[req[k].run] = "stopping"
    BY <1>5, <2>1, <2>2, KeyKept DEF UndoStop, LiveStatus
  <2>3. CASE status[req[k].run] # "stopping"
    <3>1. UNCHANGED status
      BY <1>5, <2>3 DEF UndoStop, RestTyped
    <3> QED
      BY <1>5, <3>1, KeyUntouched DEF UndoStop
  <2> QED
    BY <2>2, <2>3
<1>6. CASE UNCHANGED rows
  BY <1>6, KeyUntouched DEF rows
<1> QED
  BY <1>1, <1>2, <1>3, <1>4, <1>5, <1>6 DEF ControlPlaneNext, RequestStep, CreateRead,
     AcceptRead, StopRead, CountRuns, Enqueue, EnqueueRaises, ControlPlaneRestart

LEMMA StopsKeepSeen ==
  ASSUME RequestsTyped, StopsSawLiveRuns, ControlPlaneNext
  PROVE  StopsSawLiveRuns'
<1>1. ASSUME NEW k \in Clients, NEW r \in Runs, StopRead(k, r) PROVE StopsSawLiveRuns'
  BY <1>1 DEF StopRead, Idle, StopsSawLiveRuns, LiveStatus, RequestsTyped
<1>2. ASSUME NEW k \in Clients, NEW c \in Compilations,
             CreateRead(k, c) \/ \E r \in Runs : AcceptRead(k, c, r)
      PROVE  StopsSawLiveRuns'
  BY <1>2 DEF CreateRead, AcceptRead, Idle, StopsSawLiveRuns, RequestsTyped
<1>3. ASSUME NEW k \in Clients, RequestStep(k) PROVE StopsSawLiveRuns'
  <2> DEFINE Kept == \A o \in Clients :
                       \/ req'[o].op = req[o].op /\ req'[o].seen = req[o].seen
                       \/ req'[o] = Idle
  <2>1. CASE CountRuns(k)
    <3>1. PICK n : req' = [req EXCEPT ![k].pc = "insert", ![k].seq = n]
      BY <2>1 DEF CountRuns
    <3> QED
      BY <3>1 DEF RequestsTyped, Request, StopsSawLiveRuns
  <2>2. CASE InsertRun(k)
    <3>1. PICK r : InsertAs(k, r)
      BY <2>2 DEF InsertRun
    <3>2. Kept
      BY <3>1 DEF InsertAs, RequestsTyped, Request
    <3> QED
      BY <3>2 DEF StopsSawLiveRuns, Idle
  <2>3. CASE StopTransition(k) \/ Enqueue(k) \/ EnqueueRaises(k)
    <3>1. Kept
      BY <2>3 DEF StopTransition, Enqueue, EnqueueRaises, RequestsTyped, Request
    <3> QED
      BY <3>1 DEF StopsSawLiveRuns, Idle
  <2>4. CASE UndoCreate(k) \/ UndoAccept(k) \/ UndoStop(k)
    <3>1. req' = [req EXCEPT ![k] = Idle]
      BY <2>4 DEF UndoCreate, UndoAccept, UndoStop
    <3> QED
      BY <3>1 DEF StopsSawLiveRuns, Idle, RequestsTyped
  <2> QED
    BY <1>3, <2>1, <2>2, <2>3, <2>4 DEF RequestStep
<1>4. CASE ControlPlaneRestart
  BY <1>4 DEF ControlPlaneRestart, Idle, StopsSawLiveRuns
<1> QED
  BY <1>1, <1>2, <1>3, <1>4 DEF ControlPlaneNext

LEMMA InitLease == Init => LeaseInv
<1>1. Init => StopsSawLiveRuns
  BY DEF Init, ControlPlaneInit, StopsSawLiveRuns, Idle
<1>2. Init => Keyed
  BY DEF Init, ControlPlaneInit, Keyed, LiveRunsHaveCompilation, KeyMarksLiveRun, KeysDiffer,
     LiveStatus
<1> QED
  BY <1>1, <1>2, InitTyped DEF LeaseInv

LEMMA StepLease == LeaseInv /\ [Next]_vars => LeaseInv'
<1> SUFFICES ASSUME LeaseInv, [Next]_vars PROVE LeaseInv'
  OBVIOUS
<1>0. Typed' /\ RequestsTyped /\ RestTyped /\ SlotsTyped
  BY StepTyped, TypedParts DEF LeaseInv
<1>1. CASE ControlPlaneNext
  BY <1>0, <1>1, ControlPlaneKeepsKeys, StopsKeepSeen DEF LeaseInv
<1>2. ASSUME NEW s \in Slots, Take(s) \/ SlotStep(s) PROVE StopsSawLiveRuns' /\ Keyed'
  <2>1. StopsSawLiveRuns'
    BY <1>2, WorkerWritesByReports DEF LeaseInv, StopsSawLiveRuns
  <2>2. Keyed'
    BY <1>0, <1>2, WorkerWritesByReports, ReportsKeepKeys, KeyUntouched
    DEF LeaseInv, SlotsTyped, SlotsNameRuns, rows
  <2> QED
    BY <2>1, <2>2
<1>3. CASE \/ WorkerRestart \/ \E job \in held : LockExpires(job)
          \/ \E s \in Slots : LockLost(s)
  <2>1. UNCHANGED <<rows, req>>
    BY <1>3 DEF WorkerRestart, LockExpires, LockLost
  <2> QED
    BY <1>0, <2>1, KeyUntouched DEF rows, LeaseInv, StopsSawLiveRuns
<1>4. CASE UNCHANGED vars
  BY <1>0, <1>4, KeyUntouched DEF vars, controlPlane, rows, LeaseInv, StopsSawLiveRuns
<1> QED
  BY <1>0, <1>1, <1>2, <1>3, <1>4 DEF Next, LeaseInv

THEOREM LeaseInvariant == Spec => []LeaseInv
<1>1. Init => LeaseInv
  BY InitLease
<1>2. LeaseInv /\ [Next]_vars => LeaseInv'
  BY StepLease
<1> QED
  BY <1>1, <1>2, PTL DEF Spec

(* Every variable stays in its domain: in particular the failure codes that *)
(* reach the diagnostic column are those the Control Plane knows.           *)
THEOREM TypeCorrect == Spec => []TypeOK
<1>1. LeaseInv => TypeOK
  BY DEF LeaseInv, Typed
<1> QED
  BY <1>1, LeaseInvariant, PTL

(* activeKey is set exactly while a run is not stopped (createPreviewRun,   *)
(* stopPreviewRun, their compensations and the three report handlers).      *)
THEOREM KeyFollowsStatus == Spec => []KeyMarksLiveRun
<1>1. LeaseInv => KeyMarksLiveRun
  BY DEF LeaseInv, Keyed
<1> QED
  BY <1>1, LeaseInvariant, PTL

(* However many requests race to preview a compilation, at most one of its  *)
(* runs is anything but stopped.                                            *)
THEOREM OneLeasePerCompilation == Spec => []OneLiveRunPerCompilation
<1>1. ASSUME LeaseInv PROVE OneLiveRunPerCompilation
  <2> SUFFICES ASSUME NEW c \in Compilations
               PROVE  Cardinality({r \in RowsOf(c) : status[r] # "stopped"}) <= 1
    BY DEF OneLiveRunPerCompilation
  <2> DEFINE S == {r \in RowsOf(c) : status[r] # "stopped"}
  <2>1. \A r, o \in S : r = o
    <3> SUFFICES ASSUME NEW r \in S, NEW o \in S PROVE r = o
      OBVIOUS
    <3>1. activeKey[r] = c /\ activeKey[o] = c /\ r \in Runs /\ o \in Runs
      BY <1>1 DEF LeaseInv, Keyed, KeyMarksLiveRun, RowsOf, RowStatus
    <3> QED
      BY <1>1, <3>1, PreviewAssumption DEF LeaseInv, Keyed, KeysDiffer
  <2>2. CASE S = {}
    BY <2>2, FS_EmptySet
  <2>3. CASE S # {}
    <3>1. PICK r \in S : S = {r}
      BY <2>1, <2>3
    <3> QED
      BY <3>1, FS_Singleton
  <2> QED
    BY <2>2, <2>3
<1> QED
  BY <1>1, LeaseInvariant, PTL
=============================================================================
