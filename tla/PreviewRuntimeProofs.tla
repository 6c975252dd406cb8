------------------------ MODULE PreviewRuntimeProofs ------------------------
(***************************************************************************)
(* Theorems about the runtimes of Local Preview, for any sets of runs,     *)
(* compilations, requests and Worker slots and any number of faults: what  *)
(* is shown as ready is served, what is shown as stopped is quiet, and the *)
(* whole implements one lease for each compilation.                        *)
(*                                                                         *)
(* They rest on where the job of a run can be.  A start and a stop of a    *)
(* run exist once each: as a request that is to enqueue it, in the queue,  *)
(* in a slot, or held by a Worker that died.  That needs an enqueue that   *)
(* raises to have stored nothing ("ack"): the run lostack shows what       *)
(* becomes of it otherwise.  And it is said of the runs no job of which    *)
(* the queue gave out while it was being executed (Sound): the run overlap *)
(* shows what becomes of the others.                                       *)
(*                                                                         *)
(* What is said of stopped runs needs more of the Worker (SteadyWorker):   *)
(* it lives ("restart"), since a restarted one has forgotten the starts it *)
(* was told to give up, it keeps its locks ("block"), and a stop does not  *)
(* overtake a start that is reading its files ("stall").                   *)
(***************************************************************************)
EXTENDS PreviewProofs

(***************************************************************************)
(* The job of a run: where it is.                                          *)
(***************************************************************************)
\* Runs no job of which was given out while it was executed.
Sound == Runs \ overlapped

Actions == {"start", "stop"}

\* A request that is to enqueue the job, or to take back what it did for it.
Asks(k, a, r) ==
  /\ req[k].pc \in {"enqueue", "undo"}
  /\ req[k].run = r
  /\ (req[k].op = "stop") <=> (a = "stop")

IsFor(j, a, r) == j.action = a /\ j.run = r

Lists(n, a, r) == IsFor(queue[n], a, r)
Works(s, a, r) == slot[s].pc # "free" /\ IsFor(slot[s], a, r)
Keeps(j, a, r) == j \in held /\ IsFor(j, a, r)

Asked(a, r)  == \E k \in Clients : Asks(k, a, r)
Listed(a, r) == \E n \in DOMAIN queue : Lists(n, a, r)
Worked(a, r) == \E s \in Slots : Works(s, a, r)
Kept(a, r)   == \E j \in held : Keeps(j, a, r)
Pending(a, r) == Asked(a, r) \/ Listed(a, r) \/ Worked(a, r) \/ Kept(a, r)

AskedOnce(a, r)  == \A k, l \in Clients : Asks(k, a, r) /\ Asks(l, a, r) => k = l
ListedOnce(a, r) == \A m, n \in DOMAIN queue : Lists(m, a, r) /\ Lists(n, a, r) => m = n
WorkedOnce(a, r) == \A s, t \in Slots : Works(s, a, r) /\ Works(t, a, r) => s = t
KeptOnce(a, r)   == \A i, j \in held : Keeps(i, a, r) /\ Keeps(j, a, r) => i = j

InOnePlace(a, r) ==
  /\ Asked(a, r) => ~Listed(a, r) /\ ~Worked(a, r) /\ ~Kept(a, r)
  /\ Listed(a, r) => ~Worked(a, r) /\ ~Kept(a, r)
  /\ Worked(a, r) => ~Kept(a, r)

Once(a, r) ==
  /\ AskedOnce(a, r) /\ ListedOnce(a, r) /\ WorkedOnce(a, r) /\ KeptOnce(a, r)
  /\ InOnePlace(a, r)

\* A job is of a run that has a row, and a stop of one that is being stopped.
StatusFits(r) ==
  /\ Pending("start", r) => status[r] \notin {"unused", "deleted"}
  /\ Pending("stop", r) => status[r] \in {"stopping", "stopped"}
  /\ Asked("stop", r) => status[r] = "stopping"

\* A request that has read goes on as what it is.
RequestFits(k) ==
  /\ req[k].pc \in {"count", "insert"} => req[k].op \in {"create", "accept"}
  /\ req[k].op = "stop" => req[k].seen \in {"starting", "ready", "failed"}

SlotFits(s) ==
  slot[s].pc = "reportFailed" => (slot[s].action = "stop" <=> slot[s].code = "preview_stop_failed")

RunFits(r) == Once("start", r) /\ Once("stop", r) /\ StatusFits(r)

OneJobEach ==
  /\ \A r \in Sound : RunFits(r)
  /\ \A k \in Clients : RequestFits(k)
  /\ \A s \in Slots : SlotFits(s)

-----------------------------------------------------------------------------
(***************************************************************************)
(* What is shown is served.  A stop that is not enqueued yet may be taken  *)
(* back: until it is, the run is still what it was.                        *)
(***************************************************************************)
Is(r, x) == status[r] = x \/ \E k \in Clients : Asks(k, "stop", r) /\ req[k].seen = x

Runtime == {"enter", "materialize", "ports", "unreserve", "up", "probe"}

\* A start that has the runtime before it, or is in it.
Goes(s, r) ==
  /\ Works(s, "start", r)
  /\ slot[s].pc \in Runtime \cup {"reportReady"} \/ (slot[s].pc = "replied" /\ slot[s].reply)

TimedOut(r) == diagnostic[r] = "preview_start_timeout"

StartServes(s, r) ==
  Works(s, "start", r) /\ Is(r, "starting") =>
    /\ slot[s].pc \in {"ports", "up", "probe", "reportReady"} => r \in copies
    /\ slot[s].pc = "reportReady" => r \in up
    /\ slot[s].pc = "reportFailed" /\ slot[s].code = "preview_start_timeout" => r \in copies

Served(r) ==
  /\ \A s \in Slots : Goes(s, r) => ~Is(r, "ready") /\ ~TimedOut(r)
  /\ \A s \in Slots : StartServes(s, r)
  /\ TimedOut(r) => ~Is(r, "starting")
  /\ Is(r, "ready") => r \in up /\ r \in copies
  /\ Is(r, "failed") /\ TimedOut(r) => r \in copies

ServedInv == \A r \in Sound : Served(r)

-----------------------------------------------------------------------------
(***************************************************************************)
(* What is stopped is quiet.                                               *)
(***************************************************************************)
\* A start that is about to enter the runtime, and one that is in it.
Enters(s, r) ==
  /\ Works(s, "start", r) /\ slot[s].pc = "replied" /\ slot[s].reply
  /\ Execution(s) \notin stopRequested
InRuntime(s, r) == Works(s, "start", r) /\ slot[s].pc \in Runtime

\* A start that has not come to Docker.
BeforeDocker(r) ==
  \/ Asked("start", r) \/ Listed("start", r)
  \/ \E s \in Slots : /\ Works(s, "start", r)
                      /\ slot[s].pc \in {"dispatch", "replied", "enter", "materialize",
                                         "ports", "unreserve"}

EnteringIsUntold(s, r) ==
  Enters(s, r) =>
    /\ ~Worked("stop", r)
    /\ status[r] \in {"starting", "stopping"}
    /\ \A k \in Clients : Asks(k, "stop", r) => req[k].seen = "starting"

StopFindsNothing(t, r) ==
  Works(t, "stop", r) =>
    /\ slot[t].pc \in {"verify", "down", "remove", "reportStopped"} =>
         \A s \in Slots : ~InRuntime(s, r)
    /\ slot[t].pc = "settle" =>
         /\ FALSE \in slot[t].saw
         /\ \A s \in Slots : ~(Works(s, "start", r) /\ slot[s].pc = "enter")
    /\ slot[t].pc \in {"remove", "reportStopped"} => r \notin up

\* A start of the run ended before Docker and removed its copy.
Cleared(r) == \E a \in BOOLEAN : preDocker[<<r, a>>] = "complete"

Quiet(r) ==
  /\ \A s \in Slots : EnteringIsUntold(s, r)
  /\ \A t \in Slots : StopFindsNothing(t, r)
  /\ r \in skipped => ~Pending("start", r) /\ r \notin up
  /\ Cleared(r) =>
       r \notin up /\ ~BeforeDocker(r) /\ \A s \in Slots : ~InRuntime(s, r) /\ ~Enters(s, r)
  /\ BeforeDocker(r) => r \notin up
  /\ status[r] \in {"unused", "deleted"} =>
       r \notin up /\ r \notin skipped /\ ~Cleared(r)
  /\ status[r] = "stopped" => r \notin up /\ \A s \in Slots : ~InRuntime(s, r)

\* No job was given out a second time, and none can be.
NoneAgain ==
  /\ held = {} /\ overlapped = {} /\ replaced = {}
  /\ \A n \in DOMAIN queue : ~queue[n].again
  /\ \A s \in Slots : slot[s].again = FALSE

QuietInv == \A r \in Runs : Quiet(r)

LEMMA AllSound ==
  ASSUME NoneAgain, OneJobEach
  PROVE  \A r \in Runs : RunFits(r)
  BY DEF NoneAgain, OneJobEach, Sound

-----------------------------------------------------------------------------
(***************************************************************************)
(* A step that has nothing to do with the job leaves it in its place, or   *)
(* takes it away.                                                          *)
(***************************************************************************)
AsksStill(a, r)  == \A k \in Clients : Asks(k, a, r)' => Asks(k, a, r)
QueueStill(a, r) == (Listed(a, r)' => Listed(a, r)) /\ ListedOnce(a, r)'
SlotsStill(a, r) == \A s \in Slots : Works(s, a, r)' => Works(s, a, r)
HeldStill(a, r)  == \A j \in held' : Keeps(j, a, r)' => Keeps(j, a, r)

Still(a, r) == AsksStill(a, r) /\ QueueStill(a, r) /\ SlotsStill(a, r) /\ HeldStill(a, r)

\* The job is pending in one place still, if it is, and not asked for anew.
Follows(a, r) ==
  /\ Once(a, r)'
  /\ Pending(a, r)' => Pending(a, r)
  /\ Asked(a, r)' => Asked(a, r)

LEMMA StillOnce ==
  ASSUME NEW a, NEW r, Once(a, r), Still(a, r)
  PROVE  Follows(a, r)
<1>1. (Asked(a, r)' => Asked(a, r)) /\ AskedOnce(a, r)'
  BY DEF Still, AsksStill, Asked, AskedOnce, Once
<1>2. (Listed(a, r)' => Listed(a, r)) /\ ListedOnce(a, r)'
  BY DEF Still, QueueStill
<1>3. (Worked(a, r)' => Worked(a, r)) /\ WorkedOnce(a, r)'
  BY DEF Still, SlotsStill, Worked, WorkedOnce, Once
<1>4. (Kept(a, r)' => Kept(a, r)) /\ KeptOnce(a, r)'
  BY DEF Still, HeldStill, Kept, KeptOnce, Once, Keeps
<1> QED
  BY <1>1, <1>2, <1>3, <1>4 DEF Once, InOnePlace, Pending, Follows

LEMMA RunFollows ==
  ASSUME NEW r, RunFits(r), Follows("start", r), Follows("stop", r), status'[r] = status[r]
  PROVE  RunFits(r)'
  BY DEF RunFits, StatusFits, Follows

LEMMA QueueSame ==
  ASSUME NEW a, NEW r, ListedOnce(a, r), queue' = queue
  PROVE  QueueStill(a, r)
  BY DEF QueueStill, Listed, ListedOnce, Lists

LEMMA QueueAppended ==
  ASSUME NEW a, NEW r, ListedOnce(a, r), queue \in Seq(Job), NEW j \in Job,
         queue' = Append(queue, j)
  PROVE  /\ ~IsFor(j, a, r) => QueueStill(a, r)
         /\ ~Listed(a, r) => ListedOnce(a, r)'
<1>1. \A n \in DOMAIN queue' :
        \/ n \in DOMAIN queue /\ queue'[n] = queue[n]
        \/ n = Len(queue) + 1 /\ queue'[n] = j
  OBVIOUS
<1>2. \A n \in DOMAIN queue' : Lists(n, a, r)' =>
        \/ n \in DOMAIN queue /\ Lists(n, a, r)
        \/ n = Len(queue) + 1 /\ IsFor(j, a, r)
  BY <1>1 DEF Lists
<1> QED
  BY <1>2 DEF QueueStill, Listed, ListedOnce

LEMMA QueueTaken ==
  ASSUME NEW a, NEW r, ListedOnce(a, r), queue \in Seq(Job), queue # <<>>,
         queue' = Tail(queue)
  PROVE  /\ QueueStill(a, r)
         /\ IsFor(Head(queue), a, r) => ~Listed(a, r)'
         /\ IsFor(Head(queue), a, r) => Listed(a, r)
<1>1. \A n \in DOMAIN queue' :
        n \in Nat /\ n # 0 /\ n + 1 \in DOMAIN queue /\ queue'[n] = queue[n + 1]
  OBVIOUS
<1>2. \A n \in DOMAIN queue' : Lists(n, a, r)' =>
        n \in Nat /\ n # 0 /\ n + 1 \in DOMAIN queue /\ Lists(n + 1, a, r)
  BY <1>1 DEF Lists
<1>3. 1 \in DOMAIN queue /\ queue[1] = Head(queue)
  OBVIOUS
<1>4. IsFor(Head(queue), a, r) => Lists(1, a, r)
  BY <1>3 DEF Lists
<1>5. (Listed(a, r)' => Listed(a, r)) /\ (IsFor(Head(queue), a, r) => ~Listed(a, r)')
  BY <1>2, <1>3, <1>4 DEF Listed, ListedOnce
<1>6. \A m, n \in DOMAIN queue' : Lists(m, a, r)' /\ Lists(n, a, r)' => m + 1 = n + 1
  BY <1>2 DEF ListedOnce
<1>7. \A m, n \in DOMAIN queue' : Lists(m, a, r)' /\ Lists(n, a, r)' => m = n
  BY <1>1, <1>6
<1> QED
  BY <1>3, <1>4, <1>5, <1>7 DEF QueueStill, Listed, ListedOnce

LEMMA QueuePrepended ==
  ASSUME NEW a, NEW r, ListedOnce(a, r), queue \in Seq(Job), NEW j \in Job,
         queue' = <<j>> \o queue
  PROVE  /\ ~IsFor(j, a, r) => QueueStill(a, r)
         /\ ~Listed(a, r) => ListedOnce(a, r)'
<1>1. \A n \in DOMAIN queue' :
        /\ n \in Nat
        /\ \/ n - 1 \in DOMAIN queue /\ queue'[n] = queue[n - 1]
           \/ n = 1 /\ queue'[n] = j
  OBVIOUS
<1>2. \A n \in DOMAIN queue' : Lists(n, a, r)' =>
        \/ n - 1 \in DOMAIN queue /\ Lists(n - 1, a, r)
        \/ n = 1 /\ IsFor(j, a, r)
  BY <1>1 DEF Lists
<1>3. ~IsFor(j, a, r) =>
        \A m, n \in DOMAIN queue' : Lists(m, a, r)' /\ Lists(n, a, r)' => m - 1 = n - 1
  BY <1>2 DEF ListedOnce
<1>4. ~IsFor(j, a, r) =>
        \A m, n \in DOMAIN queue' : Lists(m, a, r)' /\ Lists(n, a, r)' => m = n
  BY <1>1, <1>3
<1>5. ~Listed(a, r) =>
        \A m, n \in DOMAIN queue' : Lists(m, a, r)' /\ Lists(n, a, r)' => m = n
  BY <1>2 DEF Listed
<1>6. ~IsFor(j, a, r) => (Listed(a, r)' => Listed(a, r))
  BY <1>2 DEF Listed
<1> QED
  BY <1>4, <1>5, <1>6 DEF QueueStill, ListedOnce

-----------------------------------------------------------------------------
(***************************************************************************)
(* What a step of a slot does to its job: it goes on with it, or it ends.  *)
(***************************************************************************)
SameJob(s) ==
  /\ slot'[s].pc # "free"
  /\ slot'[s].action = slot[s].action /\ slot'[s].run = slot[s].run
  /\ slot'[s].again = slot[s].again

SlotMoves(s) ==
  /\ slot[s].pc # "free"
  /\ \A t \in Slots \ {s} : slot'[t] = slot[t]
  /\ slot'[s] = NoJob \/ SameJob(s)
  /\ SlotFits(s)'

LEMMA GotoMoves ==
  ASSUME SlotsTyped, NEW s \in Slots, slot[s].pc # "free",
         NEW pc \in (StartPc \cup StopPc) \ {"reportFailed"}, Goto(s, pc)
  PROVE  SlotMoves(s) /\ SameJob(s) /\ slot'[s].pc = pc
<1>1. slot'[s] = [slot[s] EXCEPT !.pc = pc] /\ slot[s] \in SlotState
  BY DEF Goto, SlotsTyped
<1>2. \A t \in Slots \ {s} : slot'[t] = slot[t]
  BY DEF Goto, SlotsTyped
<1>3. /\ slot'[s].pc = pc /\ slot'[s].action = slot[s].action
      /\ slot'[s].run = slot[s].run /\ slot'[s].again = slot[s].again
  BY <1>1 DEF SlotState
<1> QED
  BY <1>2, <1>3 DEF SlotMoves, SameJob, SlotFits, StartPc, StopPc

LEMMA FailMoves ==
  ASSUME SlotsTyped, NEW s \in Slots, slot[s].pc # "free", NEW code,
         slot[s].action = "stop" <=> code = "preview_stop_failed", Fail(s, code)
  PROVE  SlotMoves(s) /\ SameJob(s) /\ slot'[s].pc = "reportFailed" /\ slot'[s].code = code
<1>1. slot'[s] = [slot[s] EXCEPT !.pc = "reportFailed", !.code = code] /\ slot[s] \in SlotState
  BY DEF Fail, SlotsTyped
<1>2. \A t \in Slots \ {s} : slot'[t] = slot[t]
  BY DEF Fail, SlotsTyped
<1>3. /\ slot'[s].pc = "reportFailed" /\ slot'[s].action = slot[s].action
      /\ slot'[s].run = slot[s].run /\ slot'[s].again = slot[s].again /\ slot'[s].code = code
  BY <1>1 DEF SlotState
<1> QED
  BY <1>2, <1>3 DEF SlotMoves, SameJob, SlotFits

LEMMA FinishMoves ==
  ASSUME SlotsTyped, NEW s \in Slots, slot[s].pc # "free", Finish(s)
  PROVE  SlotMoves(s) /\ slot'[s] = NoJob
<1>1. slot'[s] = NoJob /\ \A t \in Slots \ {s} : slot'[t] = slot[t]
  BY DEF Finish, SlotsTyped
<1> QED
  BY <1>1 DEF SlotMoves, SlotFits, NoJob

LEMMA StartFailsMoves ==
  ASSUME SlotsTyped, NEW s \in Slots, slot[s].pc # "free", slot[s].action = "start",
         NEW code, code # "preview_stop_failed", StartFails(s, code)
  PROVE  /\ SlotMoves(s)
         /\ \/ Execution(s) \in stopRequested /\ slot'[s] = NoJob
            \/ /\ Execution(s) \notin stopRequested /\ SameJob(s)
               /\ slot'[s].pc = "reportFailed" /\ slot'[s].code = code
  BY FailMoves, FinishMoves DEF StartFails

LEMMA DispatchMoves ==
  ASSUME SlotsTyped, NEW s \in Slots, Dispatch(s)
  PROVE  /\ SlotMoves(s) /\ SameJob(s) /\ slot'[s].pc = "replied"
         /\ slot'[s].reply => Dispatchable(slot[s].action, slot[s].run)
<1>1. PICK b : /\ slot' = [slot EXCEPT ![s].pc = "replied", ![s].reply = b]
               /\ b => Dispatchable(slot[s].action, slot[s].run)
  BY DEF Dispatch
<1>2. slot'[s] = [slot[s] EXCEPT !.pc = "replied", !.reply = b] /\ slot[s] \in SlotState
  BY <1>1 DEF SlotsTyped
<1>3. \A t \in Slots \ {s} : slot'[t] = slot[t]
  BY <1>1 DEF SlotsTyped
<1>4. /\ slot'[s].pc = "replied" /\ slot'[s].action = slot[s].action /\ slot'[s].reply = b
      /\ slot'[s].run = slot[s].run /\ slot'[s].again = slot[s].again
  BY <1>2 DEF SlotState
<1> QED
  BY <1>1, <1>3, <1>4 DEF SlotMoves, SameJob, SlotFits, Dispatch

\* The codes of a start are not the code of a stop.
LEMMA StartCodes == \A pc : "preview_stop_failed" \notin StageCode(pc)
  BY DEF StageCode

\* A stop that aborts a start remembers which.
LEMMA RouteMoves ==
  ASSUME SlotsTyped, NEW s \in Slots, StopRoute(s)
  PROVE  /\ SlotMoves(s) /\ SameJob(s)
         /\ slot'[s].pc \in {"settle", "verify", "reportStopped"}
         /\ slot'[s].pc = "settle" => slot'[s].saw = Which(Active(slot[s].run))
<1>0. slot[s].pc # "free" /\ slot[s] \in SlotState
  BY DEF StopRoute, At, SlotsTyped
<1>1. CASE slot' = [slot EXCEPT ![s].pc = "settle", ![s].saw = Which(Active(slot[s].run))]
  <2> DEFINE q == [slot[s] EXCEPT !.pc = "settle", !.saw = Which(Active(slot[s].run))]
  <2>1. slot'[s] = q /\ \A t \in Slots \ {s} : slot'[t] = slot[t]
    BY <1>1 DEF SlotsTyped
  <2>2. /\ q.pc = "settle" /\ q.action = slot[s].action /\ q.saw = Which(Active(slot[s].run))
        /\ q.run = slot[s].run /\ q.again = slot[s].again
    BY <1>0 DEF SlotState
  <2> QED
    BY <1>0, <2>1, <2>2 DEF SlotMoves, SameJob, SlotFits
<1>2. ASSUME NEW pc \in {"verify", "reportStopped"}, Goto(s, pc)
      PROVE  SlotMoves(s) /\ SameJob(s) /\ slot'[s].pc = pc
  BY <1>0, <1>2, GotoMoves DEF StopPc
<1> QED
  BY <1>1, <1>2 DEF StopRoute

\* A start whose directory is there removes it before it writes its copy.
LEMMA SameMoves ==
  ASSUME SlotsTyped, NEW s \in Slots, slot[s].pc \notin {"free", "reportFailed"}, slot' = slot
  PROVE  SlotMoves(s) /\ SameJob(s)
  BY DEF SlotMoves, SameJob, SlotFits

LEMMA SlotStepMoves ==
  ASSUME SlotsTyped, NEW s \in Slots, SlotStep(s)
  PROVE  SlotMoves(s) /\ UNCHANGED <<queue, req, held, overlapped>>
<1>1. UNCHANGED <<queue, req, held, overlapped>>
  <2>1. CASE Dispatch(s) \/ StartReplied(s) \/ StartEnter(s) \/ StartMaterialize(s)
    BY <2>1 DEF SlotStep, Dispatch, StartReplied, StartEnter, StartMaterialize, controlPlane, lost
  <2>2. CASE StartPorts(s) \/ StartUnreserve(s) \/ StartProceeds(s) \/ StartCancelled(s)
    BY <2>2 DEF SlotStep, StartPorts, StartUnreserve, StartProceeds, StartCancelled,
                controlPlane, lost
  <2>3. CASE StartStageFails(s) \/ StopReplied(s) \/ StopRoute(s) \/ StopSettled(s)
    BY <2>3 DEF SlotStep, StartStageFails, StopReplied, StopRoute, StopSettled, controlPlane, lost
  <2>4. CASE StopVerify(s) \/ StopDown(s) \/ StopRemove(s)
    BY <2>4 DEF SlotStep, StopVerify, StopDown, StopRemove, controlPlane, lost
  <2>5. CASE ReportsFailed(s) \/ StartReportsReady(s) \/ StopReportsStopped(s)
    BY <2>5 DEF SlotStep, ReportsFailed, StartReportsReady, StopReportsStopped, lost
  <2> QED
    BY <2>1, <2>2, <2>3, <2>4, <2>5 DEF SlotStep, JobStep
<1>2. CASE Dispatch(s)
  BY <1>1, <1>2, DispatchMoves
<1>3. CASE ReportsFailed(s)
  BY <1>1, <1>3, FinishMoves DEF ReportsFailed
<1>4. CASE StartReplied(s)
  BY <1>1, <1>4, FinishMoves, GotoMoves, FailMoves DEF StartReplied, At, StartPc
<1>5. CASE StartEnter(s)
  BY <1>1, <1>5, GotoMoves, StartFailsMoves DEF StartEnter, At, StartPc
<1>6. CASE StartMaterialize(s)
  BY <1>1, <1>6, SameMoves, GotoMoves, StartFailsMoves DEF StartMaterialize, At, StartPc
<1>7. CASE StartPorts(s)
  BY <1>1, <1>7, FinishMoves, GotoMoves DEF StartPorts, At, StartPc
<1>8. CASE StartUnreserve(s)
  BY <1>1, <1>8, FinishMoves, StartFailsMoves DEF StartUnreserve, At
<1>9. CASE StartProceeds(s)
  BY <1>1, <1>9, GotoMoves DEF StartProceeds, At, StartPc
<1>10. CASE StartCancelled(s)
  BY <1>1, <1>10, FinishMoves DEF StartCancelled, At
<1>11. CASE StartStageFails(s)
  <2>1. PICK code \in StageCode(slot[s].pc) \cup {"preview_start_timeout"} : StartFails(s, code)
    BY <1>11 DEF StartStageFails
  <2>2. code # "preview_stop_failed"
    BY StartCodes
  <2> QED
    BY <1>1, <1>11, <2>1, <2>2, StartFailsMoves DEF StartStageFails, At
<1>12. CASE StartReportsReady(s)
  BY <1>1, <1>12, FinishMoves, StartFailsMoves DEF StartReportsReady, At
<1>13. CASE StopReplied(s)
  BY <1>1, <1>13, GotoMoves, FailMoves DEF StopReplied, At, StopPc
<1>14. CASE StopRoute(s)
  BY <1>1, <1>14, RouteMoves
<1>15. CASE StopSettled(s)
  BY <1>1, <1>15, GotoMoves, FailMoves DEF StopSettled, At, StopPc
<1>16. CASE StopVerify(s)
  BY <1>1, <1>16, GotoMoves, FailMoves DEF StopVerify, At, StopPc
<1>17. CASE StopDown(s)
  BY <1>1, <1>17, GotoMoves, FailMoves DEF StopDown, At, StopPc
<1>18. CASE StopRemove(s)
  BY <1>1, <1>18, GotoMoves, FailMoves DEF StopRemove, At, StopPc
<1>19. CASE StopReportsStopped(s)
  BY <1>1, <1>19, FinishMoves, FailMoves DEF StopReportsStopped, At
<1> QED
  BY <1>2, <1>3, <1>4, <1>5, <1>6, <1>7, <1>8, <1>9, <1>10, <1>11, <1>12,
     <1>13, <1>14, <1>15, <1>16, <1>17, <1>18, <1>19 DEF SlotStep, JobStep

-----------------------------------------------------------------------------
(***************************************************************************)
(* The requests and the job.                                               *)
(***************************************************************************)
LEMMA RequestLeaves ==
  ASSUME req \in [Clients -> Request], NEW k \in Clients, NEW q,
         q.pc \notin {"enqueue", "undo"}, req' = [req EXCEPT ![k] = q],
         UNCHANGED <<queue, slot, held>>, NEW a, NEW r, Once(a, r)
  PROVE  /\ Follows(a, r)
         /\ Asks(k, a, r) => ~Pending(a, r)'
<1>1. \A l \in Clients : Asks(l, a, r)' => l # k /\ Asks(l, a, r)
  BY DEF Asks
<1>2. QueueStill(a, r)
  BY QueueSame DEF Once
<1>3. SlotsStill(a, r) /\ HeldStill(a, r)
  BY DEF SlotsStill, Works, HeldStill, Keeps
<1>4. Follows(a, r)
  BY <1>1, <1>2, <1>3, StillOnce DEF Still, AsksStill
<1>5. ASSUME Asks(k, a, r) PROVE ~Pending(a, r)'
  <2>1. ~Asked(a, r)'
    BY <1>1, <1>5 DEF Asked, Once, AskedOnce
  <2>2. ~Listed(a, r) /\ ~Worked(a, r) /\ ~Kept(a, r)
    BY <1>5 DEF Asked, Once, InOnePlace
  <2>3. ~Listed(a, r)' /\ ~Worked(a, r)' /\ ~Kept(a, r)'
    BY <1>2, <1>3, <2>2 DEF QueueStill, SlotsStill, HeldStill, Worked, Kept, Keeps
  <2> QED
    BY <2>1, <2>3 DEF Pending
<1> QED
  BY <1>4, <1>5

\* A run whose row takes a job on: it had no such job.
LEMMA RequestAsks ==
  ASSUME req \in [Clients -> Request], status \in [Runs -> Status],
         \A o \in Sound : RunFits(o),
         NEW k \in Clients, NEW r \in Runs, NEW q, NEW x, NEW a \in Actions,
         q.pc = "enqueue", q.run = r, (q.op = "stop") <=> (a = "stop"),
         req' = [req EXCEPT ![k] = q], status' = [status EXCEPT ![r] = x],
         r \in Sound => ~Pending(a, r), UNCHANGED <<queue, slot, held>>,
         a = "stop" => x = "stopping",
         a = "start" => x = "starting" /\ (r \in Sound => ~Pending("stop", r))
  PROVE  \A o \in Sound : RunFits(o)'
<1> SUFFICES ASSUME NEW o \in Sound PROVE RunFits(o)'
  OBVIOUS
<1>0. RunFits(o) /\ o \in Runs
  BY DEF Sound
<1>1. \A b : SlotsStill(b, o) /\ HeldStill(b, o)
  BY DEF SlotsStill, Works, HeldStill, Keeps
<1>2. \A b \in Actions : QueueStill(b, o) /\ Once(b, o)
  BY <1>0, QueueSame DEF RunFits, Once, Actions
<1>3. ASSUME NEW b \in Actions, o # r \/ b # a PROVE Follows(b, o)
  <2>1. AsksStill(b, o)
    BY <1>3 DEF AsksStill, Asks, Actions
  <2> QED
    BY <1>1, <1>2, <2>1, StillOnce DEF Still
<1>4. CASE o # r
  BY <1>0, <1>3, <1>4, RunFollows DEF Actions
<1>5. CASE o = r
  <2>1. \A l \in Clients : Asks(l, a, r)' => l = k
    BY <1>5 DEF Asks, Pending, Asked
  <2>2. ~Listed(a, r)' /\ ~Worked(a, r)' /\ ~Kept(a, r)'
    BY <1>1, <1>2, <1>5
    DEF Pending, QueueStill, SlotsStill, HeldStill, Worked, Kept, Keeps
  <2>3. Once(a, r)'
    BY <2>1, <2>2 DEF Once, AskedOnce, ListedOnce, WorkedOnce, KeptOnce, InOnePlace, Listed,
       Worked, Kept
  <2>4. status'[r] = x
    OBVIOUS
  <2>5. CASE a = "stop"
    <3>1. Follows("start", r)
      BY <1>3, <1>5, <2>5 DEF Actions
    <3> QED
      BY <1>5, <2>3, <2>4, <2>5, <3>1 DEF RunFits, StatusFits, Follows
  <2>6. CASE a = "start"
    <3>1. Follows("stop", r) /\ ~Pending("stop", r)
      BY <1>3, <1>5, <2>6 DEF Actions
    <3> QED
      BY <1>5, <2>3, <2>4, <2>6, <3>1 DEF RunFits, StatusFits, Follows, Pending
  <2> QED
    BY <2>5, <2>6 DEF Actions
<1> QED
  BY <1>4, <1>5

LEMMA InsertFits ==
  ASSUME RequestsTyped, RestTyped, OneJobEach, NEW k \in Clients, InsertRun(k),
         UNCHANGED <<slot, held>>
  PROVE  \A o \in Sound : RunFits(o)'
<1>1. PICK r \in Runs : InsertAs(k, r)
  BY DEF InsertRun, RequestsTyped, RequestsNameRuns
<1>2. /\ req \in [Clients -> Request] /\ status \in [Runs -> Status] /\ req[k] \in Request
      /\ queue' = queue /\ req[k].pc = "insert" /\ req[k].op # "stop"
  BY DEF RequestsTyped, RestTyped, InsertRun, OneJobEach, RequestFits
<1>3. CASE Insertable(r, req[k].comp, req[k].seq)
  <2> DEFINE q == [req[k] EXCEPT !.run = r, !.pc = "enqueue"]
  <2>1. req' = [req EXCEPT ![k] = q] /\ status' = [status EXCEPT ![r] = "starting"]
    BY <1>1, <1>2, <1>3 DEF InsertAs
  <2>2. q.pc = "enqueue" /\ q.run = r /\ q.op # "stop"
    BY <1>2 DEF Request
  <2>3. status[r] \in {"unused", "deleted"}
    BY <1>2, <1>3 DEF Insertable, Status
  <2>4. r \in Sound => ~Pending("start", r) /\ ~Pending("stop", r)
    BY <2>3 DEF OneJobEach, RunFits, StatusFits
  <2> HIDE DEF q
  <2> QED
    <3>1. "start" \in Actions
      BY DEF Actions
    <3> QED
      BY <1>2, <2>1, <2>2, <2>4, <3>1, RequestAsks DEF OneJobEach
<1>4. CASE ~Insertable(r, req[k].comp, req[k].seq)
  <2>1. req' = [req EXCEPT ![k] = Idle] /\ status' = status
    BY <1>1, <1>4 DEF InsertAs, rows
  <2> QED
    BY <1>2, <2>1, RequestLeaves, RunFollows DEF OneJobEach, RunFits, Idle
<1> QED
  BY <1>3, <1>4

LEMMA StopTransitionFits ==
  ASSUME RequestsTyped, RestTyped, OneJobEach, NEW k \in Clients, StopTransition(k),
         UNCHANGED <<slot, held>>
  PROVE  \A o \in Sound : RunFits(o)'
<1> DEFINE r == req[k].run
<1>2. /\ req \in [Clients -> Request] /\ status \in [Runs -> Status] /\ req[k] \in Request
      /\ queue' = queue /\ req[k].pc = "cas" /\ req[k].op = "stop" /\ r \in Runs
      /\ req[k].seen \in {"starting", "ready", "failed"}
  BY DEF RequestsTyped, RequestsNameRuns, RestTyped, StopTransition, OneJobEach, RequestFits
<1>3. CASE status[r] = req[k].seen
  <2> DEFINE q == [req[k] EXCEPT !.pc = "enqueue"]
  <2>1. req' = [req EXCEPT ![k] = q] /\ status' = [status EXCEPT ![r] = "stopping"]
    BY <1>2, <1>3 DEF StopTransition
  <2>2. q.pc = "enqueue" /\ q.run = r /\ q.op = "stop"
    BY <1>2 DEF Request
  <2>4. r \in Sound => ~Pending("stop", r)
    BY <1>2, <1>3 DEF OneJobEach, RunFits, StatusFits
  <2> HIDE DEF q
  <2> QED
    <3>1. "stop" \in Actions
      BY DEF Actions
    <3> QED
      BY <1>2, <2>1, <2>2, <2>4, <3>1, RequestAsks DEF OneJobEach
<1>4. CASE status[r] # req[k].seen
  <2>1. req' = [req EXCEPT ![k] = Idle] /\ status' = status
    BY <1>4 DEF StopTransition
  <2> QED
    BY <1>2, <2>1, RequestLeaves, RunFollows DEF OneJobEach, RunFits, Idle
<1> QED
  BY <1>3, <1>4

LEMMA EnqueueFits ==
  ASSUME RequestsTyped, RestTyped, OneJobEach, NEW k \in Clients, Enqueue(k),
         UNCHANGED <<slot, held>>
  PROVE  \A o \in Sound : RunFits(o)'
<1> SUFFICES ASSUME NEW o \in Sound PROVE RunFits(o)'
  OBVIOUS
<1> DEFINE j == JobOf(k)
<1>1. /\ req \in [Clients -> Request] /\ queue \in Seq(Job) /\ status' = status
      /\ req[k].pc = "enqueue" /\ req[k].run \in Runs
      /\ queue' = Append(queue, j) /\ req' = [req EXCEPT ![k] = Idle]
      /\ RunFits(o)
  BY DEF RequestsTyped, RequestsNameRuns, RestTyped, Enqueue, rows, OneJobEach
<1>2. j \in Job
  BY <1>1 DEF JobOf, Job
<1>3. \A a \in Actions : IsFor(j, a, o) <=> Asks(k, a, o)
  BY <1>1 DEF IsFor, JobOf, Asks, Actions
<1> HIDE DEF j
<1>4. \A a \in Actions : SlotsStill(a, o) /\ HeldStill(a, o) /\ Once(a, o)
  BY <1>1 DEF SlotsStill, Works, HeldStill, Keeps, RunFits, Actions
<1>5. \A a \in Actions : \A l \in Clients : Asks(l, a, o)' => l # k /\ Asks(l, a, o)
  BY <1>1 DEF Asks, Idle
<1>6. ASSUME NEW a \in Actions PROVE Follows(a, o)
  <2>1. ListedOnce(a, o)
    BY <1>4 DEF Once
  <2>2. CASE ~IsFor(j, a, o)
    <3>1. QueueStill(a, o)
      BY <1>1, <1>2, <2>1, <2>2, QueueAppended
    <3> QED
      BY <1>4, <1>5, <3>1, StillOnce DEF Still, AsksStill
  <2>3. CASE IsFor(j, a, o)
    <3>1. Asks(k, a, o)
      BY <1>3, <2>3
    <3>2. Asked(a, o) /\ ~Listed(a, o) /\ ~Worked(a, o) /\ ~Kept(a, o)
      BY <1>4, <3>1 DEF Asked, Once, InOnePlace
    <3>3. ListedOnce(a, o)'
      BY <1>1, <1>2, <2>1, <3>2, QueueAppended
    <3>4. ~Asked(a, o)'
      BY <1>4, <1>5, <3>1 DEF Asked, Once, AskedOnce
    <3>5. ~Worked(a, o)' /\ ~Kept(a, o)'
      BY <1>4, <3>2 DEF SlotsStill, HeldStill, Worked, Kept, Keeps
    <3>6. Once(a, o)'
      BY <3>3, <3>4, <3>5 DEF Once, InOnePlace, AskedOnce, WorkedOnce, KeptOnce, Asked, Worked,
         Kept
    <3> QED
      BY <3>2, <3>4, <3>6 DEF Follows, Pending
  <2> QED
    BY <2>2, <2>3
<1> QED
  BY <1>1, <1>6, RunFollows DEF Actions

LEMMA EnqueueRaisesFits ==
  ASSUME "ack" \notin Faults, RequestsTyped, RestTyped, OneJobEach,
         NEW k \in Clients, EnqueueRaises(k), UNCHANGED <<slot, held>>
  PROVE  \A o \in Sound : RunFits(o)'
<1> SUFFICES ASSUME NEW o \in Sound PROVE RunFits(o)'
  OBVIOUS
<1>1. /\ req \in [Clients -> Request] /\ req[k] \in Request /\ status' = status
      /\ req[k].pc = "enqueue" /\ queue' = queue
      /\ req' = [req EXCEPT ![k].pc = "undo"] /\ RunFits(o)
  BY DEF RequestsTyped, EnqueueRaises, Fault, rows, OneJobEach
<1>2. /\ req'[k].pc = "undo" /\ req'[k].op = req[k].op /\ req'[k].run = req[k].run
      /\ \A l \in Clients \ {k} : req'[l] = req[l]
  BY <1>1 DEF Request
<1>3. \A a : AsksStill(a, o)
  BY <1>1, <1>2 DEF AsksStill, Asks
<1>4. \A a : SlotsStill(a, o) /\ HeldStill(a, o)
  BY DEF SlotsStill, Works, HeldStill, Keeps
<1>5. QueueStill("start", o) /\ QueueStill("stop", o)
  BY <1>1, QueueSame DEF RunFits, Once
<1> QED
  BY <1>1, <1>3, <1>4, <1>5, StillOnce, RunFollows DEF Still, RunFits

\* What is taken back had not been enqueued.
LEMMA UndoFits ==
  ASSUME RequestsTyped, RestTyped, OneJobEach, NEW k \in Clients,
         UndoCreate(k) \/ UndoAccept(k) \/ UndoStop(k), UNCHANGED <<slot, held>>
  PROVE  \A o \in Sound : RunFits(o)'
<1>0. PICK r \in Runs : r = req[k].run
  BY DEF UndoCreate, UndoAccept, UndoStop, RequestsTyped, RequestsNameRuns
<1>1. /\ req \in [Clients -> Request] /\ status \in [Runs -> Status] /\ r \in Runs
      /\ req[k].pc = "undo" /\ queue' = queue /\ req' = [req EXCEPT ![k] = Idle]
      /\ Sound \subseteq Runs /\ \A o \in Sound : RunFits(o)
  BY <1>0 DEF Sound, RequestsTyped, RestTyped, UndoCreate, UndoAccept, UndoStop, OneJobEach
<1>2. \A o \in Sound, a \in Actions : Follows(a, o) /\ (Asks(k, a, o) => ~Pending(a, o)')
  BY <1>1, RequestLeaves DEF RunFits, Actions, Idle
<1>3. \A o \in Runs : o # r => status'[o] = status[o]
  BY <1>0, <1>1 DEF UndoCreate, UndoAccept, UndoStop
<1>4. \A o \in Sound : o # r => RunFits(o)'
  BY <1>1, <1>2, <1>3, RunFollows DEF Actions
<1> SUFFICES ASSUME r \in Sound PROVE RunFits(r)'
  BY <1>4
<1>5. Once("start", r)' /\ Once("stop", r)'
  BY <1>1, <1>2 DEF Follows, Actions
<1>6. CASE req[k].op # "stop"
  <2>1. Asks(k, "start", r)
    BY <1>0, <1>1, <1>6 DEF Asks
  <2>2. ~Pending("start", r)'
    BY <1>1, <1>2, <2>1 DEF Actions
  <2>3. status[r] = "starting" => ~Pending("stop", r)'
    BY <1>1, <1>2 DEF Actions, Follows, RunFits, StatusFits
  <2>4. status[r] = "starting" \/ status'[r] = status[r]
    BY <1>0, <1>1, <1>6 DEF UndoCreate, UndoAccept, UndoStop
  <2>5. StatusFits(r)'
    BY <1>1, <1>2, <2>2, <2>3, <2>4 DEF StatusFits, RunFits, Follows, Actions, Pending
  <2> QED
    BY <1>5, <2>5 DEF RunFits
<1>7. CASE req[k].op = "stop"
  <2>1. Asks(k, "stop", r)
    BY <1>0, <1>1, <1>7 DEF Asks
  <2>2. ~Pending("stop", r)'
    BY <1>1, <1>2, <2>1 DEF Actions
  <2>3. req[k].seen \in {"starting", "ready", "failed"}
    BY <1>7 DEF OneJobEach, RequestFits
  <2>4. status'[r] \in {status[r], req[k].seen}
    BY <1>0, <1>1, <1>7 DEF UndoCreate, UndoAccept, UndoStop
  <2>5. StatusFits(r)'
    BY <1>1, <1>2, <2>2, <2>3, <2>4 DEF StatusFits, RunFits, Follows, Actions, Pending
  <2> QED
    BY <1>5, <2>5 DEF RunFits
<1> QED
  BY <1>6, <1>7

LEMMA ControlPlaneFits ==
  ASSUME "ack" \notin Faults, RequestsTyped, RestTyped, OneJobEach, ControlPlaneNext,
         UNCHANGED worker
  PROVE  \A o \in Sound : RunFits(o)'
<1>0. UNCHANGED <<slot, held>> /\ \A o \in Sound : RunFits(o)
  BY DEF worker, lost, OneJobEach
<1>1. ASSUME NEW k \in Clients, NEW q, q.pc \notin {"enqueue", "undo"},
             req' = [req EXCEPT ![k] = q], UNCHANGED <<queue, status>>
      PROVE  \A o \in Sound : RunFits(o)'
  BY <1>0, <1>1, RequestLeaves, RunFollows DEF RequestsTyped, RunFits
<1>2. ASSUME NEW k \in Clients, NEW c \in Compilations, CreateRead(k, c)
      PROVE  \A o \in Sound : RunFits(o)'
  <2> DEFINE q == [Idle EXCEPT !.op = "create", !.pc = "count", !.comp = c]
  <2>1. q.pc = "count" /\ req' = [req EXCEPT ![k] = q]
    BY <1>2 DEF CreateRead, Idle
  <2> HIDE DEF q
  <2> QED
    BY <1>1, <1>2, <2>1 DEF CreateRead, rows
<1>3. ASSUME NEW k \in Clients, NEW c \in Compilations, NEW r \in Runs, AcceptRead(k, c, r)
      PROVE  \A o \in Sound : RunFits(o)'
  <2> DEFINE q == [Idle EXCEPT !.op = "accept", !.pc = "count", !.comp = c, !.run = r]
  <2>1. q.pc = "count" /\ req' = [req EXCEPT ![k] = q]
    BY <1>3 DEF AcceptRead, Idle
  <2> HIDE DEF q
  <2> QED
    BY <1>1, <1>3, <2>1 DEF AcceptRead, rows
<1>4. ASSUME NEW k \in Clients, NEW r \in Runs, StopRead(k, r)
      PROVE  \A o \in Sound : RunFits(o)'
  <2> DEFINE q == [Idle EXCEPT !.op = "stop", !.pc = "cas", !.run = r, !.seen = status[r]]
  <2>1. q.pc = "cas" /\ req' = [req EXCEPT ![k] = q]
    BY <1>4 DEF StopRead, Idle
  <2> HIDE DEF q
  <2> QED
    BY <1>1, <1>4, <2>1 DEF StopRead, rows
<1>5. ASSUME NEW k \in Clients, CountRuns(k)
      PROVE  \A o \in Sound : RunFits(o)'
  <2> DEFINE n == Cardinality(RowsOf(req[k].comp)) + 1
             q == [req[k] EXCEPT !.pc = "insert", !.seq = n]
  <2>1. q.pc = "insert"
    BY DEF RequestsTyped, Request
  <2>2. req' = [req EXCEPT ![k] = q]
    BY <1>5 DEF CountRuns, RequestsTyped
  <2> HIDE DEF q
  <2> QED
    BY <1>1, <1>5, <2>1, <2>2 DEF CountRuns, rows
<1>6. CASE ControlPlaneRestart
  <2>1. \A a, r : AsksStill(a, r)
    BY <1>6 DEF ControlPlaneRestart, Idle, AsksStill, Asks
  <2>2. \A a, r : SlotsStill(a, r) /\ HeldStill(a, r)
    BY <1>0 DEF SlotsStill, Works, HeldStill, Keeps
  <2>3. UNCHANGED <<queue, status>>
    BY <1>6 DEF ControlPlaneRestart, rows
  <2>4. \A r \in Sound : Still("start", r) /\ Still("stop", r)
    BY <1>0, <2>1, <2>2, <2>3, QueueSame DEF Still, RunFits, Once
  <2> QED
    BY <1>0, <2>3, <2>4, StillOnce, RunFollows DEF RunFits
<1> QED
  BY <1>0, <1>2, <1>3, <1>4, <1>5, <1>6, InsertFits, StopTransitionFits, EnqueueFits,
     EnqueueRaisesFits, UndoFits
  DEF ControlPlaneNext, RequestStep

LEMMA RequestsFit ==
  ASSUME RequestsTyped, RestTyped, \A k \in Clients : RequestFits(k), ControlPlaneNext
  PROVE  \A k \in Clients : RequestFits(k)'
<1>0. req \in [Clients -> Request]
  BY DEF RequestsTyped
<1>1. ASSUME NEW k \in Clients, NEW q, req' = [req EXCEPT ![k] = q],
             q.pc \in {"count", "insert"} => q.op \in {"create", "accept"},
             q.op = "stop" => q.seen \in {"starting", "ready", "failed"}
      PROVE  \A l \in Clients : RequestFits(l)'
  BY <1>0, <1>1 DEF RequestFits
<1>2. ASSUME NEW k \in Clients, NEW c \in Compilations, CreateRead(k, c)
      PROVE  \A l \in Clients : RequestFits(l)'
  <2> DEFINE q == [Idle EXCEPT !.op = "create", !.pc = "count", !.comp = c]
  <2>1. q.pc = "count" /\ q.op = "create" /\ req' = [req EXCEPT ![k] = q]
    BY <1>2 DEF CreateRead, Idle
  <2> HIDE DEF q
  <2> QED
    BY <1>1, <2>1
<1>3. ASSUME NEW k \in Clients, NEW c \in Compilations, NEW r \in Runs, AcceptRead(k, c, r)
      PROVE  \A l \in Clients : RequestFits(l)'
  <2> DEFINE q == [Idle EXCEPT !.op = "accept", !.pc = "count", !.comp = c, !.run = r]
  <2>1. q.pc = "count" /\ q.op = "accept" /\ req' = [req EXCEPT ![k] = q]
    BY <1>3 DEF AcceptRead, Idle
  <2> HIDE DEF q
  <2> QED
    BY <1>1, <2>1
<1>4. ASSUME NEW k \in Clients, NEW r \in Runs, StopRead(k, r)
      PROVE  \A l \in Clients : RequestFits(l)'
  <2> DEFINE q == [Idle EXCEPT !.op = "stop", !.pc = "cas", !.run = r, !.seen = status[r]]
  <2>1. q.pc = "cas" /\ q.seen = status[r] /\ req' = [req EXCEPT ![k] = q]
    BY <1>4 DEF StopRead, Idle
  <2>2. status[r] \in {"starting", "ready", "failed"}
    BY <1>4 DEF StopRead
  <2> HIDE DEF q
  <2> QED
    BY <1>1, <2>1, <2>2
<1>5. ASSUME NEW k \in Clients, CountRuns(k)
      PROVE  \A l \in Clients : RequestFits(l)'
  <2> DEFINE n == Cardinality(RowsOf(req[k].comp)) + 1
             q == [req[k] EXCEPT !.pc = "insert", !.seq = n]
  <2>1. q.pc = "insert" /\ q.op = req[k].op /\ q.seen = req[k].seen
    BY <1>0 DEF Request
  <2>2. req' = [req EXCEPT ![k] = q] /\ req[k].pc = "count"
    BY <1>0, <1>5 DEF CountRuns
  <2> HIDE DEF q
  <2> QED
    BY <1>1, <2>1, <2>2 DEF RequestFits
<1>6. ASSUME NEW k \in Clients, req' = [req EXCEPT ![k] = Idle]
      PROVE  \A l \in Clients : RequestFits(l)'
  BY <1>1, <1>6 DEF Idle
<1>7. ASSUME NEW k \in Clients, InsertRun(k)
      PROVE  \A l \in Clients : RequestFits(l)'
  <2>1. PICK r : InsertAs(k, r)
    BY <1>7 DEF InsertRun
  <2> DEFINE q == [req[k] EXCEPT !.run = r, !.pc = "enqueue"]
  <2>2. q.pc = "enqueue" /\ q.op = req[k].op /\ q.seen = req[k].seen
    BY <1>0 DEF Request
  <2>3. req' = [req EXCEPT ![k] = q] \/ req' = [req EXCEPT ![k] = Idle]
    BY <1>0, <2>1 DEF InsertAs
  <2> HIDE DEF q
  <2> QED
    BY <1>1, <1>6, <2>2, <2>3 DEF RequestFits
<1>8. ASSUME NEW k \in Clients, NEW pc \in {"enqueue", "undo"}, req' = [req EXCEPT ![k].pc = pc]
      PROVE  \A l \in Clients : RequestFits(l)'
  <2> DEFINE q == [req[k] EXCEPT !.pc = pc]
  <2>2. q.pc = pc /\ q.op = req[k].op /\ q.seen = req[k].seen
    BY <1>0 DEF Request
  <2>3. req' = [req EXCEPT ![k] = q]
    BY <1>0, <1>8
  <2> HIDE DEF q
  <2> QED
    BY <1>1, <2>2, <2>3 DEF RequestFits
<1>9. CASE ControlPlaneRestart
  BY <1>9 DEF ControlPlaneRestart, Idle, RequestFits
<1> QED
  BY <1>2, <1>3, <1>4, <1>5, <1>6, <1>7, <1>8, <1>9
  DEF ControlPlaneNext, RequestStep, StopTransition, Enqueue, EnqueueRaises, UndoCreate,
      UndoAccept, UndoStop

-----------------------------------------------------------------------------
(***************************************************************************)
(* The Worker and the job.                                                 *)
(***************************************************************************)
LEMMA TakenSlot ==
  ASSUME SlotsTyped, RestTyped, NEW s \in Slots, Take(s)
  PROVE  /\ slot[s].pc = "free"
         /\ \A t \in Slots \ {s} : slot'[t] = slot[t]
         /\ slot'[s].pc = "dispatch" /\ ~slot'[s].reply
         /\ slot'[s].action = Head(queue).action /\ slot'[s].run = Head(queue).run
         /\ slot'[s].again = Head(queue).again /\ Head(queue) \in Job
         /\ UNCHANGED <<rows, req, entered, aborted, preDocker, skipped, host, lost>>
         /\ queue # <<>> /\ queue' = Tail(queue)
         /\ stopRequested' = stopRequested \cup
              ({Head(queue).run} \X IF Head(queue).action = "stop"
                                    THEN Which(Registered(Head(queue).run)) ELSE {})
         /\ replaced' \in {replaced, replaced \cup
              {r \in {Head(queue).run} : Head(queue).again}}
<1> DEFINE job == Head(queue)
           told == IF job.action = "stop" THEN Which(Registered(job.run)) ELSE {}
           new == [NoJob EXCEPT !.action = job.action, !.run = job.run, !.again = job.again,
                                !.pc = "dispatch", !.saw = told]
<1>1. slot' = [slot EXCEPT ![s] = new] /\ slot[s].pc = "free" /\ queue # <<>> /\ queue' = Tail(queue)
  BY DEF Take
<1>2. /\ new.pc = "dispatch" /\ new.reply = FALSE /\ new.action = job.action
      /\ new.run = job.run /\ new.again = job.again
  BY DEF NoJob
<1>3. job \in Job
  BY <1>1 DEF RestTyped
<1>4. /\ UNCHANGED <<rows, req, entered, aborted, preDocker, skipped, host, lost>>
      /\ stopRequested' = stopRequested \cup ({job.run} \X told)
  BY DEF Take
<1>5. replaced' \in {replaced, replaced \cup {r \in {job.run} : job.again}}
  BY DEF Take
<1> HIDE DEF job, new
<1>7. slot'[s] = new /\ \A t \in Slots \ {s} : slot'[t] = slot[t]
  BY <1>1 DEF SlotsTyped
<1> QED
  BY <1>1, <1>2, <1>3, <1>4, <1>5, <1>7 DEF job

LEMMA TakeFits ==
  ASSUME SlotsTyped, RestTyped, OneJobEach, NEW s \in Slots, Take(s)
  PROVE  OneJobEach'
<1>0. /\ slot[s].pc = "free" /\ slot'[s].pc = "dispatch"
      /\ \A t \in Slots \ {s} : slot'[t] = slot[t]
      /\ slot'[s].action = Head(queue).action /\ slot'[s].run = Head(queue).run
      /\ UNCHANGED <<status, req, held, overlapped>> /\ queue # <<>> /\ queue' = Tail(queue)
      /\ queue \in Seq(Job)
  BY TakenSlot DEF rows, lost, RestTyped
<1>1. \A k \in Clients : RequestFits(k)'
  BY <1>0 DEF OneJobEach, RequestFits
<1>2. \A t \in Slots : SlotFits(t)'
  BY <1>0 DEF OneJobEach, SlotFits
<1>3. ASSUME NEW o \in Runs, NEW a \in Actions, Once(a, o) PROVE Follows(a, o)
  <2>1. ListedOnce(a, o)
    BY <1>3 DEF Once
  <2>2. /\ QueueStill(a, o)
        /\ IsFor(Head(queue), a, o) => Listed(a, o) /\ ~Listed(a, o)'
    BY <1>0, <2>1, QueueTaken
  <2>3. AsksStill(a, o) /\ HeldStill(a, o)
    BY <1>0 DEF AsksStill, Asks, HeldStill, Keeps
  <2>4. \A t \in Slots : Works(t, a, o)' =>
          Works(t, a, o) \/ (t = s /\ IsFor(Head(queue), a, o))
    BY <1>0 DEF Works, IsFor
  <2>5. CASE ~IsFor(Head(queue), a, o)
    BY <1>3, <2>2, <2>3, <2>4, <2>5, StillOnce DEF Still, SlotsStill
  <2>6. CASE IsFor(Head(queue), a, o)
    <3>1. Listed(a, o) /\ ~Listed(a, o)' /\ ~Asked(a, o) /\ ~Worked(a, o) /\ ~Kept(a, o)
      BY <1>3, <2>2, <2>6 DEF Once, InOnePlace
    <3>2. ~Asked(a, o)' /\ ~Kept(a, o)'
      BY <2>3, <3>1 DEF AsksStill, Asked, HeldStill, Kept, Keeps
    <3>3. WorkedOnce(a, o)'
      BY <2>4, <3>1 DEF WorkedOnce, Worked
    <3>4. Once(a, o)'
      BY <3>1, <3>2, <3>3 DEF Once, InOnePlace, AskedOnce, ListedOnce, KeptOnce, Asked, Listed,
         Kept
    <3> QED
      BY <3>1, <3>2, <3>4 DEF Follows, Pending
  <2> QED
    BY <2>5, <2>6
<1>4. \A o \in Sound : RunFits(o)'
  BY <1>0, <1>3, RunFollows DEF OneJobEach, RunFits, Actions, Sound
<1>5. Sound' = Sound
  BY <1>0 DEF Sound
<1> QED
  BY <1>1, <1>2, <1>4, <1>5 DEF OneJobEach

\* What a step of a slot does to the status of its run.
ReportsOf(s) ==
  LET r == slot[s].run
  IN \/ UNCHANGED rows
     \/ /\ slot[s].action = "start" /\ slot[s].pc = "reportReady"
        /\ AcceptsReady(r) /\ ReportPreviewReady(r)
     \/ /\ slot[s].pc = "reportFailed" /\ slot'[s] = NoJob
        /\ AcceptsFailed(r, slot[s].code) /\ ReportPreviewFailed(r, slot[s].code)
     \/ /\ slot[s].action = "stop" /\ slot[s].pc = "reportStopped"
        /\ AcceptsStopped(r) /\ ReportPreviewStopped(r)

LEMMA SlotStepReports ==
  ASSUME SlotsTyped, NEW s \in Slots, SlotStep(s)
  PROVE  ReportsOf(s)
<1>1. CASE Dispatch(s) \/ StartReplied(s) \/ StartEnter(s) \/ StartMaterialize(s)
  BY <1>1 DEF ReportsOf, Dispatch, StartReplied, StartEnter, StartMaterialize, controlPlane
<1>2. CASE StartPorts(s) \/ StartUnreserve(s) \/ StartProceeds(s) \/ StartCancelled(s)
  BY <1>2 DEF ReportsOf, StartPorts, StartUnreserve, StartProceeds, StartCancelled, controlPlane
<1>3. CASE StartStageFails(s) \/ StopReplied(s) \/ StopRoute(s) \/ StopSettled(s)
  BY <1>3 DEF ReportsOf, StartStageFails, StopReplied, StopRoute, StopSettled, controlPlane
<1>4. CASE StopVerify(s) \/ StopDown(s) \/ StopRemove(s)
  BY <1>4 DEF ReportsOf, StopVerify, StopDown, StopRemove, controlPlane
<1>5. CASE ReportsFailed(s)
  <2>1. slot'[s] = NoJob /\ slot[s].pc = "reportFailed"
    BY <1>5, FinishMoves DEF ReportsFailed
  <2> QED
    BY <1>5, <2>1 DEF ReportsFailed, ReportsOf
<1>6. CASE StartReportsReady(s)
  BY <1>6 DEF ReportsOf, StartReportsReady, At
<1>7. CASE StopReportsStopped(s)
  BY <1>7 DEF ReportsOf, StopReportsStopped, At
<1> QED
  BY <1>1, <1>2, <1>3, <1>4, <1>5, <1>6, <1>7 DEF SlotStep, JobStep

LEMMA SlotStepFollows ==
  ASSUME SlotsTyped, NEW s \in Slots, SlotStep(s), NEW a, NEW o, Once(a, o)
  PROVE  /\ Follows(a, o)
         /\ \A t \in Slots : Works(t, a, o)' => Works(t, a, o)
         /\ Works(s, a, o) /\ slot'[s] = NoJob => ~Pending(a, o)'
<1>1. SlotMoves(s) /\ UNCHANGED <<queue, req, held>>
  BY SlotStepMoves
<1>2. \A t \in Slots : Works(t, a, o)' => Works(t, a, o)
  BY <1>1 DEF SlotMoves, SameJob, Works, IsFor, NoJob
<1>3. AsksStill(a, o) /\ HeldStill(a, o) /\ QueueStill(a, o)
  BY <1>1, QueueSame DEF AsksStill, Asks, HeldStill, Keeps, Once
<1>4. Follows(a, o)
  BY <1>2, <1>3, StillOnce DEF Still, SlotsStill
<1>5. ASSUME Works(s, a, o), slot'[s] = NoJob PROVE ~Pending(a, o)'
  <2>1. ~Asked(a, o) /\ ~Listed(a, o) /\ ~Kept(a, o)
    BY <1>5 DEF Once, InOnePlace, Worked
  <2>2. ~Asked(a, o)' /\ ~Listed(a, o)' /\ ~Kept(a, o)'
    BY <1>3, <2>1 DEF AsksStill, Asked, QueueStill, HeldStill, Kept, Keeps
  <2>3. ~Worked(a, o)'
    BY <1>2, <1>5 DEF Worked, Once, WorkedOnce, Works, NoJob
  <2> QED
    BY <2>2, <2>3 DEF Pending
<1> QED
  BY <1>2, <1>4, <1>5

LEMMA SlotStepFits ==
  ASSUME SlotsTyped, RestTyped, OneJobEach, NEW s \in Slots, SlotStep(s)
  PROVE  OneJobEach'
<1>0. SlotMoves(s) /\ UNCHANGED <<queue, req, held, overlapped>> /\ ReportsOf(s)
  BY SlotStepMoves, SlotStepReports
<1>01. Sound' = Sound /\ Sound \subseteq Runs
  BY <1>0 DEF Sound
<1>1. PICK r \in Runs : r = slot[s].run
  BY <1>0 DEF SlotMoves, SlotsTyped, SlotsNameRuns
<1>2. PICK a \in Actions : a = slot[s].action
  BY <1>0 DEF SlotMoves, SlotsTyped, SlotsNameRuns, Actions
<1>3. \A k \in Clients : RequestFits(k)'
  BY <1>0 DEF OneJobEach, RequestFits
<1>4. \A t \in Slots : SlotFits(t)'
  BY <1>0 DEF OneJobEach, SlotFits, SlotMoves
<1>5. \A o \in Sound : /\ Once("start", o) /\ Once("stop", o) /\ StatusFits(o)
                       /\ Follows("start", o) /\ Follows("stop", o)
  BY SlotStepFollows DEF OneJobEach, RunFits
<1>6. \A o \in Runs : o # r => status'[o] = status[o]
  BY <1>0, <1>1 DEF ReportsOf, rows, ReportPreviewReady, ReportPreviewFailed, ReportPreviewStopped,
     RestTyped
<1>7. \A o \in Sound : o # r => RunFits(o)'
  BY <1>01, <1>5, <1>6, RunFollows DEF RunFits
<1> SUFFICES ASSUME r \in Sound PROVE RunFits(r)'
  BY <1>01, <1>3, <1>4, <1>7 DEF OneJobEach
<1>8. Works(s, a, r) /\ Once(a, r)
  BY <1>0, <1>1, <1>2, <1>5 DEF Works, IsFor, SlotMoves, Actions
<1>9. StatusFits(r)'
  <2>1. CASE UNCHANGED rows
    BY <1>5, <2>1 DEF StatusFits, rows, Follows
  <2>2. CASE AcceptsReady(r) /\ ReportPreviewReady(r)
    <3>1. status[r] = "starting" /\ status'[r] = "ready"
      BY <2>2 DEF AcceptsReady, ReportPreviewReady, RestTyped
    <3> QED
      BY <1>5, <3>1 DEF StatusFits, Follows, Pending
  <2>3. CASE /\ slot[s].pc = "reportFailed" /\ slot'[s] = NoJob
             /\ AcceptsFailed(r, slot[s].code) /\ ReportPreviewFailed(r, slot[s].code)
    <3>1. status'[r] = "failed"
      BY <2>3 DEF ReportPreviewFailed, RestTyped
    <3>2. CASE status[r] = "starting"
      BY <1>5, <3>1, <3>2 DEF StatusFits, Follows, Pending
    <3>3. CASE status[r] # "starting"
      <4>1. status[r] = "stopping" /\ slot[s].code = "preview_stop_failed"
        BY <2>3, <3>3 DEF AcceptsFailed
      <4>2. a = "stop"
        BY <1>2, <2>3, <4>1 DEF OneJobEach, SlotFits
      <4>3. ~Pending("stop", r)'
        BY <1>8, <2>3, <4>2, SlotStepFollows
      <4> QED
        BY <1>5, <3>1, <4>1, <4>3 DEF StatusFits, Follows, Pending
    <3> QED
      BY <3>2, <3>3
  <2>4. CASE a = "stop" /\ AcceptsStopped(r) /\ ReportPreviewStopped(r)
    <3>1. status[r] = "stopping" /\ status'[r] = "stopped"
      BY <2>4 DEF AcceptsStopped, ReportPreviewStopped, RestTyped
    <3>2. ~Asked("stop", r)
      BY <1>8, <2>4 DEF Once, InOnePlace, Worked
    <3> QED
      BY <1>5, <3>1, <3>2 DEF StatusFits, Follows
  <2> QED
    BY <1>0, <1>1, <1>2, <2>1, <2>2, <2>3, <2>4 DEF ReportsOf
<1> QED
  BY <1>5, <1>9 DEF RunFits, Follows

LEMMA WorkerRestartFits ==
  ASSUME SlotsTyped, RestTyped, OneJobEach, WorkerRestart
  PROVE  OneJobEach'
<1>0. /\ held' = held \cup UnderWay /\ slot' = [s \in Slots |-> NoJob]
      /\ UNCHANGED <<status, req, queue, overlapped>>
  BY DEF WorkerRestart, rows
<1>1. \A k \in Clients : RequestFits(k)'
  BY <1>0 DEF OneJobEach, RequestFits
<1>2. \A t \in Slots : SlotFits(t)'
  BY <1>0 DEF SlotFits, NoJob
<1>3. ASSUME NEW o \in Runs, NEW a \in Actions, Once(a, o) PROVE Follows(a, o)
  <2>1. AsksStill(a, o) /\ QueueStill(a, o)
    BY <1>0, <1>3, QueueSame DEF AsksStill, Asks, Once
  <2>2. \A s \in Slots : ~Works(s, a, o)'
    BY <1>0 DEF Works, NoJob
  <2>3. \A j \in held' : Keeps(j, a, o)' =>
          \/ Keeps(j, a, o)
          \/ \E s \in Slots : /\ Works(s, a, o)
                              /\ j = JobIn(s)
    <3> SUFFICES ASSUME NEW j \in UnderWay, IsFor(j, a, o)
                 PROVE  \E s \in Slots : /\ Works(s, a, o)
                              /\ j = JobIn(s)
      BY <1>0 DEF Keeps
    <3>1. PICK s \in Slots : slot[s].pc # "free" /\ j = JobIn(s)
      BY DEF UnderWay
    <3>2. IsFor(slot[s], a, o)
      BY <3>1 DEF IsFor, JobIn
    <3> QED
      BY <3>1, <3>2 DEF Works
  <2>4. CASE ~Worked(a, o)
    BY <1>3, <2>1, <2>2, <2>3, <2>4, StillOnce DEF Still, SlotsStill, HeldStill, Worked
  <2>5. CASE Worked(a, o)
    <3>1. ~Asked(a, o) /\ ~Listed(a, o) /\ ~Kept(a, o) /\ WorkedOnce(a, o)
      BY <1>3, <2>5 DEF Once, InOnePlace
    <3>2. ~Asked(a, o)' /\ ~Listed(a, o)' /\ ~Worked(a, o)'
      BY <2>1, <2>2, <3>1 DEF AsksStill, Asked, QueueStill, Worked
    <3>3. KeptOnce(a, o)'
      BY <2>3, <3>1 DEF KeptOnce, WorkedOnce, Kept, Keeps
    <3>4. Once(a, o)'
      BY <3>2, <3>3 DEF Once, InOnePlace, AskedOnce, ListedOnce, WorkedOnce, Asked, Listed,
         Worked
    <3> QED
      BY <2>5, <3>2, <3>4 DEF Follows, Pending
  <2> QED
    BY <2>4, <2>5
<1>4. \A o \in Sound : RunFits(o)'
  BY <1>0, <1>3, RunFollows DEF OneJobEach, RunFits, Actions, Sound
<1>5. Sound' = Sound
  BY <1>0 DEF Sound
<1> QED
  BY <1>1, <1>2, <1>4, <1>5 DEF OneJobEach

LEMMA LockExpiresFits ==
  ASSUME RestTyped, LostTyped, OneJobEach, NEW job \in held, LockExpires(job)
  PROVE  OneJobEach'
<1> DEFINE second == [job EXCEPT !.again = TRUE]
<1>0. /\ held' = held \ {job} /\ queue' \in {queue, <<second>> \o queue}
      /\ UNCHANGED <<status, req, slot, overlapped>> /\ queue \in Seq(Job) /\ job \in Job
  BY DEF LockExpires, GiveOutAgain, rows, RestTyped, LostTyped
<1>1. /\ second \in Job /\ second.action = job.action /\ second.run = job.run
  BY <1>0 DEF Job
<1> HIDE DEF second
<1>2. \A k \in Clients : RequestFits(k)'
  BY <1>0 DEF OneJobEach, RequestFits
<1>3. \A t \in Slots : SlotFits(t)'
  BY <1>0 DEF OneJobEach, SlotFits
<1>4. ASSUME NEW o \in Runs, NEW a \in Actions, Once(a, o) PROVE Follows(a, o)
  <2>1. AsksStill(a, o) /\ SlotsStill(a, o) /\ HeldStill(a, o)
    BY <1>0 DEF AsksStill, Asks, SlotsStill, Works, HeldStill, Keeps
  <2>2. ListedOnce(a, o)
    BY <1>4 DEF Once
  <2>3. CASE ~IsFor(second, a, o)
    <3>1. QueueStill(a, o)
      BY <1>0, <1>1, <2>2, <2>3, QueueSame, QueuePrepended
    <3> QED
      BY <1>4, <2>1, <3>1, StillOnce DEF Still
  <2>4. CASE IsFor(second, a, o)
    <3>1. Keeps(job, a, o)
      BY <1>1, <2>4 DEF Keeps, IsFor
    <3>2. Kept(a, o) /\ ~Asked(a, o) /\ ~Listed(a, o) /\ ~Worked(a, o)
      BY <1>4, <3>1 DEF Once, InOnePlace, Kept
    <3>3. ~Asked(a, o)' /\ ~Worked(a, o)'
      BY <2>1, <3>2 DEF AsksStill, Asked, SlotsStill, Worked
    <3>4. ~Kept(a, o)'
      BY <1>0, <1>4, <2>1, <3>1 DEF HeldStill, Kept, Keeps, Once, KeptOnce
    <3>5. ListedOnce(a, o)'
      BY <1>0, <1>1, <2>2, <3>2, QueueSame, QueuePrepended DEF QueueStill
    <3>6. Once(a, o)'
      BY <3>3, <3>4, <3>5 DEF Once, InOnePlace, AskedOnce, WorkedOnce, KeptOnce, Asked, Worked,
         Kept
    <3> QED
      BY <3>2, <3>3, <3>6 DEF Follows, Pending
  <2> QED
    BY <2>3, <2>4
<1>5. \A o \in Sound : RunFits(o)'
  BY <1>0, <1>4, RunFollows DEF OneJobEach, RunFits, Actions, Sound
<1>6. Sound' = Sound
  BY <1>0 DEF Sound
<1> QED
  BY <1>2, <1>3, <1>5, <1>6 DEF OneJobEach

\* A job given out for the second time while it is executed is failed if its lock
\* is lost again; one given out for the first time takes its run out of Sound.
LEMMA LockLostFits ==
  ASSUME SlotsTyped, RestTyped, OneJobEach, NEW s \in Slots, LockLost(s)
  PROVE  OneJobEach'
<1> DEFINE j == [JobIn(s) EXCEPT !.again = TRUE]
<1>0. /\ \A t \in Slots \ {s} : slot'[t] = slot[t]
      /\ slot'[s].pc = slot[s].pc /\ IsFor(slot'[s], slot[s].action, slot[s].run)
      /\ slot'[s].code = slot[s].code
      /\ UNCHANGED <<status, req, held>> /\ queue \in Seq(Job) /\ slot[s].again \in BOOLEAN
  <2> DEFINE q == [slot[s] EXCEPT !.unlocked = TRUE]
  <2>1. slot[s] \in SlotState /\ slot' = [slot EXCEPT ![s] = q]
    BY DEF LockLost, SlotsTyped
  <2>2. /\ q.pc = slot[s].pc /\ q.action = slot[s].action /\ q.run = slot[s].run
        /\ q.code = slot[s].code /\ slot[s].again \in BOOLEAN
    BY <2>1 DEF SlotState
  <2>3. slot'[s] = q /\ \A t \in Slots \ {s} : slot'[t] = slot[t]
    BY <2>1 DEF SlotsTyped
  <2> QED
    BY <2>2, <2>3 DEF IsFor, LockLost, rows, RestTyped
<1>1. \A k \in Clients : RequestFits(k)'
  BY <1>0 DEF OneJobEach, RequestFits
<1>2. \A t \in Slots : SlotFits(t)'
  BY <1>0 DEF OneJobEach, SlotFits, IsFor
<1>3. \/ slot[s].again /\ queue' = queue /\ Sound' = Sound
      \/ queue' = <<j>> \o queue /\ Sound' = Sound \ {slot[s].run}
  BY <1>0 DEF LockLost, GiveOutAgain, JobIn, Sound
<1>4. j \in Job /\ j.run = slot[s].run
  <2>1. JobIn(s) \in Job
    BY JobsInSlots DEF LockLost
  <2> QED
    BY <2>1 DEF Job, JobIn
<1> HIDE DEF j
<1>5. ASSUME NEW o \in Sound', NEW a, Once(a, o) PROVE Follows(a, o)
  <2>1. AsksStill(a, o) /\ HeldStill(a, o) /\ SlotsStill(a, o)
    BY <1>0 DEF AsksStill, Asks, HeldStill, Keeps, SlotsStill, Works, IsFor
  <2>2. ListedOnce(a, o)
    BY <1>5 DEF Once
  <2>3. QueueStill(a, o)
    <3>1. CASE queue' = queue
      BY <2>2, <3>1, QueueSame
    <3>2. CASE queue' = <<j>> \o queue /\ Sound' = Sound \ {slot[s].run}
      <4>1. ~IsFor(j, a, o)
        BY <1>4, <3>2 DEF IsFor
      <4> QED
        BY <1>0, <1>4, <2>2, <3>2, <4>1, QueuePrepended
    <3> QED
      BY <1>3, <3>1, <3>2
  <2> QED
    BY <1>5, <2>1, <2>3, StillOnce DEF Still
<1>6. Sound' \subseteq Sound
  BY <1>3
<1>7. \A o \in Sound' : RunFits(o)'
  BY <1>0, <1>5, <1>6, RunFollows DEF OneJobEach, RunFits
<1> QED
  BY <1>1, <1>2, <1>7 DEF OneJobEach

LEMMA InitOneJob == Init => OneJobEach
<1> SUFFICES ASSUME Init PROVE OneJobEach
  OBVIOUS
<1>1. \A a, r : ~Asked(a, r) /\ ~Listed(a, r) /\ ~Worked(a, r) /\ ~Kept(a, r)
  BY DEF Init, ControlPlaneInit, Asked, Asks, Idle, Listed, Worked, Works, NoJob, Kept
<1>2. \A a, r : Once(a, r)
  BY <1>1 DEF Once, InOnePlace, Asked, AskedOnce, Listed, ListedOnce, Worked, WorkedOnce, Kept,
     KeptOnce
<1>3. \A r : StatusFits(r)
  BY <1>1 DEF StatusFits, Pending
<1>4. \A k \in Clients : RequestFits(k)
  BY DEF Init, ControlPlaneInit, RequestFits, Idle
<1>5. \A s \in Slots : SlotFits(s)
  BY DEF Init, SlotFits, NoJob
<1> QED
  BY <1>2, <1>3, <1>4, <1>5 DEF OneJobEach, RunFits

LEMMA StepOneJob ==
  ASSUME "ack" \notin Faults, LeaseInv, OneJobEach, [Next]_vars
  PROVE  OneJobEach'
<1>0. RequestsTyped /\ RestTyped /\ SlotsTyped /\ HostTyped /\ LostTyped
  BY TypedParts DEF LeaseInv
<1>1. CASE ControlPlaneNext /\ UNCHANGED worker
  <2>1. Sound' = Sound /\ \A s \in Slots : SlotFits(s)'
    BY <1>1 DEF OneJobEach, SlotFits, worker, lost, Sound
  <2> QED
    BY <1>0, <1>1, <2>1, ControlPlaneFits, RequestsFit DEF OneJobEach
<1>2. CASE UNCHANGED vars
  <2>1. UNCHANGED <<status, req, queue, slot, held, overlapped>>
    BY <1>2 DEF vars, controlPlane, rows, worker, lost
  <2> QED
    BY <2>1 DEF OneJobEach, Sound, RunFits, Once, StatusFits, RequestFits, SlotFits, AskedOnce,
       ListedOnce, WorkedOnce, KeptOnce, InOnePlace, Pending, Asked, Listed, Worked, Kept, Asks,
       Lists, Works, Keeps
<1> QED
  BY <1>0, <1>1, <1>2, TakeFits, SlotStepFits, WorkerRestartFits, LockExpiresFits,
     LockLostFits
  DEF Next

(* The start and the stop of a run are each pending in at most one place,  *)
(* and only of a run whose row takes them, whatever requests and slots     *)
(* raced, Workers died and locks expired: no handler is run twice at the   *)
(* same time, but for the runs a job of which the queue took from a Worker *)
(* that was still executing it (overlapped).                               *)
THEOREM OneJobInvariant ==
  ASSUME "ack" \notin Faults
  PROVE  Spec => [](LeaseInv /\ OneJobEach)
<1>1. Init => LeaseInv /\ OneJobEach
  BY InitLease, InitOneJob
<1>2. LeaseInv /\ OneJobEach /\ [Next]_vars => LeaseInv' /\ OneJobEach'
  BY StepLease, StepOneJob
<1> QED
  BY <1>1, <1>2, PTL DEF Spec

-----------------------------------------------------------------------------
(***************************************************************************)
(* What is shown is served: the steps.                                     *)
(***************************************************************************)
IsStill(r) == \A x \in {"starting", "ready"} : Is(r, x)' => Is(r, x)

\* A slot stands where it stood, its lock left aside.
SameWork(s) == \A f \in {"action", "run", "again", "pc", "reply", "code"} : slot'[s][f] = slot[s][f]

\* A step that is not one of the run's start.
StartsStill(r) ==
  \A s \in Slots : Works(s, "start", r)' => SameWork(s) \/ slot'[s].pc = "dispatch"

HostStill(r) == (r \in copies' <=> r \in copies) /\ (r \in up' <=> r \in up)

LEMMA ServedStill ==
  ASSUME NEW r, Served(r), IsStill(r), StartsStill(r), HostStill(r),
         TimedOut(r)' => TimedOut(r),
         Is(r, "failed")' /\ TimedOut(r)' => Is(r, "failed")
  PROVE  Served(r)'
<1>1. \A s \in Slots : Goes(s, r)' => Goes(s, r)
  BY DEF StartsStill, Goes, Works, Runtime, SameWork, IsFor
<1>2. \A s \in Slots : StartServes(s, r)'
  BY DEF StartsStill, IsStill, HostStill, StartServes, Works, Served, SameWork, IsFor
<1> QED
  BY <1>1, <1>2 DEF Served, IsStill, HostStill

LEMMA IsSame ==
  ASSUME UNCHANGED <<status, req>>, NEW r, NEW x
  PROVE  Is(r, x)' <=> Is(r, x)
  BY DEF Is, Asks

\* A stop that is asked for shows what its request saw, one that is not shows the row.
LEMMA IsStatus ==
  ASSUME NEW r, RunFits(r), NEW x, Is(r, x), status[r] # "stopping"
  PROVE  x = status[r]
  BY DEF Is, RunFits, StatusFits, Asked

LEMMA IsNothing ==
  ASSUME NEW r, RunFits(r), NEW s \in Slots, Works(s, "stop", r), NEW x, Is(r, x)
  PROVE  x = status[r] /\ status[r] \in {"stopping", "stopped"}
  BY DEF Is, RunFits, StatusFits, Asked, Worked, Pending, Once, InOnePlace

LEMMA InsertServes ==
  ASSUME RequestsTyped, RestTyped, OneJobEach, ServedInv, NEW k \in Clients, InsertRun(k),
         UNCHANGED <<slot, copies, up, overlapped>>, OneJobEach'
  PROVE  ServedInv'
<1> SUFFICES ASSUME NEW o \in Sound PROVE Served(o)'
  BY DEF ServedInv, Sound
<1>1. PICK r \in Runs : InsertAs(k, r)
  BY DEF InsertRun, RequestsTyped, RequestsNameRuns
<1>2. /\ req \in [Clients -> Request] /\ status \in [Runs -> Status] /\ req[k] \in Request
      /\ req[k].pc = "insert" /\ req[k].op # "stop" /\ Served(o) /\ RunFits(o) /\ RunFits(o)' /\ o \in Runs
      /\ diagnostic \in [Runs -> FailureCode \cup {EnqueueFailed, None}]
  BY DEF RequestsTyped, RestTyped, InsertRun, OneJobEach, RequestFits, ServedInv, Sound
<1>3. StartsStill(o) /\ HostStill(o)
  BY DEF StartsStill, HostStill, SameWork
<1>4. \A l \in Clients : Asks(l, "stop", o)' => Asks(l, "stop", o) /\ req'[l] = req[l]
  <2>1. req' \in {[req EXCEPT ![k].run = r, ![k].pc = "enqueue"], [req EXCEPT ![k] = Idle]}
    BY <1>1 DEF InsertAs
  <2>2. \A l \in Clients \ {k} : req'[l] = req[l]
    BY <1>2, <2>1
  <2>3. ~Asks(k, "stop", o)'
    BY <1>2, <2>1 DEF Asks, Idle, Request
  <2> QED
    BY <2>2, <2>3 DEF Asks
<1>5. CASE status'[o] = status[o] /\ diagnostic'[o] = diagnostic[o]
  <2>1. \A x : Is(o, x)' => Is(o, x)
    BY <1>4, <1>5 DEF Is
  <2> QED
    BY <1>2, <1>3, <1>5, <2>1, ServedStill DEF IsStill, TimedOut
<1>6. CASE /\ o = r /\ Insertable(r, req[k].comp, req[k].seq)
  <2>1. /\ status'[o] = "starting" /\ diagnostic'[o] = None
        /\ status[o] \in {"unused", "deleted"}
    BY <1>1, <1>2, <1>6 DEF InsertAs, Insertable, Status
  <2>2. \A s \in Slots : ~Works(s, "start", o)'
    BY <1>2, <2>1 DEF RunFits, StatusFits, Pending, Worked, Works
  <2>3. \A x : Is(o, x)' => x = "starting"
    BY <1>2, <2>1, IsStatus, <1>4 DEF Is, RunFits, StatusFits, Pending, Asked
  <2>4. ~TimedOut(o)'
    BY <1>2, <2>1, PreviewAssumption DEF TimedOut, FailureCode
  <2> QED
    BY <2>2, <2>3, <2>4 DEF Served, Goes, StartServes
<1> QED
  BY <1>1, <1>2, <1>5, <1>6 DEF InsertAs, rows

LEMMA ControlPlaneServes ==
  ASSUME RequestsTyped, RestTyped, OneJobEach, OneJobEach', ServedInv, ControlPlaneNext,
         UNCHANGED worker
  PROVE  ServedInv'
<1>0. /\ UNCHANGED <<slot, copies, up, overlapped>> /\ req \in [Clients -> Request]
      /\ status \in [Runs -> Status] /\ Sound \subseteq Runs /\ Sound' = Sound
      /\ diagnostic \in [Runs -> FailureCode \cup {EnqueueFailed, None}]
  BY DEF worker, host, lost, RequestsTyped, RestTyped, Sound
<1>1. ASSUME \A o \in Runs : IsStill(o), UNCHANGED diagnostic,
             \A o \in Runs : Is(o, "failed")' => Is(o, "failed")
      PROVE  ServedInv'
  BY <1>0, <1>1, ServedStill DEF ServedInv, StartsStill, HostStill, TimedOut, SameWork
<1>2. ASSUME UNCHANGED rows,
             \A o \in Runs : \A k \in Clients : Asks(k, "stop", o)' =>
               Asks(k, "stop", o) /\ req'[k].seen = req[k].seen
      PROVE  ServedInv'
  BY <1>1, <1>2 DEF Is, IsStill, rows
<1>3. ASSUME NEW k \in Clients, NEW q, req' = [req EXCEPT ![k] = q],
             q.pc \notin {"enqueue", "undo"}, UNCHANGED rows
      PROVE  ServedInv'
  BY <1>0, <1>2, <1>3 DEF Asks
<1>4. ASSUME NEW k \in Clients, NEW c \in Compilations, CreateRead(k, c)
      PROVE  ServedInv'
  <2> DEFINE q == [Idle EXCEPT !.op = "create", !.pc = "count", !.comp = c]
  <2>1. q.pc = "count" /\ req' = [req EXCEPT ![k] = q]
    BY <1>4 DEF CreateRead, Idle
  <2> HIDE DEF q
  <2> QED
    BY <1>3, <1>4, <2>1 DEF CreateRead
<1>5. ASSUME NEW k \in Clients, NEW c \in Compilations, NEW r \in Runs, AcceptRead(k, c, r)
      PROVE  ServedInv'
  <2> DEFINE q == [Idle EXCEPT !.op = "accept", !.pc = "count", !.comp = c, !.run = r]
  <2>1. q.pc = "count" /\ req' = [req EXCEPT ![k] = q]
    BY <1>5 DEF AcceptRead, Idle
  <2> HIDE DEF q
  <2> QED
    BY <1>3, <1>5, <2>1 DEF AcceptRead
<1>6. ASSUME NEW k \in Clients, NEW r \in Runs, StopRead(k, r)
      PROVE  ServedInv'
  <2> DEFINE q == [Idle EXCEPT !.op = "stop", !.pc = "cas", !.run = r, !.seen = status[r]]
  <2>1. q.pc = "cas" /\ req' = [req EXCEPT ![k] = q]
    BY <1>6 DEF StopRead, Idle
  <2> HIDE DEF q
  <2> QED
    BY <1>3, <1>6, <2>1 DEF StopRead
<1>7. ASSUME NEW k \in Clients, CountRuns(k)
      PROVE  ServedInv'
  <2> DEFINE n == Cardinality(RowsOf(req[k].comp)) + 1
             q == [req[k] EXCEPT !.pc = "insert", !.seq = n]
  <2>1. q.pc = "insert"
    BY <1>0 DEF Request
  <2>2. req' = [req EXCEPT ![k] = q]
    BY <1>0, <1>7 DEF CountRuns
  <2> HIDE DEF q
  <2> QED
    BY <1>3, <1>7, <2>1, <2>2 DEF CountRuns
<1>8. ASSUME NEW k \in Clients, StopTransition(k)
      PROVE  ServedInv'
  <2>1. CASE status[req[k].run] # req[k].seen
    <3>1. req' = [req EXCEPT ![k] = Idle] /\ UNCHANGED rows
      BY <1>8, <2>1 DEF StopTransition, rows
    <3> QED
      BY <1>3, <3>1 DEF Idle
  <2>2. CASE status[req[k].run] = req[k].seen
    <3>0. PICK r \in Runs : r = req[k].run
      BY <1>8 DEF StopTransition, RequestsTyped, RequestsNameRuns
    <3>1. /\ req' = [req EXCEPT ![k].pc = "enqueue"] /\ status' = [status EXCEPT ![r] = "stopping"]
          /\ UNCHANGED diagnostic
      BY <1>8, <2>2, <3>0 DEF StopTransition
    <3>2. req'[k].run = r /\ req'[k].seen = status[r] /\ \A l \in Clients \ {k} : req'[l] = req[l]
      BY <1>0, <2>2, <3>0, <3>1 DEF Request
    <3>3. \A o \in Runs : \A x \in {"starting", "ready", "failed"} : Is(o, x)' => Is(o, x)
      BY <1>0, <3>1, <3>2 DEF Is, Asks
    <3> QED
      BY <1>1, <3>1, <3>3 DEF IsStill
  <2> QED
    BY <2>1, <2>2
<1>9. ASSUME NEW k \in Clients, Enqueue(k)
      PROVE  ServedInv'
  BY <1>3, <1>9 DEF Enqueue, Idle
<1>10. ASSUME NEW k \in Clients, EnqueueRaises(k)
      PROVE  ServedInv'
  <2>1. /\ req' = [req EXCEPT ![k].pc = "undo"] /\ UNCHANGED rows /\ req[k].pc = "enqueue"
    BY <1>10 DEF EnqueueRaises
  <2>2. /\ req'[k].run = req[k].run /\ req'[k].seen = req[k].seen /\ req'[k].op = req[k].op
        /\ \A l \in Clients \ {k} : req'[l] = req[l]
    BY <1>0, <2>1 DEF Request
  <2> QED
    BY <1>2, <2>1, <2>2 DEF Asks
<1>11. ASSUME NEW k \in Clients, UndoCreate(k) \/ UndoAccept(k) \/ UndoStop(k)
      PROVE  ServedInv'
  <2>0. PICK r \in Runs : r = req[k].run
    BY <1>11 DEF UndoCreate, UndoAccept, UndoStop, RequestsTyped, RequestsNameRuns
  <2>1. req' = [req EXCEPT ![k] = Idle] /\ req[k].pc = "undo"
    BY <1>11 DEF UndoCreate, UndoAccept, UndoStop
  <2>2. \A o \in Runs : \A l \in Clients : Asks(l, "stop", o)' =>
               Asks(l, "stop", o) /\ req'[l].seen = req[l].seen
    BY <1>0, <2>1 DEF Asks, Idle
  <2>3. CASE UndoStop(k)
    <3>1. /\ status' = [status EXCEPT ![r] = IF @ = "stopping" THEN req[k].seen ELSE @]
          /\ UNCHANGED diagnostic /\ Asks(k, "stop", r)
      BY <2>0, <2>1, <2>3 DEF UndoStop, Asks
    <3>2. \A o \in Runs : \A x : Is(o, x)' => Is(o, x)
      BY <1>0, <2>2, <3>1 DEF Is
    <3> QED
      BY <1>1, <3>1, <3>2 DEF IsStill
  <2>4. CASE UndoCreate(k)
    <3>1. status' \in {status, [status EXCEPT ![r] = "deleted"]} /\ UNCHANGED diagnostic
      BY <2>0, <2>4 DEF UndoCreate
    <3>2. \A o \in Runs : \A x \in {"starting", "ready", "failed"} : Is(o, x)' => Is(o, x)
      BY <1>0, <2>2, <3>1 DEF Is
    <3> QED
      BY <1>1, <3>1, <3>2 DEF IsStill
  <2>5. CASE UndoAccept(k)
    <3>1. \/ UNCHANGED <<status, diagnostic>>
          \/ /\ status' = [status EXCEPT ![r] = "failed"]
             /\ diagnostic' = [diagnostic EXCEPT ![r] = EnqueueFailed]
      BY <2>0, <2>5 DEF UndoAccept
    <3>2. \A o \in Runs : \A x \in {"starting", "ready"} : Is(o, x)' => Is(o, x)
      BY <1>0, <2>2, <3>1 DEF Is
    <3>3. \A o \in Runs : TimedOut(o)' => TimedOut(o)
      BY <1>0, <3>1 DEF TimedOut, EnqueueFailed
    <3>4. \A o \in Runs : Is(o, "failed")' /\ TimedOut(o)' => Is(o, "failed")
      BY <1>0, <2>2, <3>1 DEF Is, TimedOut, EnqueueFailed
    <3> QED
      BY <1>0, <3>2, <3>3, <3>4, ServedStill DEF ServedInv, StartsStill, HostStill, IsStill, SameWork
  <2> QED
    BY <1>11, <2>3, <2>4, <2>5
<1>12. CASE ControlPlaneRestart
  <2>1. UNCHANGED rows /\ \A o \in Runs, k \in Clients : ~Asks(k, "stop", o)'
    BY <1>12 DEF ControlPlaneRestart, Asks, Idle
  <2> QED
    BY <1>2, <2>1
<1> QED
  BY <1>0, <1>4, <1>5, <1>6, <1>7, <1>8, <1>9, <1>10, <1>11, <1>12, InsertServes
  DEF ControlPlaneNext, RequestStep

\* A slot changes what its own run has on the host only.
LEMMA SlotStepHost ==
  ASSUME NEW s \in Slots, SlotStep(s), NEW o, o # slot[s].run
  PROVE  HostStill(o)
<1>1. CASE Dispatch(s) \/ ReportsFailed(s) \/ StartReplied(s) \/ StartEnter(s)
  BY <1>1 DEF Dispatch, ReportsFailed, StartReplied, StartEnter, host, HostStill
<1>2. CASE StartMaterialize(s)
  BY <1>2 DEF StartMaterialize, HostStill
<1>3. CASE StartPorts(s) \/ StartUnreserve(s)
  BY <1>3 DEF StartPorts, StartUnreserve, HostStill
<1>4. CASE StartProceeds(s) \/ StartCancelled(s) \/ StartReportsReady(s)
  BY <1>4 DEF StartProceeds, StartCancelled, StartReportsReady, host, HostStill
<1>5. CASE StartStageFails(s)
  BY <1>5 DEF StartStageFails, StartCleanup, host, HostStill
<1>6. CASE StopReplied(s) \/ StopRoute(s) \/ StopSettled(s) \/ StopVerify(s)
  BY <1>6 DEF StopReplied, StopRoute, StopSettled, StopVerify, host, HostStill
<1>7. CASE StopDown(s) \/ StopRemove(s) \/ StopReportsStopped(s)
  BY <1>7 DEF StopDown, StopRemove, StopReportsStopped, host, HostStill
<1> QED
  BY <1>1, <1>2, <1>3, <1>4, <1>5, <1>6, <1>7 DEF SlotStep, JobStep

\* A start that has the runtime before it or is in it goes on or ends.
LEMMA RuntimeServes ==
  ASSUME NEW r, Served(r), Once("start", r), NEW s \in Slots, Goes(s, r), SlotMoves(s),
         UNCHANGED <<status, diagnostic, req>>, StartServes(s, r)'
  PROVE  Served(r)'
<1>1. \A t \in Slots : Works(t, "start", r)' => t = s
  BY DEF Goes, SlotMoves, SameJob, Works, IsFor, Once, WorkedOnce
<1>2. \A x : Is(r, x)' <=> Is(r, x)
  BY IsSame
<1>3. ~Is(r, "ready") /\ ~TimedOut(r) /\ (TimedOut(r)' <=> TimedOut(r))
  BY DEF Served, TimedOut
<1>4. \A t \in Slots : StartServes(t, r)'
  BY <1>1 DEF StartServes
<1> QED
  BY <1>2, <1>3, <1>4 DEF Served

\* One that has not come to it, or is over, shows nothing new.
LEMMA OutsideServes ==
  ASSUME NEW r, Served(r), Once("start", r), NEW s \in Slots, Works(s, "start", r),
         SlotMoves(s), UNCHANGED <<status, diagnostic, req>>, HostStill(r),
         slot'[s] = NoJob \/ (slot'[s].pc = "reportFailed"
                              /\ slot'[s].code # "preview_start_timeout")
  PROVE  Served(r)'
<1>1. \A t \in Slots : Works(t, "start", r)' => t = s
  BY DEF SlotMoves, SameJob, Works, IsFor, Once, WorkedOnce
<1>2. \A x : Is(r, x)' <=> Is(r, x)
  BY IsSame
<1>3. TimedOut(r)' <=> TimedOut(r)
  BY DEF TimedOut
<1>4. \A t \in Slots : ~Goes(t, r)' /\ StartServes(t, r)'
  BY <1>1 DEF Goes, StartServes, Works, NoJob, Runtime
<1> QED
  BY <1>2, <1>3, <1>4 DEF Served, HostStill

LEMMA StartStepServes ==
  ASSUME SlotsTyped, RestTyped, HostTyped, NEW s \in Slots, SlotStep(s), NEW r \in Runs,
         RunFits(r), Works(s, "start", r), SlotFits(s), Served(r)
  PROVE  Served(r)'
<1>0. /\ slot[s].action = "start" /\ slot[s].run = r /\ Once("start", r)
      /\ SlotMoves(s) /\ UNCHANGED req
      /\ status \in [Runs -> Status]
      /\ diagnostic \in [Runs -> FailureCode \cup {EnqueueFailed, None}]
  BY SlotStepMoves DEF Works, IsFor, RunFits, RestTyped
<1>1. CASE Dispatch(s)
  <2>1. /\ SameJob(s) /\ slot'[s].pc = "replied"
        /\ slot'[s].reply => status[r] = "starting"
    BY <1>0, <1>1, DispatchMoves DEF Dispatchable
  <2>2. UNCHANGED <<status, diagnostic, copies, up>>
    BY <1>1 DEF Dispatch, rows, host
  <2>3. \A t \in Slots : Works(t, "start", r)' => t = s
    BY <1>0, <2>1 DEF SlotMoves, SameJob, Works, IsFor, Once, WorkedOnce
  <2>4. \A x : Is(r, x)' <=> Is(r, x)
    BY <1>0, <2>2, IsSame
  <2>5. Goes(s, r)' => status[r] = "starting"
    BY <2>1 DEF Goes, Runtime
  <2>6. Goes(s, r)' => ~Is(r, "ready") /\ ~TimedOut(r)
    <3> SUFFICES ASSUME status[r] = "starting" PROVE ~Is(r, "ready") /\ ~TimedOut(r)
      BY <2>5
    <3>1. Is(r, "starting")
      BY DEF Is
    <3> QED
      BY <3>1, IsStatus DEF Served
  <2>7. (TimedOut(r)' <=> TimedOut(r)) /\ HostStill(r)
    BY <2>2 DEF TimedOut, HostStill
  <2>8. \A t \in Slots : StartServes(t, r)'
    BY <2>1, <2>3 DEF StartServes
  <2> QED
    BY <2>3, <2>4, <2>6, <2>7, <2>8 DEF Served, HostStill, Goes
<1>2. CASE StartReplied(s)
  <2>1. UNCHANGED <<status, diagnostic, copies, up>> /\ slot[s].pc = "replied" /\ HostStill(r)
    BY <1>2 DEF StartReplied, At, controlPlane, rows, host, HostStill
  <2>2. CASE slot[s].reply /\ Execution(s) \notin stopRequested
    <3>1. SameJob(s) /\ slot'[s].pc = "enter"
      BY <1>0, <1>2, <2>2, GotoMoves DEF StartReplied, At, StartPc
    <3>2. Goes(s, r)
      BY <1>0, <2>1, <2>2 DEF Goes, Works
    <3>3. StartServes(s, r)'
      BY <3>1 DEF StartServes
    <3> QED
      BY <1>0, <2>1, <3>2, <3>3, RuntimeServes
  <2>3. CASE ~(slot[s].reply /\ Execution(s) \notin stopRequested)
    <3>1. slot'[s] = NoJob \/ (slot'[s].pc = "reportFailed" /\ slot'[s].code = "preview_start_failed")
      BY <1>0, <1>2, <2>3, FinishMoves, FailMoves DEF StartReplied, At
    <3> QED
      BY <1>0, <2>1, <3>1, OutsideServes
  <2> QED
    BY <2>2, <2>3
<1>3. CASE StartEnter(s)
  <2>1. UNCHANGED <<status, diagnostic, copies, up>> /\ slot[s].pc = "enter"
    BY <1>3 DEF StartEnter, At, rows, host
  <2>2. Goes(s, r)
    BY <1>0, <2>1 DEF Goes, Works, Runtime
  <2>3. slot'[s].pc = "materialize" \/ slot'[s] = NoJob
        \/ /\ slot'[s].pc = "reportFailed"
           /\ slot'[s].code \in {"preview_start_failed", "preview_artifact_failed"}
    BY <1>0, <1>3, <2>1, GotoMoves, StartFailsMoves DEF StartEnter, At, StartPc
  <2>4. StartServes(s, r)'
    BY <2>3 DEF StartServes, Works, NoJob
  <2> QED
    BY <1>0, <2>1, <2>2, <2>4, RuntimeServes
<1>4. CASE StartMaterialize(s)
  <2>1. UNCHANGED <<status, diagnostic>> /\ slot[s].pc = "materialize"
    BY <1>4 DEF StartMaterialize, At, rows
  <2>2. Goes(s, r)
    BY <1>0, <2>1 DEF Goes, Works, Runtime
  <2>3. (slot'[s].pc = "ports" /\ r \in copies') \/ slot'[s] = NoJob
        \/ (slot'[s].pc = "reportFailed" /\ slot'[s].code = "preview_artifact_failed")
        \/ slot'[s].pc = "materialize"
    BY <1>0, <1>4, <2>1, GotoMoves, StartFailsMoves DEF StartMaterialize, At, StartPc
  <2>4. StartServes(s, r)'
    BY <2>3 DEF StartServes, Works, NoJob
  <2> QED
    BY <1>0, <2>1, <2>2, <2>4, RuntimeServes
<1>5. CASE StartPorts(s)
  <2>1. UNCHANGED <<status, diagnostic, copies>> /\ slot[s].pc = "ports"
    BY <1>5 DEF StartPorts, At, rows
  <2>2. Goes(s, r)
    BY <1>0, <2>1 DEF Goes, Works, Runtime
  <2>3. slot'[s].pc \in {"up", "unreserve"} \/ slot'[s] = NoJob
    BY <1>0, <1>5, <2>1, GotoMoves, FinishMoves DEF StartPorts, At, StartPc
  <2>4. Is(r, "starting")' <=> Is(r, "starting")
    BY <1>0, <2>1, IsSame
  <2>5. StartServes(s, r)'
    BY <2>1, <2>2, <2>3, <2>4 DEF StartServes, Works, NoJob, Served, Goes
  <2> QED
    BY <1>0, <2>1, <2>2, <2>5, RuntimeServes
<1>6. CASE StartUnreserve(s)
  <2>1. UNCHANGED <<status, diagnostic>> /\ slot[s].pc = "unreserve"
    BY <1>6 DEF StartUnreserve, At, rows
  <2>2. Goes(s, r)
    BY <1>0, <2>1 DEF Goes, Works, Runtime
  <2>3. slot'[s] = NoJob
        \/ (slot'[s].pc = "reportFailed" /\ slot'[s].code = "preview_start_failed")
    BY <1>0, <1>6, <2>1, FinishMoves, StartFailsMoves DEF StartUnreserve, At
  <2>4. StartServes(s, r)'
    BY <2>3 DEF StartServes, Works, NoJob
  <2> QED
    BY <1>0, <2>1, <2>2, <2>4, RuntimeServes
<1>7. CASE StartProceeds(s)
  <2>1. /\ UNCHANGED <<status, diagnostic, copies, up>> /\ slot[s].pc \in {"up", "probe"}
        /\ r \in up
    BY <1>0, <1>7 DEF StartProceeds, At, controlPlane, rows, host
  <2>2. Goes(s, r)
    BY <1>0, <2>1 DEF Goes, Works, Runtime
  <2>3. slot'[s].pc \in {"probe", "reportReady"}
    BY <1>0, <1>7, <2>1, GotoMoves DEF StartProceeds, At, StartPc
  <2>4. Is(r, "starting")' <=> Is(r, "starting")
    BY <1>0, <2>1, IsSame
  <2>5. StartServes(s, r)'
    BY <2>1, <2>2, <2>3, <2>4 DEF StartServes, Served, Goes
  <2> QED
    BY <1>0, <2>1, <2>2, <2>5, RuntimeServes
<1>8. CASE StartCancelled(s)
  <2>1. UNCHANGED <<status, diagnostic>> /\ slot[s].pc \in {"up", "probe"}
    BY <1>8 DEF StartCancelled, At, controlPlane, rows
  <2>2. Goes(s, r)
    BY <1>0, <2>1 DEF Goes, Works, Runtime
  <2>3. slot'[s] = NoJob
    BY <1>0, <1>8, FinishMoves DEF StartCancelled, SlotMoves
  <2>4. StartServes(s, r)'
    BY <2>3 DEF StartServes, Works, NoJob
  <2> QED
    BY <1>0, <2>1, <2>2, <2>4, RuntimeServes
<1>9. CASE StartStageFails(s)
  <2>1. UNCHANGED <<status, diagnostic>> /\ slot[s].pc \in {"up", "probe"}
    BY <1>9 DEF StartStageFails, At, rows
  <2>2. Goes(s, r)
    BY <1>0, <2>1 DEF Goes, Works, Runtime
  <2>3. PICK code \in StageCode(slot[s].pc) \cup {"preview_start_timeout"} :
          StartFails(s, code) /\ StartCleanup(s, code)
    BY <1>9 DEF StartStageFails
  <2>4. slot'[s] = NoJob \/ (slot'[s].pc = "reportFailed" /\ slot'[s].code = code)
    BY <1>0, <2>1, <2>3, StartFailsMoves, StartCodes
  <2>5. code = "preview_start_timeout" => (r \in copies' <=> r \in copies)
    BY <1>0, <2>3 DEF StartCleanup, host
  <2>6. Is(r, "starting")' <=> Is(r, "starting")
    BY <1>0, <2>1, IsSame
  <2>7. StartServes(s, r)'
    BY <2>1, <2>2, <2>4, <2>5, <2>6 DEF StartServes, Works, NoJob, Served, Goes
  <2> QED
    BY <1>0, <2>1, <2>2, <2>7, RuntimeServes
<1>10. CASE StartReportsReady(s)
  <2>1. UNCHANGED <<copies, up>> /\ slot[s].pc = "reportReady" /\ HostStill(r)
    BY <1>10 DEF StartReportsReady, At, host, HostStill
  <2>2. slot'[s] = NoJob
        \/ (slot'[s].pc = "reportFailed" /\ slot'[s].code = "preview_start_failed")
    BY <1>0, <1>10, <2>1, FinishMoves, StartFailsMoves DEF StartReportsReady, At
  <2>3. CASE UNCHANGED rows
    BY <1>0, <2>1, <2>2, <2>3, OutsideServes DEF rows
  <2>4. CASE AcceptsReady(r) /\ ReportPreviewReady(r)
    <3>1. status[r] = "starting" /\ status'[r] = "ready" /\ UNCHANGED diagnostic
      BY <1>0, <2>4 DEF AcceptsReady, ReportPreviewReady
    <3>2. Goes(s, r) /\ Is(r, "starting")
      BY <1>0, <2>1, <3>1 DEF Goes, Works, Is
    <3>3. r \in up /\ r \in copies /\ ~TimedOut(r)
      BY <2>1, <3>2 DEF Served, StartServes, Goes
    <3>4. \A k \in Clients : ~Asks(k, "stop", r)
      BY <3>1 DEF RunFits, StatusFits, Asked
    <3>5. \A x : Is(r, x)' => x = "ready"
      BY <1>0, <3>1, <3>4 DEF Is, Asks
    <3>6. \A t \in Slots : Works(t, "start", r)' => t = s
      BY <1>0 DEF SlotMoves, SameJob, Works, IsFor, Once, WorkedOnce
    <3>7. \A t \in Slots : ~Goes(t, r)' /\ StartServes(t, r)'
      BY <2>2, <3>5, <3>6 DEF Goes, StartServes, Works, NoJob, Runtime
    <3> QED
      BY <2>1, <3>1, <3>3, <3>5, <3>7 DEF Served, TimedOut
  <2> QED
    BY <1>0, <1>10, <2>3, <2>4 DEF StartReportsReady
<1>11. CASE ReportsFailed(s)
  <2>1. /\ UNCHANGED <<copies, up>> /\ slot[s].pc = "reportFailed" /\ slot'[s] = NoJob
        /\ HostStill(r)
    BY <1>0, <1>11, FinishMoves DEF ReportsFailed, host, HostStill
  <2>2. CASE UNCHANGED rows
    BY <1>0, <2>1, <2>2, OutsideServes DEF rows
  <2>3. CASE AcceptsFailed(r, slot[s].code) /\ ReportPreviewFailed(r, slot[s].code)
    <3>1. /\ status[r] = "starting" /\ status'[r] = "failed"
          /\ diagnostic'[r] = slot[s].code
      BY <1>0, <2>1, <2>3 DEF AcceptsFailed, ReportPreviewFailed, SlotFits
    <3>2. \A k \in Clients : ~Asks(k, "stop", r)
      BY <3>1 DEF RunFits, StatusFits, Asked
    <3>3. \A x : Is(r, x)' => x = "failed"
      BY <1>0, <3>1, <3>2 DEF Is, Asks
    <3>4. \A t \in Slots : ~Works(t, "start", r)'
      BY <1>0, <2>1 DEF SlotMoves, Works, IsFor, Once, WorkedOnce, NoJob
    <3>5. TimedOut(r)' => r \in copies
      BY <2>1, <3>1 DEF TimedOut, Served, StartServes, Is
    <3> QED
      BY <2>1, <3>3, <3>4, <3>5 DEF Served, Goes, StartServes
  <2> QED
    BY <1>0, <1>11, <2>2, <2>3 DEF ReportsFailed
<1> QED
  BY <1>0, <1>1, <1>2, <1>3, <1>4, <1>5, <1>6, <1>7, <1>8, <1>9, <1>10, <1>11
  DEF SlotStep, JobStep, StopReplied, StopRoute, StopSettled, StopVerify, StopDown, StopRemove,
      StopReportsStopped, At

\* A run that a stop is executed for is stopping or stopped, and a start that goes on for it
\* reports in vain.
LEMMA StopStepServes ==
  ASSUME SlotsTyped, RestTyped, NEW s \in Slots, SlotStep(s), NEW r \in Runs,
         RunFits(r), Works(s, "stop", r), SlotFits(s), Served(r)
  PROVE  Served(r)'
<1>1. /\ SlotMoves(s) /\ UNCHANGED req /\ ReportsOf(s) /\ Once("start", r)
      /\ slot[s].run = r /\ slot[s].action = "stop"
  BY SlotStepMoves, SlotStepReports DEF RunFits, Works, IsFor
<1>2. status[r] \in {"stopping", "stopped"} /\ \A k \in Clients : ~Asks(k, "stop", r)
  BY DEF RunFits, StatusFits, Pending, Worked, Once, InOnePlace, Asked
<1>3. /\ status'[r] \in {"stopping", "stopped"} \/ status'[r] = "failed"
      /\ status'[r] = "failed" => diagnostic'[r] = "preview_stop_failed"
      /\ diagnostic'[r] \in {diagnostic[r], "preview_stop_failed"}
  BY <1>1, <1>2
  DEF ReportsOf, rows, AcceptsReady, AcceptsFailed, AcceptsStopped, ReportPreviewFailed,
      ReportPreviewStopped, RestTyped, SlotFits
<1>4. \A x : Is(r, x)' => x = status'[r]
  BY <1>1, <1>2 DEF Is, Asks
<1>5. \A t \in Slots : Works(t, "start", r)' => slot'[t] = slot[t]
  BY <1>1 DEF SlotMoves, SameJob, Works, IsFor, NoJob
<1>6. \A t \in Slots : Goes(t, r)' => Goes(t, r)
  BY <1>5 DEF Goes, Works
<1>7. TimedOut(r)' => TimedOut(r)
  BY <1>3 DEF TimedOut
<1>8. ~Is(r, "starting")' /\ ~Is(r, "ready")' /\ ~(Is(r, "failed")' /\ TimedOut(r)')
  BY <1>3, <1>4 DEF TimedOut
<1> QED
  BY <1>6, <1>7, <1>8 DEF Served, StartServes

LEMMA SlotStepServes ==
  ASSUME SlotsTyped, RestTyped, HostTyped, OneJobEach, ServedInv, NEW s \in Slots, SlotStep(s)
  PROVE  ServedInv'
<1> SUFFICES ASSUME NEW o \in Sound PROVE Served(o)'
  BY SlotStepMoves DEF ServedInv, Sound
<1>0. /\ SlotMoves(s) /\ UNCHANGED req /\ ReportsOf(s) /\ RunFits(o) /\ Served(o) /\ SlotFits(s)
      /\ slot[s].action \in {"start", "stop"} /\ slot[s].run \in Runs /\ o \in Runs
  BY SlotStepMoves, SlotStepReports DEF OneJobEach, ServedInv, SlotMoves, SlotsTyped, SlotsNameRuns,
     Sound
<1>1. CASE slot[s].run = o
  BY <1>0, <1>1, StartStepServes, StopStepServes DEF Works, IsFor, SlotMoves
<1>2. CASE slot[s].run # o
  <2>1. status'[o] = status[o] /\ diagnostic'[o] = diagnostic[o]
    BY <1>0, <1>2 DEF ReportsOf, rows, ReportPreviewReady, ReportPreviewFailed,
       ReportPreviewStopped, RestTyped
  <2>2. StartsStill(o)
    BY <1>0, <1>2 DEF StartsStill, SlotMoves, SameJob, Works, IsFor, NoJob, SameWork
  <2>3. HostStill(o)
    BY <1>2, SlotStepHost DEF HostStill
  <2>4. \A x : Is(o, x)' <=> Is(o, x)
    BY <1>0, <2>1 DEF Is, Asks
  <2> QED
    BY <1>0, <2>1, <2>2, <2>3, <2>4, ServedStill DEF IsStill, TimedOut
<1> QED
  BY <1>1, <1>2

LEMMA StepServed ==
  ASSUME LeaseInv, OneJobEach, OneJobEach', ServedInv, [Next]_vars
  PROVE  ServedInv'
<1>0. RequestsTyped /\ RestTyped /\ SlotsTyped /\ HostTyped /\ LostTyped
  BY TypedParts DEF LeaseInv
<1> DEFINE Moved(s) == SameWork(s) \/ slot'[s].pc \in {"dispatch", "free"}
<1>1. ASSUME UNCHANGED <<rows, req, copies, up>>, overlapped \subseteq overlapped',
             \A s \in Slots : Moved(s)
      PROVE  ServedInv'
  <2>1. \A o : StartsStill(o) /\ HostStill(o)
    BY <1>1 DEF StartsStill, HostStill, Works, SameWork, IsFor
  <2>2. \A o, x : Is(o, x)' <=> Is(o, x)
    BY <1>1, IsSame DEF rows
  <2>3. \A o : TimedOut(o)' <=> TimedOut(o)
    BY <1>1 DEF TimedOut, rows
  <2>4. Sound' \subseteq Sound
    BY <1>1 DEF Sound
  <2>5. \A o \in Sound : Served(o)'
    BY <2>1, <2>2, <2>3, ServedStill DEF ServedInv, IsStill
  <2> QED
    BY <2>4, <2>5 DEF ServedInv
<1>2. CASE ControlPlaneNext /\ UNCHANGED worker
  BY <1>0, <1>2, ControlPlaneServes
<1>3. ASSUME NEW s \in Slots, Take(s) PROVE ServedInv'
  <2>1. UNCHANGED <<rows, req, copies, up, overlapped>> /\ slot'[s].pc = "dispatch"
        /\ \A t \in Slots \ {s} : slot'[t] = slot[t]
    BY <1>0, <1>3, TakenSlot DEF host, lost
  <2> QED
    BY <1>1, <2>1 DEF SameWork
<1>4. ASSUME NEW s \in Slots, SlotStep(s) PROVE ServedInv'
  BY <1>0, <1>4, SlotStepServes
<1>5. CASE WorkerRestart
  BY <1>1, <1>5 DEF WorkerRestart, host, NoJob
<1>6. ASSUME NEW job \in held, LockExpires(job) PROVE ServedInv'
  BY <1>1, <1>6 DEF LockExpires, host, SameWork
<1>7. ASSUME NEW s \in Slots, LockLost(s) PROVE ServedInv'
  <2>1. slot[s] \in SlotState /\ slot' = [slot EXCEPT ![s].unlocked = TRUE]
    BY <1>0, <1>7 DEF LockLost, SlotsTyped
  <2>2. \A t \in Slots : SameWork(t)
    BY <1>0, <2>1 DEF SlotsTyped, SlotState, SameWork
  <2> QED
    BY <1>1, <1>7, <2>2 DEF LockLost, host
<1>8. CASE UNCHANGED vars
  BY <1>1, <1>8 DEF vars, controlPlane, worker, host, lost, SameWork
<1> QED
  BY <1>2, <1>3, <1>4, <1>5, <1>6, <1>7, <1>8 DEF Next

LEMMA InitServed == Init => ServedInv
<1> SUFFICES ASSUME Init, NEW r \in Runs PROVE Served(r)
  BY DEF ServedInv, Sound
<1>1. \A s \in Slots : ~Works(s, "start", r)
  BY DEF Init, Works, NoJob
<1>2. \A x : Is(r, x) => x = "unused"
  BY DEF Init, ControlPlaneInit, Is, Asks, Idle
<1>3. ~TimedOut(r)
  BY PreviewAssumption DEF Init, ControlPlaneInit, TimedOut, FailureCode
<1> QED
  BY <1>1, <1>2, <1>3 DEF Served, Goes, StartServes

LEMMA ServedInvariant ==
  ASSUME "ack" \notin Faults
  PROVE  Spec => []ServedInv
<1>1. Init => ServedInv
  BY InitServed
<1>2. LeaseInv /\ OneJobEach /\ OneJobEach' /\ ServedInv /\ [Next]_vars => ServedInv'
  BY StepServed
<1> QED
  BY <1>1, <1>2, OneJobInvariant, PTL DEF Spec

(* While ready is shown the containers were started and nothing but a stop *)
(* of this run has taken them down, whatever failed, crashed, timed out or *)
(* was taken back and whatever locks expired, as long as an enqueue that   *)
(* raises has stored nothing and no job of the run was given out while it  *)
(* was being executed (overlapped, which ReadyIsServed excepts).           *)
THEOREM ReadyRunsAreServed ==
  ASSUME "ack" \notin Faults
  PROVE  Spec => []ReadyIsServed
<1>1. ServedInv => ReadyIsServed
  BY DEF ServedInv, Served, Is, ReadyIsServed, Sound
<1> QED
  BY <1>1, ServedInvariant, PTL

(* A start that timed out keeps its verified copy while the run is failed, *)
(* also when a stop of it was asked for and taken back (retainDirectory),  *)
(* for the same runs: the run overlap shows what becomes of the others.    *)
THEOREM TimeoutsKeepTheCopy ==
  ASSUME "ack" \notin Faults
  PROVE  Spec => []TimeoutKeepsCopy
<1>1. ServedInv => TimeoutKeepsCopy
  BY DEF ServedInv, Served, Is, TimedOut, TimeoutKeepsCopy, Sound
<1> QED
  BY <1>1, ServedInvariant, PTL

-----------------------------------------------------------------------------
(***************************************************************************)
(* What is stopped is quiet: a step that brings no start into the runtime. *)
(***************************************************************************)
AtEnter(s, r) == Works(s, "start", r) /\ slot[s].pc = "enter"

LEMMA StopFindsStill ==
  ASSUME NEW r, NEW t \in Slots, StopFindsNothing(t, r), slot'[t] = slot[t],
         \A s \in Slots : (InRuntime(s, r)' => InRuntime(s, r)) /\ (AtEnter(s, r)' => AtEnter(s, r)),
         r \in up' => r \in up
  PROVE  StopFindsNothing(t, r)'
  BY DEF StopFindsNothing, Works, AtEnter

LEMMA QuietStill ==
  ASSUME NEW r, Quiet(r), UNCHANGED req,
         r \in up' => r \in up,
         r \in skipped' => r \in skipped,
         Cleared(r)' => Cleared(r),
         Pending("start", r)' => Pending("start", r),
         BeforeDocker(r)' => BeforeDocker(r),
         \A s \in Slots : InRuntime(s, r)' => InRuntime(s, r),
         \A s \in Slots : Enters(s, r)' =>
           Enters(s, r) /\ ~Worked("stop", r)' /\ status'[r] = status[r],
         \A t \in Slots : StopFindsNothing(t, r)',
         status'[r] \in {"unused", "deleted"} => status'[r] = status[r],
         status'[r] = "stopped" =>
           status[r] = "stopped" \/ (r \notin up /\ \A s \in Slots : ~InRuntime(s, r))
  PROVE  Quiet(r)'
<1>1. \A k \in Clients : Asks(k, "stop", r)' <=> Asks(k, "stop", r)
  BY DEF Asks
<1>2. \A s \in Slots : EnteringIsUntold(s, r)'
  BY <1>1 DEF Quiet, EnteringIsUntold
<1> QED
  BY <1>2 DEF Quiet

\* A start goes on past Docker, within the runtime, or ends.
GoesFurther(s) ==
  \/ slot'[s] = NoJob
  \/ slot'[s].pc \in {"reportReady", "reportFailed"}
  \/ /\ slot[s].pc \in Runtime /\ slot'[s].pc \in Runtime \ {"enter"}
     /\ slot[s].pc \in {"up", "probe"} => slot'[s].pc \in {"up", "probe"}

LEMMA StartQuiet ==
  ASSUME NEW r, Quiet(r), RunFits(r), NEW s \in Slots, Works(s, "start", r), SlotMoves(s),
         SlotStep(s), SlotsTyped, GoesFurther(s),
         UNCHANGED <<stopRequested, skipped>>, r \in up' => r \in up,
         Cleared(r)' => Cleared(r),
         status'[r] \in {status[r], "ready", "failed"}
  PROVE  Quiet(r)'
<1>1. UNCHANGED <<queue, req, held>>
  BY SlotStepMoves
<1>2. /\ Pending("start", r)' => Pending("start", r)
      /\ \A t \in Slots : Works(t, "start", r)' => Works(t, "start", r)
  BY SlotStepFollows DEF RunFits, Follows
<1>3. \A t \in Slots : Works(t, "start", r)' => t = s
  BY <1>2 DEF RunFits, Once, WorkedOnce
<1>4. \A t \in Slots : InRuntime(t, r)' => InRuntime(t, r)
  BY <1>3 DEF InRuntime, GoesFurther, Works, NoJob, Runtime
<1>5. \A t \in Slots : ~AtEnter(t, r)' /\ ~Enters(t, r)'
  BY <1>3 DEF AtEnter, Enters, GoesFurther, Works, NoJob, Runtime
<1>6. BeforeDocker(r)' => BeforeDocker(r)
  <2>1. ~Asked("start", r)' /\ ~Listed("start", r)'
    BY <1>1 DEF RunFits, Once, InOnePlace, Worked, Asked, Asks, Listed, Lists
  <2>2. (Works(s, "start", r)' /\ slot'[s].pc \in {"dispatch", "replied", "enter", "materialize",
                                         "ports", "unreserve"}) => BeforeDocker(r)
    BY DEF BeforeDocker, GoesFurther, NoJob, Works, Runtime
  <2> QED
    BY <1>3, <2>1, <2>2 DEF BeforeDocker
<1>7. \A t \in Slots : StopFindsNothing(t, r)'
  <2> SUFFICES ASSUME NEW t \in Slots PROVE StopFindsNothing(t, r)'
    OBVIOUS
  <2>1. CASE t = s
    BY <2>1 DEF StopFindsNothing, Works, IsFor, SlotMoves, SameJob, NoJob
  <2>2. CASE t # s
    BY <1>4, <1>5, <2>2, StopFindsStill DEF Quiet, SlotMoves
  <2> QED
    BY <2>1, <2>2
<1> QED
  BY <1>1, <1>2, <1>4, <1>5, <1>6, <1>7, QuietStill

\* A step of a stop: no start of the run is about to enter the runtime.
LEMMA StopQuiet ==
  ASSUME NEW r, Quiet(r), RunFits(r), NEW s \in Slots, Works(s, "stop", r), SlotMoves(s),
         SlotStep(s), SlotsTyped, StopFindsNothing(s, r)',
         UNCHANGED <<stopRequested, preDocker>>, r \in skipped' => r \in skipped,
         r \in up' => r \in up,
         \/ status'[r] \in {status[r], "failed"}
         \/ status'[r] = "stopped" /\ r \notin up /\ \A t \in Slots : ~InRuntime(t, r)
  PROVE  Quiet(r)'
<1>1. UNCHANGED <<queue, req, held>>
  BY SlotStepMoves
<1>2. Pending("start", r)' => Pending("start", r)
  BY SlotStepFollows DEF RunFits, Follows
<1>3. \A t \in Slots : Works(t, "start", r)' => slot'[t] = slot[t]
  BY DEF SlotMoves, SameJob, Works, IsFor, NoJob
<1>4. \A t \in Slots : (InRuntime(t, r)' => InRuntime(t, r)) /\ (AtEnter(t, r)' => AtEnter(t, r))
                       /\ (Enters(t, r)' => Enters(t, r))
  BY <1>3 DEF InRuntime, AtEnter, Enters, Works, Execution
<1>5. \A t \in Slots : ~Enters(t, r)'
  BY <1>4 DEF Quiet, EnteringIsUntold, Worked
<1>6. BeforeDocker(r)' => BeforeDocker(r)
  BY <1>1, <1>3 DEF BeforeDocker, Asked, Asks, Listed, Lists, Works
<1>7. \A t \in Slots : StopFindsNothing(t, r)'
  <2> SUFFICES ASSUME NEW t \in Slots, t # s PROVE StopFindsNothing(t, r)'
    OBVIOUS
  <2>1. slot'[t] = slot[t]
    BY DEF SlotMoves
  <2> QED
    BY <1>4, <2>1, StopFindsStill DEF Quiet
<1> QED
  BY <1>1, <1>2, <1>4, <1>5, <1>6, <1>7, QuietStill DEF Cleared

LEMMA StartStepQuiet ==
  ASSUME SlotsTyped, RestTyped, HostTyped, NEW s \in Slots, SlotStep(s), NEW r \in Runs,
         RunFits(r), Works(s, "start", r), SlotFits(s), Quiet(r)
  PROVE  Quiet(r)'
<1>0. /\ slot[s].action = "start" /\ slot[s].run = r /\ SlotMoves(s)
      /\ UNCHANGED <<queue, req, held>>
      /\ Once("start", r) /\ Pending("start", r)
      /\ preDocker \in [Runs \X BOOLEAN -> {"unset", "complete", "incomplete"}]
      /\ slot[s].again \in BOOLEAN /\ Execution(s) = <<r, slot[s].again>>
      /\ status \in [Runs -> Status]
  BY SlotStepMoves DEF Works, IsFor, RunFits, RestTyped, HostTyped, Pending, Worked, Execution,
     SlotsTyped, SlotState
<1>a. \A t \in Slots : Works(t, "start", r) => t = s
  BY <1>0 DEF Once, WorkedOnce
<1>b. \A t \in Slots : Works(t, "start", r)' => t = s
  BY <1>0, <1>a DEF SlotMoves, SameJob, Works, IsFor
<1>c. \A t \in Slots : Works(t, "stop", r)' => slot'[t] = slot[t]
  BY <1>0 DEF SlotMoves, SameJob, Works, IsFor, NoJob
<1>d. Worked("stop", r)' => Worked("stop", r)
  BY <1>c DEF Worked, Works
<1>e. ~Asked("start", r)' /\ ~Listed("start", r)'
  BY <1>0 DEF Once, InOnePlace, Worked, Asked, Asks, Listed, Lists
<1>f. \A k \in Clients : Asks(k, "stop", r)' <=> Asks(k, "stop", r)
  BY <1>0 DEF Asks
<1>1. CASE Dispatch(s)
  <2>1. /\ SameJob(s) /\ slot'[s].pc = "replied"
        /\ slot'[s].reply => status[r] = "starting"
        /\ slot[s].pc = "dispatch"
    BY <1>0, <1>1, DispatchMoves DEF Dispatchable, Dispatch
  <2>2. UNCHANGED <<status, up, skipped, stopRequested, preDocker>>
    BY <1>1 DEF Dispatch, rows, host, starts
  <2>3. BeforeDocker(r)
    BY <1>0, <2>1 DEF BeforeDocker, Works
  <2>4. \A t \in Slots : ~InRuntime(t, r)' /\ ~AtEnter(t, r)'
    BY <1>b, <2>1 DEF InRuntime, AtEnter, Runtime
  <2>5. \A t \in Slots : Enters(t, r)' => status[r] = "starting"
    BY <1>b, <2>1 DEF Enters
  <2>6. \A t \in Slots : EnteringIsUntold(t, r)'
    <3>1. status[r] = "starting" => ~Worked("stop", r) /\ \A k \in Clients : ~Asks(k, "stop", r)
      BY DEF RunFits, StatusFits, Pending, Asked
    <3> QED
      BY <1>d, <1>f, <2>2, <2>5, <3>1 DEF EnteringIsUntold
  <2>7. \A t \in Slots : StopFindsNothing(t, r)'
    <3> SUFFICES ASSUME NEW t \in Slots, Works(t, "stop", r)' PROVE StopFindsNothing(t, r)'
      BY DEF StopFindsNothing
    <3> QED
      BY <1>c, <2>2, <2>4, StopFindsStill DEF Quiet
  <2>8. Pending("start", r) /\ r \notin up /\ r \notin skipped /\ ~Cleared(r)
    BY <1>0, <2>3 DEF Quiet
  <2>9. status[r] \notin {"unused", "deleted"}
    BY <1>0 DEF RunFits, StatusFits
  <2> QED
    BY <2>2, <2>4, <2>6, <2>7, <2>8, <2>9 DEF Quiet, Cleared
<1>2. CASE StartReplied(s)
  <2>1. UNCHANGED <<status, up, stopRequested, preDocker>> /\ slot[s].pc = "replied"
    BY <1>2 DEF StartReplied, At, controlPlane, rows, host
  <2>2. BeforeDocker(r)
    BY <1>0, <2>1 DEF BeforeDocker, Works
  <2>3. r \notin up /\ r \notin skipped /\ ~Cleared(r)
        /\ status[r] \notin {"unused", "deleted"}
    BY <1>0, <2>2 DEF Quiet, RunFits, StatusFits
  <2>4. CASE Execution(s) \in stopRequested
    <3>1. slot'[s] = NoJob
      BY <1>0, <1>2, <2>1, <2>4, FinishMoves DEF StartReplied
    <3>2. \A t \in Slots : ~Works(t, "start", r)'
      BY <1>b, <3>1 DEF Works, NoJob
    <3>3. ~Pending("start", r)'
      BY <1>0, <3>1, SlotStepFollows
    <3>4. \A t \in Slots : ~InRuntime(t, r)' /\ ~AtEnter(t, r)' /\ ~Enters(t, r)'
      BY <3>2 DEF InRuntime, AtEnter, Enters
    <3>5. ~BeforeDocker(r)'
      BY <1>e, <3>2 DEF BeforeDocker
    <3>6. \A t \in Slots : StopFindsNothing(t, r)'
      <4> SUFFICES ASSUME NEW t \in Slots, Works(t, "stop", r)' PROVE StopFindsNothing(t, r)'
        BY DEF StopFindsNothing
      <4> QED
        BY <1>c, <2>1, <3>4, StopFindsStill DEF Quiet
    <3> QED
      BY <2>1, <2>3, <3>3, <3>4, <3>5, <3>6 DEF Quiet, EnteringIsUntold
  <2>5. CASE Execution(s) \notin stopRequested /\ slot[s].reply
    <3>1. SameJob(s) /\ slot'[s].pc = "enter" /\ UNCHANGED skipped
      BY <1>0, <1>2, <2>5, GotoMoves DEF StartReplied, At, StartPc
    <3>2. Enters(s, r)
      BY <1>0, <2>1, <2>5 DEF Enters, Works
    <3>3. ~Worked("stop", r)' /\ status[r] \in {"starting", "stopping"}
      BY <1>d, <3>2 DEF Quiet, EnteringIsUntold
    <3>4. \A t \in Slots : ~Enters(t, r)'
      BY <1>b, <3>1 DEF Enters
    <3>5. \A t \in Slots : StopFindsNothing(t, r)'
      BY <3>3 DEF StopFindsNothing, Worked
    <3> QED
      BY <2>1, <2>3, <3>1, <3>3, <3>4, <3>5 DEF Quiet, EnteringIsUntold, Cleared
  <2>6. CASE Execution(s) \notin stopRequested /\ ~slot[s].reply
    <3>1. slot'[s].pc = "reportFailed" /\ UNCHANGED skipped
      BY <1>0, <1>2, <2>6, FailMoves DEF StartReplied, At
    <3> QED
      BY <1>0, <2>1, <3>1, StartQuiet DEF GoesFurther, Cleared
  <2> QED
    BY <2>4, <2>5, <2>6
<1>3. CASE StartEnter(s)
  <2>1. UNCHANGED <<status, up, skipped, stopRequested, preDocker>> /\ slot[s].pc = "enter"
    BY <1>3 DEF StartEnter, At, rows, host, starts
  <2>2. slot'[s].pc = "materialize" \/ slot'[s] = NoJob \/ slot'[s].pc = "reportFailed"
    BY <1>0, <1>3, <2>1, GotoMoves, StartFailsMoves DEF StartEnter, At, StartPc
  <2>3. GoesFurther(s)
    BY <2>1, <2>2 DEF GoesFurther, Runtime
  <2> QED
    BY <1>0, <2>1, <2>3, StartQuiet DEF Cleared
<1>4. CASE StartMaterialize(s)
  <2>1. UNCHANGED <<status, up, skipped, stopRequested, preDocker>> /\ slot[s].pc = "materialize"
    BY <1>4 DEF StartMaterialize, At, rows, starts
  <2>2. slot'[s].pc \in {"materialize", "ports", "reportFailed"} \/ slot'[s] = NoJob
    BY <1>0, <1>4, <2>1, GotoMoves, StartFailsMoves DEF StartMaterialize, At, StartPc
  <2>3. GoesFurther(s)
    BY <2>1, <2>2 DEF GoesFurther, Runtime
  <2> QED
    BY <1>0, <2>1, <2>3, StartQuiet DEF Cleared
<1>5. CASE StartPorts(s)
  <2>1. UNCHANGED <<status, skipped, stopRequested>> /\ slot[s].pc = "ports"
    BY <1>5 DEF StartPorts, At, rows
  <2>2. preDocker' = preDocker \/ preDocker' = [preDocker EXCEPT ![Execution(s)] = "incomplete"]
    BY <1>0, <1>5 DEF StartPorts
  <2>3. Cleared(r)' => Cleared(r)
    BY <1>0, <2>2 DEF Cleared
  <2>4. CASE up' = up
    <3>1. slot'[s].pc \in {"up", "unreserve"} \/ slot'[s] = NoJob
      BY <1>0, <1>5, <2>1, GotoMoves, FinishMoves DEF StartPorts, At, StartPc
    <3>2. GoesFurther(s)
      BY <2>1, <3>1 DEF GoesFurther, Runtime
    <3> QED
      BY <1>0, <2>1, <2>3, <2>4, <3>2, StartQuiet
  <2>5. CASE up' # up
    <3>1. SameJob(s) /\ slot'[s].pc = "up" /\ UNCHANGED preDocker
      BY <1>0, <1>5, <2>1, <2>5, GotoMoves DEF StartPorts, At, StartPc
    <3>2. InRuntime(s, r)
      BY <1>0, <2>1 DEF InRuntime, Runtime
    <3>3. r \notin skipped /\ ~Cleared(r) /\ status[r] # "stopped"
          /\ status[r] \notin {"unused", "deleted"}
      BY <1>0, <3>2 DEF Quiet, RunFits, StatusFits
    <3>4. \A t \in Slots : ~AtEnter(t, r)' /\ ~Enters(t, r)'
      BY <1>b, <3>1 DEF AtEnter, Enters
    <3>5. ~BeforeDocker(r)'
      BY <1>b, <1>e, <3>1 DEF BeforeDocker
    <3>6. \A t \in Slots : StopFindsNothing(t, r)'
      <4> SUFFICES ASSUME NEW t \in Slots, Works(t, "stop", r)' PROVE StopFindsNothing(t, r)'
        BY DEF StopFindsNothing
      <4>1. slot'[t] = slot[t] /\ Works(t, "stop", r)
        BY <1>c DEF Works
      <4>2. /\ slot[t].pc \notin {"verify", "down", "remove", "reportStopped"}
            /\ slot[t].pc = "settle" => FALSE \in slot[t].saw
        BY <3>2, <4>1 DEF Quiet, StopFindsNothing
      <4> QED
        BY <3>4, <4>1, <4>2 DEF StopFindsNothing, AtEnter
    <3> QED
      BY <2>1, <3>1, <3>3, <3>4, <3>5, <3>6 DEF Quiet, EnteringIsUntold, Cleared
  <2> QED
    BY <2>4, <2>5
<1>6. CASE StartUnreserve(s)
  <2>1. UNCHANGED <<status, up, skipped, stopRequested>> /\ slot[s].pc = "unreserve"
    BY <1>6 DEF StartUnreserve, At, rows
  <2>2. slot'[s] = NoJob \/ slot'[s].pc = "reportFailed"
    BY <1>0, <1>6, <2>1, FinishMoves, StartFailsMoves DEF StartUnreserve, At
  <2>3. CASE Cleared(r)' => Cleared(r)
    BY <1>0, <2>1, <2>2, <2>3, StartQuiet DEF GoesFurther
  <2>4. CASE Cleared(r)'
    <3>1. BeforeDocker(r) /\ InRuntime(s, r)
      BY <1>0, <2>1 DEF BeforeDocker, InRuntime, Works, Runtime
    <3>2. r \notin up /\ r \notin skipped /\ status[r] # "stopped"
          /\ status[r] \notin {"unused", "deleted"}
      BY <1>0, <3>1 DEF Quiet, RunFits, StatusFits
    <3>3. \A t \in Slots : ~InRuntime(t, r)' /\ ~AtEnter(t, r)' /\ ~Enters(t, r)'
      BY <1>b, <2>2 DEF InRuntime, AtEnter, Enters, Runtime, Works, NoJob
    <3>4. ~BeforeDocker(r)'
      BY <1>b, <1>e, <2>2 DEF BeforeDocker, Works, NoJob
    <3>5. \A t \in Slots : StopFindsNothing(t, r)'
      <4> SUFFICES ASSUME NEW t \in Slots, Works(t, "stop", r)' PROVE StopFindsNothing(t, r)'
        BY DEF StopFindsNothing
      <4> QED
        BY <1>c, <2>1, <3>3, StopFindsStill DEF Quiet
    <3> QED
      BY <2>1, <3>2, <3>3, <3>4, <3>5 DEF Quiet, EnteringIsUntold
  <2> QED
    BY <2>3, <2>4
<1>7. CASE StartProceeds(s)
  <2>1. UNCHANGED <<status, up, skipped, stopRequested, preDocker>> /\ slot[s].pc \in {"up", "probe"}
    BY <1>7 DEF StartProceeds, At, controlPlane, rows, host, starts
  <2>2. slot'[s].pc \in {"probe", "reportReady"}
    BY <1>0, <1>7, <2>1, GotoMoves DEF StartProceeds, At, StartPc
  <2>3. GoesFurther(s)
    BY <2>1, <2>2 DEF GoesFurther, Runtime
  <2> QED
    BY <1>0, <2>1, <2>3, StartQuiet DEF Cleared
<1>8. CASE StartCancelled(s)
  <2>1. UNCHANGED <<status, up, skipped, stopRequested, preDocker>>
    BY <1>8 DEF StartCancelled, controlPlane, rows, host, starts
  <2>2. GoesFurther(s)
    BY <1>0, <1>8, FinishMoves DEF StartCancelled, SlotMoves, GoesFurther
  <2> QED
    BY <1>0, <2>1, <2>2, StartQuiet DEF Cleared
<1>9. CASE StartStageFails(s)
  <2>1. UNCHANGED <<status, skipped, stopRequested, preDocker>> /\ slot[s].pc \in {"up", "probe"}
    BY <1>9 DEF StartStageFails, At, rows, starts
  <2>2. PICK code \in StageCode(slot[s].pc) \cup {"preview_start_timeout"} :
          StartFails(s, code) /\ StartCleanup(s, code)
    BY <1>9 DEF StartStageFails
  <2>3. GoesFurther(s)
    BY <1>0, <2>1, <2>2, StartFailsMoves, StartCodes DEF GoesFurther
  <2>4. r \in up' => r \in up
    BY <2>2 DEF StartCleanup, host
  <2> QED
    BY <1>0, <2>1, <2>3, <2>4, StartQuiet DEF Cleared
<1>10. CASE StartReportsReady(s)
  <2>1. UNCHANGED <<up, skipped, stopRequested, preDocker>> /\ slot[s].pc = "reportReady"
    BY <1>10 DEF StartReportsReady, At, host, starts
  <2>2. GoesFurther(s)
    BY <1>0, <1>10, <2>1, FinishMoves, StartFailsMoves DEF StartReportsReady, At, GoesFurther
  <2>3. status'[r] \in {status[r], "ready"}
    BY <1>0, <1>10 DEF StartReportsReady, ReportPreviewReady, rows
  <2> QED
    BY <1>0, <2>1, <2>2, <2>3, StartQuiet DEF Cleared
<1>11. CASE ReportsFailed(s)
  <2>1. UNCHANGED <<up, skipped, stopRequested, preDocker>>
    BY <1>11 DEF ReportsFailed, host, starts
  <2>2. GoesFurther(s)
    BY <1>0, <1>11, FinishMoves DEF ReportsFailed, SlotMoves, GoesFurther
  <2>3. status'[r] \in {status[r], "failed"}
    BY <1>0, <1>11 DEF ReportsFailed, ReportPreviewFailed, rows
  <2> QED
    BY <1>0, <2>1, <2>2, <2>3, StartQuiet DEF Cleared
<1> QED
  BY <1>0, <1>1, <1>2, <1>3, <1>4, <1>5, <1>6, <1>7, <1>8, <1>9, <1>10, <1>11
  DEF SlotStep, JobStep, StopReplied, StopRoute, StopSettled, StopVerify, StopDown, StopRemove,
      StopReportsStopped, At

LEMMA StopStepQuiet ==
  ASSUME "stall" \notin Faults, NoneAgain,
         SlotsTyped, RestTyped, HostTyped, NEW s \in Slots, SlotStep(s), NEW r \in Runs,
         RunFits(r), Works(s, "stop", r), SlotFits(s), Quiet(r)
  PROVE  Quiet(r)'
<1>0. /\ slot[s].action = "stop" /\ slot[s].run = r /\ SlotMoves(s)
      /\ status \in [Runs -> Status] /\ StopFindsNothing(s, r)
  BY SlotStepMoves DEF Works, IsFor, RestTyped, Quiet
<1>a. ASSUME NEW t \in Slots, Active(r) = {} PROVE InRuntime(t, r) => AtEnter(t, r)
  BY <1>a DEF InRuntime, Runtime, AtEnter, Active, Starts, Works, IsFor
<1>b. ASSUME slot'[s] = NoJob
             \/ slot'[s].pc \notin {"settle", "verify", "down", "remove", "reportStopped"}
      PROVE  StopFindsNothing(s, r)'
  <2>1. slot'[s].pc \notin {"settle", "verify", "down", "remove", "reportStopped"}
    BY <1>b DEF NoJob
  <2> QED
    BY <2>1 DEF StopFindsNothing
<1>c. \A t \in Slots : Works(t, "start", r)' => slot'[t] = slot[t]
  BY <1>0 DEF SlotMoves, SameJob, Works, IsFor, NoJob
<1>d. \A t \in Slots : (InRuntime(t, r)' => InRuntime(t, r)) /\ (AtEnter(t, r)' => AtEnter(t, r))
  BY <1>c DEF InRuntime, AtEnter, Works
<1>e. ASSUME \A t \in Slots : ~InRuntime(t, r), slot'[s].pc # "settle",
             r \notin up' \/ slot'[s].pc \notin {"remove", "reportStopped"}
      PROVE  StopFindsNothing(s, r)'
  <2>1. \A t \in Slots : ~InRuntime(t, r)' /\ ~AtEnter(t, r)'
    BY <1>d, <1>e DEF InRuntime, AtEnter, Runtime
  <2> QED
    BY <1>e, <2>1 DEF StopFindsNothing, AtEnter
<1>1. CASE Dispatch(s)
  <2>1. UNCHANGED <<status, up, skipped, stopRequested, preDocker>>
    BY <1>1 DEF Dispatch, rows, host, starts
  <2> QED
    BY <1>0, <1>1, <1>b, <2>1, DispatchMoves, StopQuiet
<1>2. CASE StopReplied(s)
  <2>1. UNCHANGED <<status, up, skipped, stopRequested, preDocker>> /\ slot[s].pc = "replied"
    BY <1>2 DEF StopReplied, At, controlPlane, rows, host, starts
  <2>2. slot'[s].pc \in {"route", "reportFailed"}
    BY <1>0, <1>2, <2>1, GotoMoves, FailMoves DEF StopReplied, StopPc
  <2> QED
    BY <1>0, <1>b, <2>1, <2>2, StopQuiet
<1>3. CASE StopRoute(s)
  <2>1. UNCHANGED <<status, up, skipped, stopRequested, preDocker>> /\ slot[s].pc = "route"
    BY <1>3 DEF StopRoute, At, rows, host
  <2>2. StopFindsNothing(s, r)'
    <3>1. CASE r \in skipped
      <4>1. \A t \in Slots : ~InRuntime(t, r)
        BY <3>1 DEF Quiet, Pending, Worked, InRuntime
      <4>2. slot'[s].pc = "reportStopped"
        BY <1>0, <1>3, <2>1, <3>1, GotoMoves DEF StopRoute, StopPc
      <4> QED
        BY <1>e, <2>1, <3>1, <4>1, <4>2 DEF Quiet
    <3>2. CASE r \notin skipped /\ Active(r) # {}
      <4>1. slot' = [slot EXCEPT ![s].pc = "settle", ![s].saw = Which(Active(r))]
        BY <1>0, <1>3, <2>1, <3>2 DEF StopRoute
      <4>2. slot'[s].pc = "settle" /\ slot'[s].saw = Which(Active(r))
        BY <4>1 DEF SlotsTyped, SlotState
      <4>3. FALSE \in Which(Active(r))
        BY <3>2 DEF NoneAgain, Which, Active, Starts
      <4>4. \A t \in Slots : ~AtEnter(t, r)
        BY <3>2 DEF Active, Starts, AtEnter, Works, IsFor, RunFits, Once, WorkedOnce
      <4> QED
        BY <1>d, <4>2, <4>3, <4>4 DEF StopFindsNothing, AtEnter
    <3>3. CASE r \notin skipped /\ Active(r) = {}
      <4>1. Goto(s, "verify") /\ ~\E o \in Starts(r) : slot[o].pc = "enter"
        BY <1>0, <1>3, <3>3 DEF StopRoute, Fault
      <4>2. slot'[s].pc = "verify"
        BY <1>0, <2>1, <4>1, GotoMoves DEF StopPc
      <4>3. \A t \in Slots : ~AtEnter(t, r)
        BY <4>1 DEF Starts, AtEnter, Works, IsFor
      <4>4. \A t \in Slots : ~InRuntime(t, r)
        BY <1>a, <3>3, <4>3
      <4> QED
        BY <1>e, <4>2, <4>4
    <3> QED
      BY <3>1, <3>2, <3>3
  <2> QED
    BY <1>0, <2>1, <2>2, StopQuiet
<1>4. CASE StopSettled(s)
  <2>1. /\ UNCHANGED <<status, up, skipped, stopRequested, preDocker>> /\ slot[s].pc = "settle"
        /\ Which(Active(r)) \cap slot[s].saw = {}
    BY <1>0, <1>4 DEF StopSettled, At, controlPlane, rows, host, starts
  <2>a. Active(r) = {}
    <3>1. FALSE \in slot[s].saw
      BY <1>0, <2>1 DEF StopFindsNothing, Works, IsFor
    <3> QED
      BY <2>1, <3>1 DEF NoneAgain, Which, Active, Starts
  <2>2. \A t \in Slots : ~AtEnter(t, r)
    BY <1>0, <2>1 DEF StopFindsNothing, AtEnter
  <2>3. \A t \in Slots : ~InRuntime(t, r)
    BY <1>a, <2>a, <2>2
  <2>b. slot'[s].pc \in {"reportStopped", "verify", "reportFailed"}
    <3>1. \/ Goto(s, "reportStopped") \/ Goto(s, "verify")
          \/ Fail(s, "preview_stop_failed")
      BY <1>0, <1>4 DEF StopSettled
    <3> QED
      BY <1>0, <2>1, <3>1, GotoMoves, FailMoves DEF StopPc
  <2>4. r \notin up \/ slot'[s].pc \in {"verify", "reportFailed"}
    <3>1. CASE Cleared(r)
      BY <3>1 DEF Quiet
    <3>2. CASE ~Cleared(r)
      <4>1. "complete" \notin {preDocker[<<r, a>>] : a \in slot[s].saw}
        BY <3>2 DEF Cleared, SlotsTyped, SlotState
      <4>2. Goto(s, "verify") \/ Fail(s, "preview_stop_failed")
        BY <1>0, <1>4, <4>1 DEF StopSettled
      <4> QED
        BY <1>0, <2>1, <4>2, GotoMoves, FailMoves DEF StopPc
    <3> QED
      BY <3>1, <3>2
  <2>5. StopFindsNothing(s, r)'
    BY <1>e, <2>1, <2>3, <2>4, <2>b
  <2> QED
    BY <1>0, <2>1, <2>5, StopQuiet
<1>5. CASE StopVerify(s)
  <2>1. UNCHANGED <<status, up, skipped, stopRequested, preDocker>> /\ slot[s].pc = "verify"
    BY <1>5 DEF StopVerify, At, controlPlane, rows, host, starts
  <2>2. slot'[s].pc \in {"down", "reportFailed"}
    BY <1>0, <1>5, <2>1, GotoMoves, FailMoves DEF StopVerify, StopPc
  <2>3. \A t \in Slots : ~InRuntime(t, r)
    BY <1>0, <2>1 DEF StopFindsNothing
  <2>4. StopFindsNothing(s, r)'
    BY <1>e, <2>2, <2>3
  <2> QED
    BY <1>0, <2>1, <2>4, StopQuiet
<1>6. CASE StopDown(s)
  <2>1. UNCHANGED <<status, skipped, stopRequested, preDocker>> /\ slot[s].pc = "down"
    BY <1>6 DEF StopDown, At, rows, starts
  <2>2. (r \notin up' /\ slot'[s].pc = "remove") \/ (slot'[s].pc = "reportFailed" /\ up' = up)
    BY <1>0, <1>6, <2>1, GotoMoves, FailMoves DEF StopDown, StopPc
  <2>3. \A t \in Slots : ~InRuntime(t, r)
    BY <1>0, <2>1 DEF StopFindsNothing
  <2>4. StopFindsNothing(s, r)'
    BY <1>e, <2>2, <2>3
  <2> QED
    BY <1>0, <2>1, <2>2, <2>4, StopQuiet
<1>7. CASE StopRemove(s)
  <2>1. UNCHANGED <<status, up, skipped, stopRequested, preDocker>> /\ slot[s].pc = "remove"
    BY <1>7 DEF StopRemove, At, rows, starts
  <2>2. r \notin up /\ \A t \in Slots : ~InRuntime(t, r)
    BY <1>0, <2>1 DEF StopFindsNothing
  <2>4. slot'[s].pc \in {"reportStopped", "reportFailed"}
    BY <1>0, <1>7, <2>1, GotoMoves, FailMoves DEF StopRemove, StopPc
  <2>3. StopFindsNothing(s, r)'
    BY <1>e, <2>1, <2>2, <2>4
  <2> QED
    BY <1>0, <2>1, <2>3, StopQuiet
<1>8. CASE StopReportsStopped(s)
  <2>1. /\ UNCHANGED <<up, stopRequested, preDocker>> /\ slot[s].pc = "reportStopped"
        /\ r \in skipped' => r \in skipped
    BY <1>8 DEF StopReportsStopped, At, host, starts
  <2>2. r \notin up /\ \A t \in Slots : ~InRuntime(t, r)
    BY <1>0, <2>1 DEF StopFindsNothing
  <2>5. slot'[s].pc \in {"free", "reportFailed"}
    BY <1>0, <1>8, <2>1, FinishMoves, FailMoves DEF StopReportsStopped, NoJob
  <2>3. StopFindsNothing(s, r)'
    BY <1>e, <2>1, <2>2, <2>5
  <2>4. status'[r] \in {status[r], "stopped"}
    BY <1>0, <1>8 DEF StopReportsStopped, ReportPreviewStopped, rows
  <2> QED
    BY <1>0, <2>1, <2>2, <2>3, <2>4, StopQuiet
<1>9. CASE ReportsFailed(s)
  <2>1. UNCHANGED <<up, skipped, stopRequested, preDocker>> /\ slot'[s] = NoJob
    BY <1>0, <1>9, FinishMoves DEF ReportsFailed, host, starts
  <2>2. status'[r] \in {status[r], "failed"}
    BY <1>0, <1>9 DEF ReportsFailed, ReportPreviewFailed, rows
  <2> QED
    BY <1>0, <1>b, <2>1, <2>2, StopQuiet
<1> QED
  BY <1>0, <1>1, <1>2, <1>3, <1>4, <1>5, <1>6, <1>7, <1>8, <1>9
  DEF SlotStep, JobStep, StartReplied, StartEnter, StartMaterialize, StartPorts, StartUnreserve,
      StartProceeds, StartCancelled, StartStageFails, StartReportsReady, At

\* What a slot does to the memory of the Worker it does for its own run.
LEMMA SlotStepMemory ==
  ASSUME HostTyped, NEW s \in Slots, SlotStep(s), slot[s].run \in Runs,
         NEW o \in Runs, o # slot[s].run
  PROVE  /\ o \in skipped' <=> o \in skipped
         /\ \A a \in BOOLEAN : preDocker'[<<o, a>>] = preDocker[<<o, a>>]
         /\ stopRequested' = stopRequested
<1>1. CASE Dispatch(s) \/ ReportsFailed(s) \/ StartEnter(s) \/ StartMaterialize(s)
  BY <1>1 DEF Dispatch, ReportsFailed, StartEnter, StartMaterialize, starts
<1>2. CASE StartReplied(s)
  BY <1>2 DEF StartReplied
<1>3. CASE StartPorts(s)
  <2>1. preDocker' = preDocker \/ preDocker' = [preDocker EXCEPT ![Execution(s)] = "incomplete"]
    BY <1>3 DEF StartPorts
  <2> QED
    BY <1>3, <2>1 DEF StartPorts, HostTyped, Execution
<1>4. CASE StartUnreserve(s)
  <2>1. preDocker' = preDocker \/ preDocker' = [preDocker EXCEPT ![Execution(s)] = "complete"]
    BY <1>4 DEF StartUnreserve
  <2> QED
    BY <1>4, <2>1 DEF StartUnreserve, HostTyped, Execution
<1>5. CASE StartProceeds(s) \/ StartCancelled(s) \/ StartStageFails(s) \/ StartReportsReady(s)
  BY <1>5 DEF StartProceeds, StartCancelled, StartStageFails, StartReportsReady, starts
<1>6. CASE StopReplied(s) \/ StopRoute(s) \/ StopSettled(s) \/ StopVerify(s)
  BY <1>6 DEF StopReplied, StopRoute, StopSettled, StopVerify, starts
<1>7. CASE StopDown(s) \/ StopRemove(s) \/ StopReportsStopped(s)
  BY <1>7 DEF StopDown, StopRemove, StopReportsStopped, starts
<1> QED
  BY <1>1, <1>2, <1>3, <1>4, <1>5, <1>6, <1>7 DEF SlotStep, JobStep

LEMMA SlotStepQuiet ==
  ASSUME "stall" \notin Faults, NoneAgain,
         SlotsTyped, RestTyped, HostTyped, OneJobEach, QuietInv,
         NEW s \in Slots, SlotStep(s)
  PROVE  QuietInv'
<1> SUFFICES ASSUME NEW o \in Runs PROVE Quiet(o)'
  BY DEF QuietInv
<1>0. /\ SlotMoves(s) /\ UNCHANGED <<req, queue, held>> /\ ReportsOf(s) /\ RunFits(o) /\ Quiet(o)
      /\ SlotFits(s) /\ slot[s].action \in {"start", "stop"} /\ slot[s].run \in Runs
  BY SlotStepMoves, SlotStepReports, AllSound
  DEF OneJobEach, QuietInv, SlotMoves, SlotsTyped, SlotsNameRuns
<1>1. CASE slot[s].run = o
  BY <1>0, <1>1, StartStepQuiet, StopStepQuiet DEF Works, IsFor, SlotMoves
<1>2. CASE slot[s].run # o
  <2>1. status'[o] = status[o]
    BY <1>0, <1>2 DEF ReportsOf, rows, ReportPreviewReady, ReportPreviewFailed,
       ReportPreviewStopped, RestTyped
  <2>2. /\ o \in skipped' => o \in skipped
        /\ (Cleared(o)' => Cleared(o)) /\ stopRequested' = stopRequested
        /\ o \in up' => o \in up
    BY <1>0, <1>2, SlotStepMemory, SlotStepHost DEF HostStill, Cleared
  <2>3. \A t \in Slots : \A a : (Works(t, a, o)' => Works(t, a, o) /\ slot'[t] = slot[t])
    BY <1>0, <1>2 DEF SlotMoves, SameJob, Works, IsFor, NoJob
  <2>4. \A t \in Slots : /\ InRuntime(t, o)' => InRuntime(t, o)
                         /\ AtEnter(t, o)' => AtEnter(t, o)
                         /\ Enters(t, o)' => Enters(t, o)
    BY <2>2, <2>3 DEF InRuntime, AtEnter, Enters, Execution
  <2>5. Pending("start", o)' => Pending("start", o)
    BY <1>0, SlotStepFollows DEF RunFits, Follows
  <2>6. BeforeDocker(o)' => BeforeDocker(o)
    BY <1>0, <2>3 DEF BeforeDocker, Asked, Asks, Listed, Lists
  <2>7. Worked("stop", o)' => Worked("stop", o)
    BY <2>3 DEF Worked
  <2>8. \A t \in Slots : Enters(t, o)' => Enters(t, o) /\ ~Worked("stop", o)'
    BY <1>0, <2>4, <2>7 DEF Quiet, EnteringIsUntold
  <2>9. \A t \in Slots : StopFindsNothing(t, o)'
    <3> SUFFICES ASSUME NEW t \in Slots, Works(t, "stop", o)' PROVE StopFindsNothing(t, o)'
      BY DEF StopFindsNothing
    <3> QED
      BY <1>0, <2>2, <2>3, <2>4, StopFindsStill DEF Quiet
  <2> QED
    BY <1>0, <2>1, <2>2, <2>4, <2>5, <2>6, <2>8, <2>9, QuietStill
<1> QED
  BY <1>1, <1>2

LEMMA TakeQuiet ==
  ASSUME NoneAgain, SlotsTyped, RestTyped, OneJobEach, QuietInv, NEW s \in Slots, Take(s)
  PROVE  QuietInv'
<1> SUFFICES ASSUME NEW o \in Runs PROVE Quiet(o)'
  BY DEF QuietInv
<1>0. /\ slot[s].pc = "free" /\ slot'[s].pc = "dispatch"
      /\ \A t \in Slots \ {s} : slot'[t] = slot[t]
      /\ slot'[s].action = Head(queue).action /\ slot'[s].run = Head(queue).run
      /\ UNCHANGED <<status, req, held, up, skipped, preDocker>>
      /\ queue # <<>> /\ queue' = Tail(queue) /\ queue \in Seq(Job)
      /\ stopRequested \subseteq stopRequested'
      /\ RunFits(o) /\ Quiet(o)
  BY TakenSlot, AllSound DEF rows, lost, host, RestTyped, QuietInv
<1>a. Head(queue).action = "stop" =>
        {Head(queue).run} \X Which(Registered(Head(queue).run)) \subseteq stopRequested'
  BY TakenSlot
<1>1. \A t \in Slots, a \in Actions : Works(t, a, o)' =>
        \/ t # s /\ Works(t, a, o) /\ slot'[t] = slot[t]
        \/ t = s /\ IsFor(Head(queue), a, o)
  BY <1>0 DEF Works, IsFor
<1>2. \A a \in Actions : /\ IsFor(Head(queue), a, o) => Listed(a, o)
                         /\ Listed(a, o)' => Listed(a, o)
  <2> SUFFICES ASSUME NEW a \in Actions
               PROVE  /\ IsFor(Head(queue), a, o) => Listed(a, o)
                      /\ Listed(a, o)' => Listed(a, o)
    OBVIOUS
  <2>1. ListedOnce(a, o)
    BY <1>0 DEF RunFits, Once, Actions
  <2> QED
    BY <1>0, <2>1, QueueTaken DEF QueueStill
<1>3. \A a \in Actions : Pending(a, o)' => Pending(a, o)
  BY <1>0, <1>1, <1>2 DEF Pending, Asked, Asks, Worked, Kept, Keeps
<1>4. \A t \in Slots : InRuntime(t, o)' => InRuntime(t, o)
  BY <1>0, <1>1 DEF InRuntime, Runtime, Actions
<1>5. \A t \in Slots : AtEnter(t, o)' => AtEnter(t, o)
  BY <1>0, <1>1 DEF AtEnter, Actions
<1>6. BeforeDocker(o)' => BeforeDocker(o)
  BY <1>0, <1>1, <1>2 DEF BeforeDocker, Asked, Asks, Actions
<1>7. ASSUME NEW t \in Slots, Enters(t, o)' PROVE Enters(t, o) /\ ~Worked("stop", o)'
  <2>1. t # s /\ Works(t, "start", o) /\ slot'[t] = slot[t]
    BY <1>0, <1>1, <1>7 DEF Enters, Actions
  <2>2. t \in Registered(o) /\ Execution(t) \notin stopRequested'
    BY <1>7, <2>1 DEF Registered, Starts, Works, IsFor, Enters, Execution, NoneAgain
  <2>b. Head(queue).action = "stop" => Head(queue).run # o
    BY <1>a, <2>1, <2>2 DEF Which, Execution, Works, IsFor
  <2>3. Enters(t, o) /\ ~IsFor(Head(queue), "stop", o)
    BY <1>0, <1>7, <2>1, <2>2, <2>b DEF Enters, IsFor
  <2>4. ~Worked("stop", o)
    BY <1>0, <2>3 DEF Quiet, EnteringIsUntold
  <2> QED
    BY <1>1, <2>3, <2>4 DEF Worked, Actions
<1>8. ASSUME NEW t \in Slots PROVE StopFindsNothing(t, o)'
  <2>1. CASE t = s
    BY <1>0, <2>1 DEF StopFindsNothing
  <2>2. CASE t # s
    BY <1>0, <1>4, <1>5, <2>2, StopFindsStill DEF Quiet
  <2> QED
    BY <2>1, <2>2
<1> QED
  BY <1>0, <1>3, <1>4, <1>6, <1>7, <1>8, QuietStill DEF Actions, Cleared

\* A request that has nothing to do with a start that is about to enter.
LEMMA RequestQuiet ==
  ASSUME NEW r, Quiet(r), UNCHANGED worker,
         Asked("start", r)' \/ Listed("start", r)' => Asked("start", r) \/ Listed("start", r),
         \A s \in Slots : Enters(s, r) =>
           /\ status'[r] \in {"starting", "stopping"}
           /\ \A k \in Clients : Asks(k, "stop", r)' => req'[k].seen = "starting",
         status'[r] \in {"unused", "deleted"} => status'[r] = status[r] \/ Asked("start", r),
         status'[r] = "stopped" => status[r] = "stopped"
  PROVE  Quiet(r)'
<1>0. UNCHANGED <<slot, stopRequested, skipped, preDocker, up, held>>
  BY DEF worker, starts, host, lost
<1>1. /\ \A s \in Slots : \A a : Works(s, a, r)' <=> Works(s, a, r)
      /\ \A s \in Slots : InRuntime(s, r)' <=> InRuntime(s, r)
      /\ \A s \in Slots : Enters(s, r)' <=> Enters(s, r)
      /\ Cleared(r)' <=> Cleared(r)
  BY <1>0 DEF Works, InRuntime, Enters, Execution, Cleared
<1>2. /\ \A a : Worked(a, r)' <=> Worked(a, r)
      /\ \A a : Kept(a, r)' <=> Kept(a, r)
  BY <1>0, <1>1 DEF Worked, Kept, Keeps
<1>3. BeforeDocker(r)' => BeforeDocker(r)
  BY <1>0, <1>1 DEF BeforeDocker
<1>4. Pending("start", r)' => Pending("start", r)
  BY <1>2 DEF Pending
<1>5. \A s \in Slots : EnteringIsUntold(s, r)'
  BY <1>1, <1>2 DEF Quiet, EnteringIsUntold
<1>6. \A t \in Slots : StopFindsNothing(t, r)'
  BY <1>0, <1>1 DEF Quiet, StopFindsNothing
<1>7. Asked("start", r) => r \notin up /\ r \notin skipped /\ ~Cleared(r)
  BY DEF Quiet, Pending, BeforeDocker
<1> QED
  BY <1>0, <1>1, <1>3, <1>4, <1>5, <1>6, <1>7 DEF Quiet

LEMMA InsertQuiet ==
  ASSUME NoneAgain, RequestsTyped, RestTyped, OneJobEach, QuietInv, NEW k \in Clients, InsertRun(k),
         UNCHANGED worker, OneJobEach'
  PROVE  QuietInv'
<1> SUFFICES ASSUME NEW o \in Runs PROVE Quiet(o)'
  BY DEF QuietInv
<1>1. PICK r \in Runs : InsertAs(k, r)
  BY DEF InsertRun, RequestsTyped, RequestsNameRuns
<1>2. /\ req \in [Clients -> Request] /\ status \in [Runs -> Status] /\ req[k] \in Request
      /\ req[k].pc = "insert" /\ req[k].op # "stop" /\ Quiet(o) /\ RunFits(o) /\ RunFits(o)'
      /\ queue' = queue
      /\ UNCHANGED <<slot, stopRequested, skipped, preDocker, up, held>>
  BY DEF RequestsTyped, RestTyped, InsertRun, OneJobEach, RequestFits, QuietInv, worker,
     starts, host, lost, NoneAgain, Sound
<1>3. req' \in {[req EXCEPT ![k].run = r, ![k].pc = "enqueue"], [req EXCEPT ![k] = Idle]}
  BY <1>1 DEF InsertAs
<1>4. \A l \in Clients : Asks(l, "stop", o)' => Asks(l, "stop", o) /\ req'[l] = req[l]
  <2>2. \A l \in Clients \ {k} : req'[l] = req[l]
    BY <1>2, <1>3
  <2>3. ~Asks(k, "stop", o)'
    BY <1>2, <1>3 DEF Asks, Idle, Request
  <2> QED
    BY <2>2, <2>3 DEF Asks
<1>5. CASE o = r /\ Insertable(r, req[k].comp, req[k].seq)
  <2>1. status'[o] = "starting" /\ status[o] \in {"unused", "deleted"}
    BY <1>1, <1>2, <1>5 DEF InsertAs, Insertable, Status
  <2>2. \A s \in Slots : ~Works(s, "start", o) /\ ~Works(s, "stop", o)
    BY <1>2, <2>1 DEF RunFits, StatusFits, Pending, Worked
  <2>3. \A s \in Slots : ~Works(s, "start", o)' /\ ~Works(s, "stop", o)'
    BY <1>2, <2>2 DEF Works
  <2>4. r \notin up /\ r \notin skipped /\ ~Cleared(r)
    BY <1>2, <1>5, <2>1 DEF Quiet
  <2> QED
    BY <1>2, <1>5, <2>1, <2>3, <2>4 DEF Quiet, EnteringIsUntold, Enters, StopFindsNothing, Cleared
<1>6. CASE ~(o = r /\ Insertable(r, req[k].comp, req[k].seq))
  <2>1. status'[o] = status[o]
    BY <1>1, <1>2, <1>6 DEF InsertAs, rows
  <2>2. \A l \in Clients : Asks(l, "start", o)' => Asks(l, "start", o)
    <3>1. CASE Insertable(r, req[k].comp, req[k].seq)
      <4>1. req' = [req EXCEPT ![k].run = r, ![k].pc = "enqueue"] /\ o # r
        BY <1>1, <1>6, <3>1 DEF InsertAs
      <4>2. req'[k].run = r /\ \A l \in Clients \ {k} : req'[l] = req[l]
        BY <1>2, <4>1 DEF Request
      <4> QED
        BY <4>1, <4>2 DEF Asks
    <3>2. CASE ~Insertable(r, req[k].comp, req[k].seq)
      <4>1. req' = [req EXCEPT ![k] = Idle]
        BY <1>1, <3>2 DEF InsertAs
      <4> QED
        BY <1>2, <4>1 DEF Asks, Idle
    <3> QED
      BY <3>1, <3>2
  <2>3. Asked("start", o)' \/ Listed("start", o)' => Asked("start", o) \/ Listed("start", o)
    BY <1>2, <2>2 DEF Asked, Listed, Lists
  <2>4. \A s \in Slots : Enters(s, o) =>
           /\ status'[o] \in {"starting", "stopping"}
           /\ \A l \in Clients : Asks(l, "stop", o)' => req'[l].seen = "starting"
    BY <1>2, <1>4, <2>1 DEF Quiet, EnteringIsUntold
  <2> QED
    BY <1>2, <2>1, <2>3, <2>4, RequestQuiet
<1> QED
  BY <1>5, <1>6

LEMMA ControlPlaneQuiet ==
  ASSUME "ack" \notin Faults, NoneAgain,
         RequestsTyped, RestTyped, OneJobEach, OneJobEach', QuietInv,
         ControlPlaneNext, UNCHANGED worker
  PROVE  QuietInv'
<1>0. /\ req \in [Clients -> Request] /\ status \in [Runs -> Status] /\ queue \in Seq(Job)
      /\ \A o \in Runs : Quiet(o) /\ RunFits(o)
  BY AllSound DEF RequestsTyped, RestTyped, QuietInv
<1>1. ASSUME UNCHANGED status,
             \A o \in Runs : \A k \in Clients : Asks(k, "stop", o)' =>
               Asks(k, "stop", o) /\ req'[k].seen = req[k].seen,
             \A o \in Runs : Asked("start", o)' \/ Listed("start", o)' =>
               Asked("start", o) \/ Listed("start", o)
      PROVE  QuietInv'
  <2> SUFFICES ASSUME NEW o \in Runs PROVE Quiet(o)'
    BY DEF QuietInv
  <2>1. \A s \in Slots : Enters(s, o) =>
           /\ status'[o] \in {"starting", "stopping"}
           /\ \A k \in Clients : Asks(k, "stop", o)' => req'[k].seen = "starting"
    BY <1>0, <1>1 DEF Quiet, EnteringIsUntold
  <2> QED
    BY <1>0, <1>1, <2>1, RequestQuiet
<1>2. ASSUME NEW k \in Clients, NEW q, req' = [req EXCEPT ![k] = q],
             q.pc \notin {"enqueue", "undo"}, UNCHANGED <<status, queue>>
      PROVE  QuietInv'
  <2>1. \A o \in Runs, l \in Clients : \A a : Asks(l, a, o)' => Asks(l, a, o) /\ req'[l] = req[l]
    BY <1>0, <1>2 DEF Asks
  <2> QED
    BY <1>1, <1>2, <2>1 DEF Asked, Listed, Lists
<1>4. ASSUME NEW k \in Clients, NEW c \in Compilations, CreateRead(k, c)
      PROVE  QuietInv'
  <2> DEFINE q == [Idle EXCEPT !.op = "create", !.pc = "count", !.comp = c]
  <2>1. q.pc = "count" /\ req' = [req EXCEPT ![k] = q] /\ UNCHANGED <<status, queue>>
    BY <1>4 DEF CreateRead, Idle, rows
  <2> HIDE DEF q
  <2> QED
    BY <1>2, <2>1
<1>5. ASSUME NEW k \in Clients, NEW c \in Compilations, NEW r \in Runs, AcceptRead(k, c, r)
      PROVE  QuietInv'
  <2> DEFINE q == [Idle EXCEPT !.op = "accept", !.pc = "count", !.comp = c, !.run = r]
  <2>1. q.pc = "count" /\ req' = [req EXCEPT ![k] = q] /\ UNCHANGED <<status, queue>>
    BY <1>5 DEF AcceptRead, Idle, rows
  <2> HIDE DEF q
  <2> QED
    BY <1>2, <2>1
<1>6. ASSUME NEW k \in Clients, NEW r \in Runs, StopRead(k, r)
      PROVE  QuietInv'
  <2> DEFINE q == [Idle EXCEPT !.op = "stop", !.pc = "cas", !.run = r, !.seen = status[r]]
  <2>1. q.pc = "cas" /\ req' = [req EXCEPT ![k] = q] /\ UNCHANGED <<status, queue>>
    BY <1>6 DEF StopRead, Idle, rows
  <2> HIDE DEF q
  <2> QED
    BY <1>2, <2>1
<1>7. ASSUME NEW k \in Clients, CountRuns(k)
      PROVE  QuietInv'
  <2> DEFINE n == Cardinality(RowsOf(req[k].comp)) + 1
             q == [req[k] EXCEPT !.pc = "insert", !.seq = n]
  <2>1. q.pc = "insert"
    BY <1>0 DEF Request
  <2>2. req' = [req EXCEPT ![k] = q] /\ UNCHANGED <<status, queue>>
    BY <1>0, <1>7 DEF CountRuns, rows
  <2> HIDE DEF q
  <2> QED
    BY <1>2, <2>1, <2>2
<1>8. ASSUME NEW k \in Clients, StopTransition(k)
      PROVE  QuietInv'
  <2>1. CASE status[req[k].run] # req[k].seen
    <3>1. req' = [req EXCEPT ![k] = Idle] /\ UNCHANGED <<status, queue>>
      BY <1>8, <2>1 DEF StopTransition
    <3> QED
      BY <1>2, <3>1 DEF Idle
  <2>2. CASE status[req[k].run] = req[k].seen
    <3> SUFFICES ASSUME NEW o \in Runs PROVE Quiet(o)'
      BY DEF QuietInv
    <3>0. PICK r \in Runs : r = req[k].run
      BY <1>8 DEF StopTransition, RequestsTyped, RequestsNameRuns
    <3>1. /\ req' = [req EXCEPT ![k].pc = "enqueue"] /\ status' = [status EXCEPT ![r] = "stopping"]
          /\ UNCHANGED queue
      BY <1>8, <2>2, <3>0 DEF StopTransition
    <3>2. /\ req'[k].run = r /\ req'[k].seen = status[r] /\ req'[k].op = "stop"
          /\ status[r] \in {"starting", "ready", "failed"}
          /\ \A l \in Clients \ {k} : req'[l] = req[l]
      BY <1>0, <1>8, <2>2, <3>0, <3>1 DEF Request, StopTransition, RequestsTyped,
         RequestsNameRuns, OneJobEach, RequestFits
    <3>3. \A l \in Clients : Asks(l, "start", o)' => Asks(l, "start", o)
      BY <3>2 DEF Asks
    <3>4. \A l \in Clients : Asks(l, "stop", o)' => (l = k /\ o = r) \/ (Asks(l, "stop", o) /\ req'[l] = req[l])
      BY <3>2 DEF Asks
    <3>5. status'[o] = IF o = r THEN "stopping" ELSE status[o]
      BY <1>0, <3>1
    <3>6. \A s \in Slots : Enters(s, o) =>
             /\ status'[o] \in {"starting", "stopping"}
             /\ \A l \in Clients : Asks(l, "stop", o)' => req'[l].seen = "starting"
      BY <1>0, <3>2, <3>4, <3>5 DEF Quiet, EnteringIsUntold
    <3> QED
      BY <1>0, <3>1, <3>3, <3>5, <3>6, RequestQuiet DEF Asked, Listed, Lists
  <2> QED
    BY <2>1, <2>2
<1>9. ASSUME NEW k \in Clients, Enqueue(k)
      PROVE  QuietInv'
  <2> DEFINE j == JobOf(k)
  <2>1. /\ req[k].pc = "enqueue" /\ queue' = Append(queue, j) /\ req' = [req EXCEPT ![k] = Idle]
        /\ UNCHANGED status
    BY <1>9 DEF Enqueue, rows
  <2>2. \A o \in Runs : IsFor(j, "start", o) => Asks(k, "start", o)
    BY <2>1 DEF IsFor, JobOf, Asks
  <2> HIDE DEF j
  <2>3. \A o \in Runs : Listed("start", o)' => Listed("start", o) \/ IsFor(j, "start", o)
    BY <1>0, <2>1 DEF Listed, Lists
  <2>4. \A o \in Runs, l \in Clients : \A a : Asks(l, a, o)' => Asks(l, a, o) /\ req'[l] = req[l]
    BY <1>0, <2>1 DEF Asks, Idle
  <2> QED
    BY <1>1, <2>1, <2>2, <2>3, <2>4 DEF Asked
<1>10. ASSUME NEW k \in Clients, EnqueueRaises(k)
      PROVE  QuietInv'
  <2>1. /\ req' = [req EXCEPT ![k].pc = "undo"] /\ UNCHANGED <<status, queue>>
        /\ req[k].pc = "enqueue"
    BY <1>10 DEF EnqueueRaises, Fault, rows
  <2>2. /\ req'[k].run = req[k].run /\ req'[k].seen = req[k].seen /\ req'[k].op = req[k].op
        /\ \A l \in Clients \ {k} : req'[l] = req[l]
    BY <1>0, <2>1 DEF Request
  <2>3. \A o \in Runs, l \in Clients : \A a : Asks(l, a, o)' =>
          Asks(l, a, o) /\ req'[l].seen = req[l].seen
    BY <2>1, <2>2 DEF Asks
  <2> QED
    BY <1>1, <2>1, <2>3 DEF Asked, Listed, Lists
<1>11. ASSUME NEW k \in Clients, UndoCreate(k) \/ UndoAccept(k) \/ UndoStop(k)
      PROVE  QuietInv'
  <2> SUFFICES ASSUME NEW o \in Runs PROVE Quiet(o)'
    BY DEF QuietInv
  <2>0. PICK r \in Runs : r = req[k].run
    BY <1>11 DEF UndoCreate, UndoAccept, UndoStop, RequestsTyped, RequestsNameRuns
  <2>1. req' = [req EXCEPT ![k] = Idle] /\ req[k].pc = "undo" /\ UNCHANGED queue
    BY <1>11 DEF UndoCreate, UndoAccept, UndoStop
  <2>2. \A l \in Clients : \A a : Asks(l, a, o)' => Asks(l, a, o) /\ l # k /\ req'[l] = req[l]
    BY <1>0, <2>1 DEF Asks, Idle
  <2>3. Asked("start", o)' \/ Listed("start", o)' => Asked("start", o) \/ Listed("start", o)
    BY <2>1, <2>2 DEF Asked, Listed, Lists
  <2>4. CASE status'[o] = status[o]
    <3>1. \A s \in Slots : Enters(s, o) =>
             /\ status'[o] \in {"starting", "stopping"}
             /\ \A l \in Clients : Asks(l, "stop", o)' => req'[l].seen = "starting"
      BY <1>0, <2>2, <2>4 DEF Quiet, EnteringIsUntold
    <3> QED
      BY <1>0, <2>3, <2>4, <3>1, RequestQuiet
  <2>5. CASE UndoStop(k) /\ status'[o] # status[o]
    <3>1. o = r /\ status'[o] = req[k].seen /\ Asks(k, "stop", o) /\ req[k].op = "stop"
      BY <1>0, <2>0, <2>5 DEF UndoStop, Asks
    <3>2. status'[o] \in {"starting", "ready", "failed"}
      BY <3>1 DEF OneJobEach, RequestFits
    <3>3. \A l \in Clients : ~Asks(l, "stop", o)'
      BY <1>0, <2>2, <3>1 DEF RunFits, Once, AskedOnce
    <3>4. \A s \in Slots : Enters(s, o) => status'[o] = "starting"
      BY <1>0, <3>1 DEF Quiet, EnteringIsUntold
    <3> QED
      BY <1>0, <2>3, <3>2, <3>3, <3>4, RequestQuiet
  <2>6. CASE (UndoCreate(k) \/ UndoAccept(k)) /\ status'[o] # status[o]
    <3>1. o = r /\ status'[o] \in {"deleted", "failed"} /\ Asks(k, "start", o)
      BY <1>0, <2>0, <2>6 DEF UndoCreate, UndoAccept, Asks
    <3>2. Asked("start", o) /\ \A s \in Slots : ~Enters(s, o)
      BY <1>0, <3>1 DEF Asked, RunFits, Once, InOnePlace, Worked, Enters
    <3> QED
      BY <1>0, <2>3, <3>1, <3>2, RequestQuiet
  <2> QED
    BY <1>11, <2>4, <2>5, <2>6
<1>12. CASE ControlPlaneRestart
  <2>1. UNCHANGED <<status, queue>> /\ \A o \in Runs, k \in Clients : \A a : ~Asks(k, a, o)'
    BY <1>12 DEF ControlPlaneRestart, Asks, Idle, rows
  <2> QED
    BY <1>1, <2>1 DEF Asked, Listed, Lists
<1> QED
  BY <1>4, <1>5, <1>6, <1>7, <1>8, <1>9, <1>10, <1>11, <1>12, InsertQuiet
  DEF ControlPlaneNext, RequestStep

-----------------------------------------------------------------------------
(***************************************************************************)
(* What is stopped is quiet: the theorem.  No job is given out again,      *)
(* because no Worker dies and none that lives loses a lock.                *)
(***************************************************************************)
SteadyWorker == Faults \cap {"ack", "stall", "restart", "block"} = {}

QuietSystem == NoneAgain /\ QuietInv

LEMMA QueueGrows ==
  ASSUME ControlPlaneNext
  PROVE  queue' = queue \/ \E k \in Clients : queue' = Append(queue, JobOf(k))
<1>1. ASSUME NEW k \in Clients, RequestStep(k)
      PROVE  queue' = queue \/ queue' = Append(queue, JobOf(k))
  <2>1. CASE CountRuns(k) \/ InsertRun(k) \/ StopTransition(k)
    BY <2>1 DEF CountRuns, InsertRun, StopTransition
  <2>2. CASE Enqueue(k) \/ EnqueueRaises(k)
    BY <2>2 DEF Enqueue, EnqueueRaises
  <2>3. CASE UndoCreate(k) \/ UndoAccept(k) \/ UndoStop(k)
    BY <2>3 DEF UndoCreate, UndoAccept, UndoStop
  <2> QED
    BY <1>1, <2>1, <2>2, <2>3 DEF RequestStep
<1>2. \A k \in Clients, c \in Compilations : CreateRead(k, c) => queue' = queue
  BY DEF CreateRead
<1>3. \A k \in Clients, c \in Compilations, r \in Runs : AcceptRead(k, c, r) => queue' = queue
  BY DEF AcceptRead
<1>4. \A k \in Clients, r \in Runs : StopRead(k, r) => queue' = queue
  BY DEF StopRead
<1>5. ControlPlaneRestart => queue' = queue
  BY DEF ControlPlaneRestart
<1> QED
  BY <1>1, <1>2, <1>3, <1>4, <1>5 DEF ControlPlaneNext

LEMMA StepNoneAgain ==
  ASSUME SteadyWorker, RestTyped, SlotsTyped, NoneAgain, [Next]_vars
  PROVE  NoneAgain'
<1>0. /\ "restart" \notin Faults /\ "block" \notin Faults /\ held = {} /\ queue \in Seq(Job)
  BY DEF SteadyWorker, RestTyped, NoneAgain
<1>1. CASE ControlPlaneNext /\ UNCHANGED worker
  <2>1. \A k \in Clients : JobOf(k).again = FALSE
    BY DEF JobOf
  <2>2. \A n \in DOMAIN queue' : ~queue'[n].again
    BY <1>0, <1>1, <2>1, QueueGrows DEF NoneAgain
  <2> QED
    BY <1>1, <2>2 DEF NoneAgain, worker, starts, lost
<1>2. ASSUME NEW s \in Slots, Take(s) PROVE NoneAgain'
  <2>1. queue # <<>> /\ queue' = Tail(queue) /\ Head(queue).again = FALSE /\ Head(queue) = queue[1]
    BY <1>0, <1>2, TakenSlot DEF NoneAgain, Job
  <2>2. \A n \in DOMAIN queue' : ~queue'[n].again
    BY <1>0, <2>1 DEF NoneAgain
  <2>3. \A t \in Slots : slot'[t].again = FALSE
    BY <1>2, <2>1, TakenSlot DEF NoneAgain
  <2>4. UNCHANGED <<held, overlapped, replaced>>
    BY <1>2, <2>1 DEF Take, lost
  <2> QED
    BY <2>2, <2>3, <2>4 DEF NoneAgain
<1>3. ASSUME NEW s \in Slots, SlotStep(s) PROVE NoneAgain'
  <2>1. SlotMoves(s) /\ UNCHANGED <<queue, held, overlapped>>
    BY <1>3, SlotStepMoves
  <2>2. \A t \in Slots : slot'[t].again = FALSE
    BY <2>1 DEF SlotMoves, SameJob, NoJob, NoneAgain
  <2>3. UNCHANGED replaced
    BY <1>3 DEF SlotStep, JobStep, Dispatch, ReportsFailed, StartReplied, StartEnter,
       StartMaterialize, StartPorts, StartUnreserve, StartProceeds, StartCancelled,
       StartStageFails, StartReportsReady, StopReplied, StopRoute, StopSettled, StopVerify,
       StopDown, StopRemove, StopReportsStopped, starts
  <2> QED
    BY <2>1, <2>2, <2>3 DEF NoneAgain
<1>4. CASE UNCHANGED vars
  BY <1>4 DEF NoneAgain, vars, controlPlane, worker, starts, lost
<1> QED
  BY <1>0, <1>1, <1>2, <1>3, <1>4 DEF Next, WorkerRestart, LockLost, Fault

LEMMA StepQuiet ==
  ASSUME SteadyWorker, LeaseInv, OneJobEach, OneJobEach', QuietSystem, [Next]_vars
  PROVE  QuietSystem'
<1>0. /\ "ack" \notin Faults /\ "stall" \notin Faults
      /\ "restart" \notin Faults /\ "block" \notin Faults
      /\ RequestsTyped /\ RestTyped /\ SlotsTyped /\ HostTyped /\ NoneAgain /\ QuietInv
  BY TypedParts DEF SteadyWorker, LeaseInv, QuietSystem
<1>a. NoneAgain'
  BY <1>0, StepNoneAgain
<1>1. CASE ControlPlaneNext /\ UNCHANGED worker
  BY <1>0, <1>a, <1>1, ControlPlaneQuiet DEF QuietSystem
<1>2. ASSUME NEW s \in Slots, Take(s) PROVE QuietSystem'
  BY <1>0, <1>a, <1>2, TakeQuiet DEF QuietSystem
<1>3. ASSUME NEW s \in Slots, SlotStep(s) PROVE QuietSystem'
  BY <1>0, <1>a, <1>3, SlotStepQuiet DEF QuietSystem
<1>4. CASE UNCHANGED vars
  <2>1. UNCHANGED <<req, queue, status, slot, held, up, skipped, preDocker, stopRequested>>
    BY <1>4 DEF vars, controlPlane, rows, worker, starts, host, lost
  <2>2. ASSUME NEW r \in Runs PROVE Quiet(r)'
    <3>1. /\ \A s \in Slots : \A a : Works(s, a, r)' <=> Works(s, a, r)
          /\ \A s \in Slots : InRuntime(s, r)' <=> InRuntime(s, r)
          /\ \A s \in Slots : Enters(s, r)' <=> Enters(s, r)
          /\ \A k \in Clients : \A a : Asks(k, a, r)' <=> Asks(k, a, r)
          /\ Cleared(r)' <=> Cleared(r)
      BY <2>1 DEF Works, InRuntime, Enters, Execution, Cleared, Asks
    <3>2. /\ \A a : Worked(a, r)' <=> Worked(a, r)
          /\ \A a : Asked(a, r)' <=> Asked(a, r)
          /\ \A a : Listed(a, r)' <=> Listed(a, r)
          /\ \A a : Kept(a, r)' <=> Kept(a, r)
      BY <2>1, <3>1 DEF Worked, Asked, Listed, Lists, Kept, Keeps
    <3>3. /\ BeforeDocker(r)' <=> BeforeDocker(r)
          /\ \A a : Pending(a, r)' <=> Pending(a, r)
      BY <2>1, <3>1, <3>2 DEF BeforeDocker, Pending
    <3>4. \A s \in Slots : EnteringIsUntold(s, r)' /\ StopFindsNothing(s, r)'
      BY <1>0, <2>1, <3>1, <3>2 DEF QuietInv, Quiet, EnteringIsUntold, StopFindsNothing
    <3> QED
      BY <1>0, <2>1, <3>1, <3>3, <3>4 DEF QuietInv, Quiet
  <2> QED
    BY <1>a, <2>2 DEF QuietSystem, QuietInv
<1>5. \A job \in held : FALSE
  BY <1>0 DEF NoneAgain
<1> QED
  BY <1>0, <1>1, <1>2, <1>3, <1>4, <1>5 DEF Next, WorkerRestart, LockLost, Fault

LEMMA InitQuiet == Init => QuietSystem
<1> SUFFICES ASSUME Init, NEW r \in Runs PROVE Quiet(r)
  BY DEF QuietSystem, QuietInv, NoneAgain, NoJob, Init, ControlPlaneInit
<1>1. /\ \A s \in Slots : slot[s].pc = "free"
      /\ \A k \in Clients : req[k].pc = "idle"
      /\ queue = <<>> /\ held = {} /\ up = {} /\ skipped = {} /\ ~Cleared(r)
      /\ status[r] = "unused"
  BY DEF Init, ControlPlaneInit, NoJob, Idle, Cleared
<1>2. \A s \in Slots : \A a : ~Works(s, a, r)
  BY <1>1 DEF Works
<1>3. ~Asked("start", r) /\ ~Listed("start", r)
  BY <1>1 DEF Asked, Asks, Listed
<1> QED
  BY <1>1, <1>2, <1>3 DEF Quiet, EnteringIsUntold, Enters, StopFindsNothing, BeforeDocker

LEMMA QuietInvariant ==
  ASSUME SteadyWorker
  PROVE  Spec => [](LeaseInv /\ QuietSystem)
<1>0. "ack" \notin Faults
  BY DEF SteadyWorker
<1>1. Init => LeaseInv /\ OneJobEach /\ QuietSystem
  BY InitLease, InitOneJob, InitQuiet
<1>2. LeaseInv /\ OneJobEach /\ QuietSystem /\ [Next]_vars =>
        LeaseInv' /\ OneJobEach' /\ QuietSystem'
  BY <1>0, StepLease, StepOneJob, StepQuiet
<1> QED
  BY <1>1, <1>2, PTL DEF Spec

(* A stopped run has no containers, and no start of it can bring up any:   *)
(* the evidence that AcceptsStopped takes is true and stays true.          *)
THEOREM StoppedRunsAreQuiet ==
  ASSUME SteadyWorker
  PROVE  Spec => []StoppedIsQuiet
<1>1. QuietSystem => StoppedIsQuiet
  BY DEF QuietSystem, QuietInv, Quiet, StoppedIsQuiet, InRuntime, Works, IsFor, Runtime
<1> QED
  BY <1>1, QuietInvariant, PTL

(* Whatever run has containers, the unique activeKey of its compilation is *)
(* its own: no other run can be started until a stop has taken them down.  *)
THEOREM ContainersHoldTheKey ==
  ASSUME SteadyWorker
  PROVE  Spec => []RuntimeHoldsKey
<1>1. LeaseInv /\ QuietSystem => RuntimeHoldsKey
  <2> SUFFICES ASSUME LeaseInv, QuietSystem, NEW r \in up PROVE activeKey[r] # None
    BY DEF RuntimeHoldsKey
  <2>1. r \in Runs /\ status \in [Runs -> Status] /\ Quiet(r)
    BY DEF LeaseInv, Typed, TypeOK, ControlPlaneTypeOK, QuietSystem, QuietInv
  <2>2. status[r] \in LiveStatus
    BY <2>1 DEF Quiet, Status, RowStatus, LiveStatus
  <2> QED
    BY <2>1, <2>2, PreviewAssumption DEF LeaseInv, Keyed, LiveRunsHaveCompilation, KeyMarksLiveRun
<1> QED
  BY <1>1, QuietInvariant, PTL

-----------------------------------------------------------------------------
(***************************************************************************)
(* A run that gave its lease up is not started again: neither a create,    *)
(* which makes an identity up, nor a caller names it.                      *)
(***************************************************************************)
Naming(q) == q.op = "accept" /\ q.pc \in {"count", "insert"}
Making(q) == q.op = "create" /\ q.pc \in {"enqueue", "undo"}

NamedIsNew ==
  \A k \in Clients : Naming(req[k]) =>
    /\ status[req[k].run] # "deleted"
    /\ \A l \in Clients : Making(req[l]) => req[l].run # req[k].run

LEMMA NamedStill ==
  ASSUME RequestsTyped, NamedIsNew, UNCHANGED req,
         \A r \in Runs : status'[r] = "deleted" => status[r] = "deleted"
  PROVE  NamedIsNew'
  BY DEF NamedIsNew, Naming, RequestsTyped, RequestsNameRuns

LEMMA NamedGoesOn ==
  ASSUME NoneAgain, RequestsTyped, OneJobEach, NamedIsNew, NEW k \in Clients, NEW q,
         req' = [req EXCEPT ![k] = q],
         Naming(q) => \/ Naming(req[k]) /\ req[k].run = q.run
                      \/ q.run \in Runs /\ status[q.run] = "unused",
         Making(q) => \/ Making(req[k]) /\ req[k].run = q.run
                      \/ \A l \in Clients : req[l].run # q.run,
         \A r \in Runs : status'[r] = "deleted" =>
           status[r] = "deleted" \/ (Making(req[k]) /\ ~Making(q) /\ ~Naming(q) /\ req[k].run = r)
  PROVE  NamedIsNew'
<1>0. /\ req \in [Clients -> Request] /\ req'[k] = q
      /\ \A l \in Clients \ {k} : req'[l] = req[l]
  BY DEF RequestsTyped
<1>1. \A i \in Clients : Naming(req[i]) =>
        /\ status[req[i].run] # "deleted"
        /\ \A l \in Clients : Making(req[l]) => req[l].run # req[i].run
  BY DEF NamedIsNew, Naming, Making
<1>2. ASSUME NEW r \in Runs, status[r] = "unused", NEW l \in Clients, Making(req[l])
      PROVE  req[l].run # r
  BY <1>2, AllSound DEF RunFits, StatusFits, Pending, Asked, Asks, Making
<1>3. \A i \in Clients : Naming(req[i]) => req[i].run \in Runs
  BY DEF Naming, RequestsTyped, RequestsNameRuns
<1> SUFFICES ASSUME NEW i \in Clients, Naming(req'[i])
             PROVE  /\ status'[req'[i].run] # "deleted"
                    /\ \A l \in Clients : Making(req'[l]) => req'[l].run # req'[i].run
  BY DEF NamedIsNew, Naming, Making
<1>4. CASE i # k
  <2>1. req'[i] = req[i] /\ Naming(req[i]) /\ req[i].run \in Runs
    BY <1>0, <1>3, <1>4
  <2>2. status'[req[i].run] # "deleted"
    BY <1>1, <2>1
  <2>3. ASSUME NEW l \in Clients, Making(req'[l]) PROVE req'[l].run # req[i].run
    BY <1>0, <1>1, <2>1, <2>3
  <2> QED
    BY <2>1, <2>2, <2>3
<1>5. CASE i = k
  <2>1. ~Making(q) /\ Naming(q) /\ req'[i] = q
    BY <1>0, <1>5 DEF Naming, Making
  <2>2. \A l \in Clients : Making(req'[l]) => l # k /\ Making(req[l]) /\ req'[l] = req[l]
    BY <1>0, <2>1
  <2>3. CASE Naming(req[k]) /\ req[k].run = q.run
    <3>1. ~Making(req[k]) /\ q.run \in Runs /\ status[q.run] # "deleted"
      BY <1>1, <1>3, <2>3 DEF Naming, Making
    <3>2. status'[q.run] # "deleted"
      BY <3>1
    <3> QED
      BY <1>1, <2>1, <2>2, <2>3, <3>2
  <2>4. CASE q.run \in Runs /\ status[q.run] = "unused"
    <3>1. status'[q.run] # "deleted"
      BY <2>1, <2>4
    <3> QED
      BY <1>2, <2>1, <2>2, <2>4, <3>1
  <2> QED
    BY <2>1, <2>3, <2>4
<1> QED
  BY <1>4, <1>5

LEMMA RequestsNamed ==
  ASSUME NoneAgain, RequestsTyped, RestTyped, OneJobEach, NamedIsNew, ControlPlaneNext
  PROVE  NamedIsNew'
<1>0. /\ req \in [Clients -> Request] /\ status \in [Runs -> Status]
      /\ \A k \in Clients : Naming(req[k]) => req[k].run \in Runs
  BY DEF RequestsTyped, RequestsNameRuns, RestTyped, Naming
<1>1. ASSUME NEW k \in Clients, NEW q, req' = [req EXCEPT ![k] = q], ~Naming(q),
             Making(q) => Making(req[k]) /\ req[k].run = q.run,
             \A r \in Runs : status'[r] = "deleted" => status[r] = "deleted"
      PROVE  NamedIsNew'
  BY <1>1, NamedGoesOn
<1>2. ASSUME NEW k \in Clients, NEW c \in Compilations, CreateRead(k, c)
      PROVE  NamedIsNew'
  <2> DEFINE q == [Idle EXCEPT !.op = "create", !.pc = "count", !.comp = c]
  <2>1. ~Naming(q) /\ ~Making(q) /\ req' = [req EXCEPT ![k] = q] /\ UNCHANGED status
    BY <1>2 DEF CreateRead, Idle, Naming, Making, rows
  <2> HIDE DEF q
  <2> QED
    BY <1>1, <2>1
<1>3. ASSUME NEW k \in Clients, NEW c \in Compilations, NEW r \in Runs, AcceptRead(k, c, r)
      PROVE  NamedIsNew'
  <2> DEFINE q == [Idle EXCEPT !.op = "accept", !.pc = "count", !.comp = c, !.run = r]
  <2>1. q.run = r /\ ~Making(q) /\ req' = [req EXCEPT ![k] = q] /\ UNCHANGED status
    BY <1>3 DEF AcceptRead, Idle, Making, rows
  <2>2. status[r] = "unused"
    BY <1>3 DEF AcceptRead
  <2> HIDE DEF q
  <2> QED
    BY <2>1, <2>2, NamedGoesOn
<1>4. ASSUME NEW k \in Clients, NEW r \in Runs, StopRead(k, r)
      PROVE  NamedIsNew'
  <2> DEFINE q == [Idle EXCEPT !.op = "stop", !.pc = "cas", !.run = r, !.seen = status[r]]
  <2>1. ~Naming(q) /\ ~Making(q) /\ req' = [req EXCEPT ![k] = q] /\ UNCHANGED status
    BY <1>4 DEF StopRead, Idle, Naming, Making, rows
  <2> HIDE DEF q
  <2> QED
    BY <1>1, <2>1
<1>5. ASSUME NEW k \in Clients, CountRuns(k)
      PROVE  NamedIsNew'
  <2> DEFINE n == Cardinality(RowsOf(req[k].comp)) + 1
             q == [req[k] EXCEPT !.pc = "insert", !.seq = n]
  <2>1. q.op = req[k].op /\ q.run = req[k].run /\ q.pc = "insert" /\ req[k].pc = "count"
    BY <1>0, <1>5 DEF Request, CountRuns
  <2>2. req' = [req EXCEPT ![k] = q] /\ UNCHANGED status
    BY <1>0, <1>5 DEF CountRuns, rows
  <2> HIDE DEF q
  <2> QED
    BY <2>1, <2>2, NamedGoesOn DEF Naming, Making
<1>6. ASSUME NEW k \in Clients, req' = [req EXCEPT ![k] = Idle],
             \A r \in Runs : status'[r] = "deleted" =>
               status[r] = "deleted" \/ (Making(req[k]) /\ req[k].run = r)
      PROVE  NamedIsNew'
  <2>1. ~Naming(Idle) /\ ~Making(Idle)
    BY DEF Idle, Naming, Making
  <2> QED
    BY <1>6, <2>1, NamedGoesOn
<1>7. ASSUME NEW k \in Clients, InsertRun(k)
      PROVE  NamedIsNew'
  <2>1. PICK r \in Runs : InsertAs(k, r) /\ (req[k].op # "accept" => Fresh(r))
    BY <1>7 DEF InsertRun, RequestsTyped, RequestsNameRuns
  <2>2. \A o \in Runs : status'[o] = "deleted" => status[o] = "deleted"
    BY <1>0, <2>1 DEF InsertAs, rows
  <2> DEFINE q == [req[k] EXCEPT !.run = r, !.pc = "enqueue"]
  <2>3. q.pc = "enqueue" /\ q.op = req[k].op /\ q.run = r
    BY <1>0 DEF Request
  <2>4. req' = [req EXCEPT ![k] = q] \/ req' = [req EXCEPT ![k] = Idle]
    BY <1>0, <2>1 DEF InsertAs
  <2>5. ~Naming(q) /\ (Making(q) => \A l \in Clients : req[l].run # q.run)
    BY <2>1, <2>3 DEF Naming, Making, Fresh
  <2> HIDE DEF q
  <2>6. CASE req' = [req EXCEPT ![k] = q]
    BY <2>2, <2>5, <2>6, NamedGoesOn
  <2> QED
    BY <1>6, <2>2, <2>4, <2>6
<1>8. ASSUME NEW k \in Clients, StopTransition(k)
      PROVE  NamedIsNew'
  <2>0. PICK r \in Runs : r = req[k].run
    BY <1>8 DEF StopTransition, RequestsTyped, RequestsNameRuns
  <2> DEFINE q == [req[k] EXCEPT !.pc = "enqueue"]
  <2>1. q.pc = "enqueue" /\ q.op = "stop"
    BY <1>0, <1>8 DEF Request, StopTransition, RequestsTyped, RequestsNameRuns
  <2>2. req' = [req EXCEPT ![k] = q] \/ req' = [req EXCEPT ![k] = Idle]
    BY <1>0, <1>8 DEF StopTransition
  <2>3. status' = status \/ status' = [status EXCEPT ![r] = "stopping"]
    BY <1>8, <2>0 DEF StopTransition
  <2>4. \A o \in Runs : status'[o] = "deleted" => status[o] = "deleted"
    BY <1>0, <2>3
  <2>5. ~Naming(q) /\ ~Making(q)
    BY <2>1 DEF Naming, Making
  <2> HIDE DEF q
  <2> QED
    BY <1>1, <1>6, <2>2, <2>4, <2>5
<1>9. ASSUME NEW k \in Clients, Enqueue(k)
      PROVE  NamedIsNew'
  BY <1>6, <1>9 DEF Enqueue, rows
<1>10. ASSUME NEW k \in Clients, EnqueueRaises(k)
      PROVE  NamedIsNew'
  <2> DEFINE q == [req[k] EXCEPT !.pc = "undo"]
  <2>1. q.pc = "undo" /\ q.op = req[k].op /\ q.run = req[k].run /\ req[k].pc = "enqueue"
    BY <1>0, <1>10 DEF Request, EnqueueRaises
  <2>2. req' = [req EXCEPT ![k] = q] /\ UNCHANGED status
    BY <1>0, <1>10 DEF EnqueueRaises, rows
  <2> HIDE DEF q
  <2> QED
    BY <1>1, <2>1, <2>2 DEF Naming, Making
<1>11. ASSUME NEW k \in Clients, UndoCreate(k) \/ UndoAccept(k) \/ UndoStop(k)
      PROVE  NamedIsNew'
  <2>0. PICK r \in Runs : r = req[k].run
    BY <1>11 DEF UndoCreate, UndoAccept, UndoStop, RequestsTyped, RequestsNameRuns
  <2>1. req' = [req EXCEPT ![k] = Idle]
    BY <1>11 DEF UndoCreate, UndoAccept, UndoStop
  <2>2. CASE UndoCreate(k)
    <3>1. status' \in {status, [status EXCEPT ![r] = "deleted"]} /\ Making(req[k])
      BY <2>0, <2>2 DEF UndoCreate, Making
    <3> QED
      BY <1>0, <1>6, <2>0, <2>1, <3>1
  <2>3. CASE UndoAccept(k)
    <3>1. status' \in {status, [status EXCEPT ![r] = "failed"]}
      BY <2>0, <2>3 DEF UndoAccept
    <3> QED
      BY <1>0, <1>6, <2>1, <3>1
  <2>4. CASE UndoStop(k)
    <3>1. /\ status' = [status EXCEPT ![r] = IF @ = "stopping" THEN req[k].seen ELSE @]
          /\ req[k].seen \in {"starting", "ready", "failed"}
      BY <2>0, <2>4 DEF UndoStop, OneJobEach, RequestFits
    <3> QED
      BY <1>0, <1>6, <2>1, <3>1
  <2> QED
    BY <1>11, <2>2, <2>3, <2>4
<1>12. CASE ControlPlaneRestart
  BY <1>12 DEF ControlPlaneRestart, Idle, NamedIsNew, Naming
<1> QED
  BY <1>2, <1>3, <1>4, <1>5, <1>7, <1>8, <1>9, <1>10, <1>11, <1>12
  DEF ControlPlaneNext, RequestStep

-----------------------------------------------------------------------------
(***************************************************************************)
(* The refinement of PreviewLease: what its variables stand for.           *)
(***************************************************************************)
HolderOf(c) ==
  IF \E r \in Runs : activeKey[r] = c THEN CHOOSE r \in Runs : activeKey[r] = c ELSE None
Holder == [c \in Compilations |-> HolderOf(c)]
Ended  == {r \in Runs : status[r] \in {"stopped", "deleted"}}

LEMMA HolderIs ==
  ASSUME KeysDiffer, NEW r \in Runs, NEW c \in Compilations
  PROVE  activeKey[r] = c <=> Holder[c] = r
<1>0. None \notin Runs /\ None \notin Compilations
  BY PreviewAssumption
<1>1. ASSUME activeKey[r] = c PROVE HolderOf(c) = r
  <2>1. \A o \in Runs : activeKey[o] = c => o = r
    BY <1>0, <1>1 DEF KeysDiffer
  <2> QED
    BY <1>1, <2>1 DEF HolderOf
<1>2. ASSUME HolderOf(c) = r PROVE activeKey[r] = c
  BY <1>0, <1>2 DEF HolderOf
<1> QED
  BY <1>1, <1>2 DEF Holder

LEMMA HolderNone ==
  ASSUME NEW c \in Compilations, \A r \in Runs : activeKey[r] # c
  PROVE  Holder[c] = None
  BY DEF Holder, HolderOf

\* A key given to one run, or taken from one.
LEMMA OthersHold ==
  ASSUME NEW d \in Compilations, \A o \in Runs : activeKey'[o] = d <=> activeKey[o] = d
  PROVE  Holder'[d] = Holder[d]
<1>1. (CHOOSE o \in Runs : activeKey'[o] = d) = (CHOOSE o \in Runs : activeKey[o] = d)
  OBVIOUS
<1> QED
  BY <1>1 DEF Holder, HolderOf

LEMMA HolderAcquired ==
  ASSUME KeysDiffer', activeKey \in [Runs -> Compilations \cup {None}],
         NEW r \in Runs, NEW c \in Compilations, activeKey[r] = None,
         activeKey' = [activeKey EXCEPT ![r] = c]
  PROVE  Holder' = [Holder EXCEPT ![c] = r]
<1>0. None \notin Compilations /\ activeKey'[r] = c
  BY PreviewAssumption
<1>1. \A d \in Compilations : d # c => Holder'[d] = Holder[d]
  BY <1>0, OthersHold
<1>2. Holder'[c] = r
  <2>1. \A o \in Runs : activeKey'[o] = c => o = r
    BY <1>0 DEF KeysDiffer
  <2> QED
    BY <1>0, <2>1 DEF Holder, HolderOf
<1> QED
  BY <1>1, <1>2 DEF Holder

LEMMA HolderReleased ==
  ASSUME KeysDiffer, activeKey \in [Runs -> Compilations \cup {None}],
         NEW r \in Runs, NEW c \in Compilations, activeKey[r] = c,
         activeKey' = [activeKey EXCEPT ![r] = None]
  PROVE  Holder' = [Holder EXCEPT ![c] = None]
<1>0. None \notin Compilations
  BY PreviewAssumption
<1>1. \A d \in Compilations : d # c => Holder'[d] = Holder[d]
  BY <1>0, OthersHold
<1>2. Holder'[c] = None
  <2>1. \A o \in Runs : activeKey'[o] # c
    BY <1>0 DEF KeysDiffer
  <2> QED
    BY <2>1 DEF Holder, HolderOf
<1> QED
  BY <1>1, <1>2 DEF Holder

LEMMA LeaseStays ==
  ASSUME UNCHANGED <<activeKey, up>>, Ended' = Ended
  PROVE  UNCHANGED Lease!vars
<1>1. Lease!vars = <<Holder, up, Ended>>
  BY DEF Lease!vars, Holder, HolderOf, Ended
<1>2. Lease!vars' = <<Holder, up, Ended>>'
  BY DEF Lease!vars, Holder, HolderOf, Ended
<1>3. Holder' = Holder
  BY DEF Holder, HolderOf
<1> QED
  BY <1>1, <1>2, <1>3

\* The system's step, as the lease sees it.
LeaseStep == Lease!Next \/ UNCHANGED Lease!vars

\* A run with the key of its compilation holds the lease.
LEMMA HoldsLease ==
  ASSUME Keyed, NEW r \in Runs, status[r] \in LiveStatus
  PROVE  /\ comp[r] \in Compilations /\ activeKey[r] = comp[r] /\ Holder[comp[r]] = r
  BY HolderIs DEF Keyed, LiveRunsHaveCompilation, KeyMarksLiveRun

LEMMA IsAcquire ==
  ASSUME Keyed, Keyed', RestTyped, UNCHANGED up,
         NEW r \in Runs, NEW c \in Compilations,
         status[r] = "unused", \A o \in Runs : activeKey[o] # c,
         status' = [status EXCEPT ![r] = "starting"], activeKey' = [activeKey EXCEPT ![r] = c]
  PROVE  LeaseStep
<1>0. activeKey[r] = None /\ None \notin Compilations
  BY PreviewAssumption DEF Keyed, KeyMarksLiveRun, LiveStatus
<1>1. Holder[c] = None
  BY HolderNone
<1>2. \A d \in Compilations : Holder[d] # r
  BY <1>0, HolderIs DEF Keyed
<1>3. Holder' = [Holder EXCEPT ![c] = r]
  BY <1>0, HolderAcquired DEF Keyed, RestTyped
<1>4. r \notin Ended /\ Ended' = Ended
  BY DEF Ended, RestTyped
<1>5. Lease!Acquire(c, r)
  BY <1>1, <1>2, <1>3, <1>4 DEF Lease!Acquire, Lease!Holds, Holder, HolderOf, Ended
<1> QED
  BY <1>5 DEF LeaseStep, Lease!Next

LEMMA IsRelease ==
  ASSUME Keyed, RestTyped, UNCHANGED up, NEW r \in Runs, r \notin up, status[r] \in LiveStatus,
         NEW x \in {"stopped", "deleted"},
         status' = [status EXCEPT ![r] = x], activeKey' = [activeKey EXCEPT ![r] = None]
  PROVE  LeaseStep
<1>1. PICK c \in Compilations : activeKey[r] = c /\ Holder[c] = r
  BY HoldsLease
<1>2. Holder' = [Holder EXCEPT ![c] = None]
  BY <1>1, HolderReleased DEF Keyed, RestTyped
<1>3. Ended' = Ended \cup {r}
  BY DEF Ended, RestTyped
<1>4. Lease!Release(c, r)
  BY <1>1, <1>2, <1>3 DEF Lease!Release, Holder, HolderOf, Ended
<1> QED
  BY <1>1, <1>4 DEF LeaseStep, Lease!Next

LEMMA IsLaunch ==
  ASSUME Keyed, NEW r \in Runs, status[r] \in LiveStatus, UNCHANGED <<status, activeKey>>,
         up' = up \cup {r}
  PROVE  LeaseStep
<1>1. \E c \in Compilations : Holder[c] = r
  BY HoldsLease
<1>2. Holder' = Holder /\ Ended' = Ended
  BY DEF Holder, HolderOf, Ended
<1>3. Lease!Launch(r)
  BY <1>1, <1>2 DEF Lease!Launch, Lease!Holds, Holder, HolderOf, Ended
<1> QED
  BY <1>3 DEF LeaseStep, Lease!Next

LEMMA IsTakeDown ==
  ASSUME NEW r \in Runs, UNCHANGED <<status, activeKey>>, up' = up \ {r}
  PROVE  LeaseStep
<1>1. Holder' = Holder /\ Ended' = Ended
  BY DEF Holder, HolderOf, Ended
<1>2. Lease!TakeDown(r)
  BY <1>1 DEF Lease!TakeDown, Holder, HolderOf, Ended
<1> QED
  BY <1>2 DEF LeaseStep, Lease!Next

\* A row that stays live, or that stays as it is.
LEMMA IsStutter ==
  ASSUME RestTyped, UNCHANGED <<activeKey, up>>, NEW r \in Runs, NEW x,
         status' = [status EXCEPT ![r] = x],
         status[r] \notin {"stopped", "deleted"}, x \notin {"stopped", "deleted"}
  PROVE  LeaseStep
<1>1. Ended' = Ended
  BY DEF Ended, RestTyped
<1> QED
  BY <1>1, LeaseStays DEF LeaseStep

LEMMA RowsStutter ==
  ASSUME UNCHANGED <<status, activeKey, up>>
  PROVE  LeaseStep
  BY LeaseStays DEF LeaseStep, Ended

LEMMA ControlPlaneLease ==
  ASSUME RequestsTyped, RestTyped, OneJobEach, QuietInv, Keyed, Keyed', NamedIsNew,
         ControlPlaneNext, UNCHANGED up
  PROVE  LeaseStep
<1>1. ASSUME NEW k \in Clients, InsertRun(k)
      PROVE  LeaseStep
  <2>1. PICK r \in Runs : InsertAs(k, r) /\ (req[k].op # "accept" => Fresh(r))
                          /\ (req[k].op = "accept" => r = req[k].run)
    BY <1>1 DEF InsertRun, RequestsTyped, RequestsNameRuns
  <2>2. CASE Insertable(r, req[k].comp, req[k].seq)
    <3>1. req[k].pc = "insert" /\ req[k].comp \in Compilations
      BY <1>1 DEF InsertRun, RequestsTyped, RequestsNameRuns
    <3>2. status[r] \in {"unused", "deleted"} /\ \A o \in Runs : activeKey[o] # req[k].comp
      BY <2>2 DEF Insertable, RestTyped, Status
    <3>3. status[r] = "unused"
      BY <2>1, <3>1, <3>2 DEF Fresh, NamedIsNew, Naming
    <3>4. /\ status' = [status EXCEPT ![r] = "starting"]
          /\ activeKey' = [activeKey EXCEPT ![r] = req[k].comp]
      BY <2>1, <2>2 DEF InsertAs
    <3> QED
      BY <3>1, <3>2, <3>3, <3>4, IsAcquire
  <2>3. CASE ~Insertable(r, req[k].comp, req[k].seq)
    BY <2>1, <2>3, RowsStutter DEF InsertAs, rows
  <2> QED
    BY <2>2, <2>3
<1>2. ASSUME NEW k \in Clients, StopTransition(k)
      PROVE  LeaseStep
  <2>0. PICK r \in Runs : r = req[k].run
    BY <1>2 DEF StopTransition, RequestsTyped, RequestsNameRuns
  <2>1. req[k].seen \in {"starting", "ready", "failed"}
    BY <1>2 DEF StopTransition, RequestsTyped, RequestsNameRuns, OneJobEach, RequestFits
  <2>2. /\ UNCHANGED activeKey
        /\ status' = status
           \/ (status[r] = req[k].seen /\ status' = [status EXCEPT ![r] = "stopping"])
    BY <1>2, <2>0 DEF StopTransition
  <2> QED
    BY <2>1, <2>2, IsStutter, RowsStutter
<1>3. ASSUME NEW k \in Clients, UndoCreate(k)
      PROVE  LeaseStep
  <2>0. PICK r \in Runs : r = req[k].run
    BY <1>3 DEF UndoCreate, RequestsTyped, RequestsNameRuns
  <2>1. r \notin up
    BY <1>3, <2>0 DEF UndoCreate, QuietInv, Quiet, BeforeDocker, Asked, Asks
  <2>2. \/ UNCHANGED <<status, activeKey>>
        \/ /\ status[r] = "starting" /\ status' = [status EXCEPT ![r] = "deleted"]
           /\ activeKey' = [activeKey EXCEPT ![r] = None]
    BY <1>3, <2>0 DEF UndoCreate
  <2> QED
    BY <2>1, <2>2, IsRelease, RowsStutter DEF LiveStatus
<1>4. ASSUME NEW k \in Clients, UndoAccept(k)
      PROVE  LeaseStep
  <2>0. PICK r \in Runs : r = req[k].run
    BY <1>4 DEF UndoAccept, RequestsTyped, RequestsNameRuns
  <2>1. /\ UNCHANGED activeKey
        /\ status' = status
           \/ (status[r] = "starting" /\ status' = [status EXCEPT ![r] = "failed"])
    BY <1>4, <2>0 DEF UndoAccept
  <2> QED
    BY <2>1, IsStutter, RowsStutter
<1>5. ASSUME NEW k \in Clients, UndoStop(k)
      PROVE  LeaseStep
  <2>0. PICK r \in Runs : r = req[k].run
    BY <1>5 DEF UndoStop, RequestsTyped, RequestsNameRuns
  <2>1. req[k].seen \in {"starting", "ready", "failed"}
    BY <1>5 DEF UndoStop, OneJobEach, RequestFits
  <2>2. /\ UNCHANGED activeKey
        /\ status' = status
           \/ (status[r] = "stopping" /\ status' = [status EXCEPT ![r] = req[k].seen])
    BY <1>5, <2>0 DEF UndoStop, RestTyped
  <2> QED
    BY <2>1, <2>2, IsStutter, RowsStutter
<1>6. ASSUME UNCHANGED rows PROVE LeaseStep
  BY <1>6, RowsStutter DEF rows
<1>7. ASSUME NEW k \in Clients, CountRuns(k) \/ Enqueue(k) \/ EnqueueRaises(k)
      PROVE  UNCHANGED rows
  BY <1>7 DEF CountRuns, Enqueue, EnqueueRaises
<1>8. ASSUME NEW k \in Clients, NEW c \in Compilations, NEW r \in Runs, AcceptRead(k, c, r)
      PROVE  UNCHANGED rows
  BY <1>8 DEF AcceptRead
<1>9. ControlPlaneRestart => UNCHANGED rows
  BY DEF ControlPlaneRestart
<1>10. ASSUME NEW k \in Clients, NEW c \in Compilations, CreateRead(k, c) PROVE UNCHANGED rows
  BY <1>10 DEF CreateRead
<1>11. ASSUME NEW k \in Clients, NEW r \in Runs, StopRead(k, r) PROVE UNCHANGED rows
  BY <1>11 DEF StopRead
<1>12. ASSUME NEW k \in Clients, RequestStep(k) PROVE LeaseStep
  BY <1>1, <1>2, <1>3, <1>4, <1>5, <1>6, <1>7, <1>12 DEF RequestStep
<1> QED
  BY <1>6, <1>8, <1>9, <1>10, <1>11, <1>12 DEF ControlPlaneNext

\* Containers come with compose up and go with compose down.
LEMMA SlotStepUp ==
  ASSUME NEW s \in Slots, SlotStep(s)
  PROVE  \/ up' = up
         \/ up' = up \ {slot[s].run} /\ UNCHANGED rows
         \/ /\ up' = up \cup {slot[s].run} /\ UNCHANGED rows
            /\ At(s, "start", "ports")
<1>1. CASE Dispatch(s) \/ ReportsFailed(s) \/ StartReplied(s) \/ StartEnter(s) \/ StartMaterialize(s)
  BY <1>1 DEF Dispatch, ReportsFailed, StartReplied, StartEnter, StartMaterialize, host
<1>2. CASE StartPorts(s)
  <2>1. up' = up \/ up' = up \cup ({slot[s].run} \cap copies)
    BY <1>2 DEF StartPorts
  <2>2. {slot[s].run} \cap copies \in {{}, {slot[s].run}}
    OBVIOUS
  <2> QED
    BY <1>2, <2>1, <2>2 DEF StartPorts
<1>3. CASE StartUnreserve(s) \/ StartProceeds(s) \/ StartCancelled(s) \/ StartReportsReady(s)
  BY <1>3 DEF StartUnreserve, StartProceeds, StartCancelled, StartReportsReady, host
<1>4. CASE StartStageFails(s)
  BY <1>4 DEF StartStageFails, StartCleanup, host
<1>5. CASE StopReplied(s) \/ StopRoute(s) \/ StopSettled(s) \/ StopVerify(s)
  BY <1>5 DEF StopReplied, StopRoute, StopSettled, StopVerify, host
<1>6. CASE StopDown(s) \/ StopRemove(s) \/ StopReportsStopped(s)
  BY <1>6 DEF StopDown, StopRemove, StopReportsStopped, host
<1> QED
  BY <1>1, <1>2, <1>3, <1>4, <1>5, <1>6 DEF SlotStep, JobStep

LEMMA SlotStepLease ==
  ASSUME NoneAgain, RestTyped, SlotsTyped, OneJobEach, QuietInv, Keyed, NEW s \in Slots,
         SlotStep(s)
  PROVE  LeaseStep
<1>0. PICK r \in Runs : r = slot[s].run /\ (Works(s, "start", r) \/ Works(s, "stop", r))
  BY SlotStepMoves DEF SlotMoves, SlotsTyped, SlotsNameRuns, Works, IsFor
<1>1. RunFits(r) /\ Quiet(r) /\ ReportsOf(s)
  BY SlotStepReports, AllSound DEF OneJobEach, QuietInv
<1>2. CASE UNCHANGED rows
  <2>1. CASE up' = up
    BY <1>2, <2>1, RowsStutter DEF rows
  <2>2. CASE up' = up \ {slot[s].run}
    BY <1>0, <1>2, <2>2, IsTakeDown DEF rows
  <2>3. CASE up' = up \cup {slot[s].run} /\ At(s, "start", "ports")
    <3>1. Works(s, "start", r) /\ InRuntime(s, r)
      BY <1>0, <2>3 DEF At, Works, IsFor, InRuntime, Runtime
    <3>2. status[r] \notin {"unused", "deleted"}
      BY <1>1, <3>1 DEF RunFits, StatusFits, Pending, Worked
    <3>3. status[r] # "stopped"
      BY <1>1, <3>1 DEF Quiet
    <3>4. status[r] \in LiveStatus
      BY <3>2, <3>3 DEF RestTyped, Status, RowStatus, LiveStatus
    <3> QED
      BY <1>0, <1>2, <2>3, <3>4, IsLaunch DEF rows
  <2> QED
    BY <2>1, <2>2, <2>3, SlotStepUp
<1>3. CASE ~UNCHANGED rows
  <2>0. UNCHANGED up
    BY <1>3, SlotStepUp
  <2>1. CASE AcceptsReady(r) /\ ReportPreviewReady(r)
    BY <2>0, <2>1, IsStutter DEF AcceptsReady, ReportPreviewReady
  <2>2. CASE AcceptsFailed(r, slot[s].code) /\ ReportPreviewFailed(r, slot[s].code)
    BY <2>0, <2>2, IsStutter DEF AcceptsFailed, ReportPreviewFailed
  <2>3. CASE /\ slot[s].action = "stop" /\ slot[s].pc = "reportStopped"
             /\ AcceptsStopped(r) /\ ReportPreviewStopped(r)
    <3>1. r \notin up
      BY <1>0, <1>1, <2>3 DEF Quiet, StopFindsNothing, Works, IsFor
    <3> QED
      BY <2>0, <2>3, <3>1, IsRelease DEF AcceptsStopped, ReportPreviewStopped, LiveStatus
  <2> QED
    BY <1>0, <1>1, <1>3, <2>1, <2>2, <2>3 DEF ReportsOf
<1> QED
  BY <1>2, <1>3

LEMMA StepLeaseSystem ==
  ASSUME SteadyWorker, LeaseInv, LeaseInv', OneJobEach, OneJobEach', QuietSystem, NamedIsNew,
         [Next]_vars
  PROVE  NamedIsNew' /\ [Lease!Next]_(Lease!vars)
<1>0. /\ RequestsTyped /\ RestTyped /\ SlotsTyped /\ Keyed /\ Keyed'
      /\ QuietInv /\ NoneAgain /\ "restart" \notin Faults /\ "block" \notin Faults
  BY TypedParts DEF SteadyWorker, LeaseInv, QuietSystem
<1>1. CASE ControlPlaneNext /\ UNCHANGED worker
  BY <1>0, <1>1, ControlPlaneLease, RequestsNamed DEF worker, host, LeaseStep
<1>2. CASE UNCHANGED <<rows, req, up>>
  BY <1>0, <1>2, NamedStill, RowsStutter DEF rows, LeaseStep
<1>3. ASSUME NEW s \in Slots, SlotStep(s) PROVE NamedIsNew' /\ LeaseStep
  <2>1. UNCHANGED req /\ ReportsOf(s) /\ slot[s].run \in Runs
    BY <1>0, <1>3, SlotStepMoves, SlotStepReports DEF SlotMoves, SlotsTyped, SlotsNameRuns
  <2>2. \A r \in Runs : status'[r] = "deleted" => status[r] = "deleted"
    BY <1>0, <2>1 DEF ReportsOf, RestTyped, rows, ReportPreviewReady, ReportPreviewFailed,
       ReportPreviewStopped
  <2> QED
    BY <1>0, <1>3, <2>1, <2>2, NamedStill, SlotStepLease
<1>4. ASSUME NEW s \in Slots, Take(s) PROVE UNCHANGED <<rows, req, up>>
  BY <1>4 DEF Take, host
<1>5. UNCHANGED vars => UNCHANGED <<rows, req, up>>
  BY DEF vars, controlPlane, worker, host
<1>6. \A job \in held : FALSE
  BY <1>0 DEF NoneAgain
<1> QED
  BY <1>0, <1>1, <1>2, <1>3, <1>4, <1>5, <1>6 DEF Next, WorkerRestart, LockLost, Fault, LeaseStep

LEMMA InitLeaseSystem == Init => NamedIsNew /\ Lease!Init
<1> SUFFICES ASSUME Init PROVE NamedIsNew /\ Lease!Init
  OBVIOUS
<1>0. None \notin Compilations
  BY PreviewAssumption
<1>1. /\ \A k \in Clients : req[k].pc = "idle"
      /\ \A r \in Runs : activeKey[r] = None /\ status[r] = "unused"
      /\ up = {}
  BY DEF Init, ControlPlaneInit, Idle
<1>2. NamedIsNew
  BY <1>1 DEF NamedIsNew, Naming
<1>3. Holder = [c \in Compilations |-> None] /\ Ended = {}
  BY <1>0, <1>1 DEF Holder, HolderOf, Ended
<1> QED
  BY <1>1, <1>2, <1>3 DEF Lease!Init, Holder, HolderOf, Ended

(* Requests, queue, Worker and Docker together are one lease for each      *)
(* compilation: its holder is the run that has the activeKey, a run gets   *)
(* containers only while it is the holder, and the lease is given up, by   *)
(* stopped evidence or by a create that could not be queued, only when     *)
(* there are none; a run that gave it up never gets one again.             *)
THEOREM PreviewImplementsLease ==
  ASSUME SteadyWorker
  PROVE  Spec => ImplementsLease
<1>0. "ack" \notin Faults
  BY DEF SteadyWorker
<1>1. Init => Lease!Init /\ LeaseInv /\ OneJobEach /\ QuietSystem /\ NamedIsNew
  BY InitLease, InitOneJob, InitQuiet, InitLeaseSystem
<1>2. LeaseInv /\ OneJobEach /\ QuietSystem /\ NamedIsNew /\ [Next]_vars =>
        LeaseInv' /\ OneJobEach' /\ QuietSystem' /\ NamedIsNew' /\ [Lease!Next]_(Lease!vars)
  BY <1>0, StepLease, StepOneJob, StepQuiet, StepLeaseSystem
<1> QED
  BY <1>1, <1>2, PTL DEF Spec, ImplementsLease, Lease!Spec
=============================================================================
