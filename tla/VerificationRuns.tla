-------------------------- MODULE VerificationRuns --------------------------
(***************************************************************************)
(* Verification runs of a compilation, over Compilations: the rows and the *)
(* reports (apps/control-plane/src/verification/verification.service.ts),  *)
(* and the Worker's job, which compiles the publication once more, into    *)
(* the directory all its compilations share, and then either boots the     *)
(* isolated environment of a V1 graph or runs the journey tests of a V3    *)
(* graph (apps/compiler-worker/src/verifier).                              *)
(*                                                                         *)
(* A run's evidence is its verdict and whether cleanup succeeded.  Every   *)
(* evidence has its own completion time and is sent once, so that a report *)
(* never repeats the digest of a concluded run.                            *)
(***************************************************************************)
EXTENDS Compilations

CONSTANT Runs  \* verification run identities, chosen by the caller

ASSUME RunAssumption == None \notin Runs

VARIABLES
  workload,    \* "compile", or the version of the graphs that are verified
  row,         \* the VerificationRun table
  asked,       \* POST /verification-runs requests in flight
  runQueue,    \* the Redis list of the verification queue
  runsStalled, \* runs whose job was given out again
  runsFailed,  \* runs whose job is in the failed set of the queue
  runJob,      \* the job of the verification Worker, one at a time
  copies,      \* .preview-runs/preview-<run>: the files of the environment
  running,     \* what the containers of the run's Compose project were built from
  runCalls,    \* evidence the Control Plane is handling
  runFaults    \* faults met by verification (bound only)

runVars == <<workload, row, asked, runQueue, runsStalled, runsFailed, runJob,
             copies, running, runCalls, runFaults>>
allVars == <<vars, runVars>>

NoRow   == [status |-> "unused", comp |-> None, cleaned |-> FALSE]
NoAsk   == [pc |-> "idle", run |-> None, comp |-> None]
Nothing == [f \in Files |-> "absent"]
Debris  == [f \in Files |-> "torn"]
NoRun   == [pc |-> "free", run |-> None, next |-> 1, read |-> Nothing, passed |-> FALSE,
            cleaned |-> FALSE]
NoRunCall == [pc |-> "free", run |-> None, status |-> "failed", cleaned |-> FALSE,
              waiting |-> FALSE]

\* The two parts share one bound: RunFault keeps it here, WithinBound in the steps of
\* Compilations, which are alone unless they are a part of verification's.
WithinBound == faults' + runFaults' <= MaxFaults
Alone       == UNCHANGED runVars /\ WithinBound

RunFault(kind) ==
  /\ kind \in Faults
  /\ faults + runFaults < MaxFaults
  /\ runFaults' = runFaults + 1

Waiting == {runQueue[n] : n \in DOMAIN runQueue}
Concluded(r) == row[r].status \in Terminal

(***************************************************************************)
(* createRun: a known identity is answered with its row; otherwise the     *)
(* compilation must have succeeded.  The job carries the artifacts the     *)
(* compilation recorded.  Nothing compensates for an enqueue that raises.  *)
(***************************************************************************)
AskForRun(k, r, c) ==
  /\ workload # "compile"
  /\ asked[k].pc = "idle"
  /\ row[r].status = "unused"
  /\ result[c] = "succeeded"
  /\ asked' = [asked EXCEPT ![k] = [pc |-> "insert", run |-> r, comp |-> c]]
  /\ UNCHANGED <<vars, workload, row, runQueue, runsStalled, runsFailed, runJob, copies,
                 running, runCalls, runFaults>>

\* verificationRunId is unique: the second insert raises.
InsertRow(k) ==
  /\ asked[k].pc = "insert"
  /\ LET r == asked[k].run IN
     IF row[r].status = "unused"
     THEN /\ row' = [row EXCEPT ![r].status = "pending", ![r].comp = asked[k].comp]
          /\ asked' = [asked EXCEPT ![k].pc = "enqueue"]
     ELSE asked' = [asked EXCEPT ![k] = NoAsk] /\ UNCHANGED row
  /\ UNCHANGED <<vars, workload, runQueue, runsStalled, runsFailed, runJob, copies,
                 running, runCalls, runFaults>>

EnqueueRun(k) ==
  /\ asked[k].pc = "enqueue"
  /\ \/ runQueue' = Append(runQueue, asked[k].run) /\ UNCHANGED runFaults
     \/ RunFault("queue") /\ UNCHANGED runQueue
  /\ asked' = [asked EXCEPT ![k] = NoAsk]
  /\ UNCHANGED <<vars, workload, row, runsStalled, runsFailed, runJob, copies, running,
                 runCalls>>

(***************************************************************************)
(* The job compiles first, whatever is in the directory.                   *)
(***************************************************************************)
TakeRun ==
  /\ runJob.pc = "free"
  /\ runQueue # <<>>
  /\ VerificationBegins(row[Head(runQueue)].comp)
  /\ runJob' = [NoRun EXCEPT !.pc = "compile", !.run = Head(runQueue)]
  /\ runQueue' = Tail(runQueue)
  /\ UNCHANGED <<workload, row, asked, runsStalled, runsFailed, copies, running, runCalls,
                 runFaults>>

KeepRunsBut == <<workload, row, asked, runQueue, runsStalled, runsFailed, copies, running,
                 runCalls>>

RunWrites ==
  /\ runJob.pc = "compile"
  /\ \/ WriteFile("verify") /\ UNCHANGED runJob
     \/ WriteFails("verify") /\ runJob' = [runJob EXCEPT !.pc = "failing"]
  /\ UNCHANGED <<KeepRunsBut, runFaults>>
  /\ WithinBound

DigestMatches(r) == build = artifacts[row[r].comp]

\* Only the job of a V1 graph compares what it rendered with what was recorded.
RunCompiled ==
  /\ runJob.pc = "compile"
  /\ WritingEnds("verify")
  /\ runJob' = [runJob EXCEPT !.pc = CASE workload = "v3" -> "test"
                                       [] workload = "v1" /\ DigestMatches(runJob.run) -> "read"
                                       [] OTHER -> "failing"]
  /\ UNCHANGED <<KeepRunsBut, runFaults>>

(***************************************************************************)
(* V1: the isolated environment.  Every file is read and verified against  *)
(* the record before any is copied, and what was read is what is copied.   *)
(* A start that fails before Docker leaves nothing of its own; one that    *)
(* fails in Docker is taken down, its copy kept if it was a timeout.       *)
(***************************************************************************)
BootFails(cleaned) ==
  runJob' = [runJob EXCEPT !.pc = "cleanup", !.passed = FALSE, !.cleaned = cleaned]

\* Mutant of SameFile: the files are copied unverified.
AnyFile(c, f) == TRUE

SameFile(c, f) == files[pub[c]][f] = artifacts[c]

ReadShared ==
  LET c == row[runJob.run].comp
      f == runJob.next
  IN /\ runJob.pc = "read"
     /\ CASE f > FileCount -> runJob' = [runJob EXCEPT !.pc = "copy"]
          [] f <= FileCount /\ SameFile(c, f) ->
               runJob' = [runJob EXCEPT !.next = f + 1, !.read[f] = files[pub[c]][f]]
          [] OTHER -> BootFails(TRUE)
     /\ UNCHANGED <<vars, KeepRunsBut, runFaults>>

\* The directory of an earlier execution is replaced; one that is not whole is removed,
\* if that succeeds.
CopyFiles ==
  LET r == runJob.run
  IN /\ runJob.pc = "copy"
     /\ \/ /\ copies' = [copies EXCEPT ![r] = runJob.read]
           /\ runJob' = [runJob EXCEPT !.pc = "up"]
           /\ UNCHANGED runFaults
        \/ RunFault("disk") /\ copies' = [copies EXCEPT ![r] = Nothing] /\ BootFails(TRUE)
        \/ RunFault("disk") /\ copies' = [copies EXCEPT ![r] = Debris] /\ BootFails(FALSE)
     /\ UNCHANGED <<vars, workload, row, asked, runQueue, runsStalled, runsFailed,
                    running, runCalls>>

\* up --build --wait, the ports and the health probe, or a failure of one of them.
Boot ==
  LET r == runJob.run
  IN /\ runJob.pc = "up"
     /\ running' = [running EXCEPT ![r] = copies[r]]
     /\ \/ runJob' = [runJob EXCEPT !.pc = "probe"] /\ UNCHANGED runFaults
        \/ RunFault("docker") /\ runJob' = [runJob EXCEPT !.pc = "undo"]
     /\ UNCHANGED <<vars, workload, row, asked, runQueue, runsStalled, runsFailed,
                    copies, runCalls>>

\* The start takes itself down; after a timeout its copy stays for the cleanup.
UndoBoot ==
  LET r == runJob.run
  IN /\ runJob.pc = "undo"
     /\ \/ /\ running' = [running EXCEPT ![r] = Nothing]
           /\ \/ copies' = [copies EXCEPT ![r] = Nothing] /\ BootFails(TRUE)
              \/ UNCHANGED copies /\ BootFails(FALSE)
           /\ UNCHANGED runFaults
        \/ RunFault("docker") /\ BootFails(FALSE) /\ UNCHANGED <<copies, running>>
     /\ UNCHANGED <<vars, workload, row, asked, runQueue, runsStalled, runsFailed,
                    runCalls>>

\* The probes, in order: each passes, fails, crashes or meets its deadline.
Probe ==
  /\ runJob.pc = "probe"
  /\ \E ok \in BOOLEAN : runJob' = [runJob EXCEPT !.pc = "cleanup", !.passed = ok]
  /\ UNCHANGED <<vars, KeepRunsBut, runFaults>>

(***************************************************************************)
(* Cleanup always runs, and its outcome is a step of the evidence.  It     *)
(* needs the Compose file of the copy, as it was verified.                 *)
(***************************************************************************)
CleanedUp(ok) == runJob' = [runJob EXCEPT !.pc = "report", !.cleaned = ok,
                                          !.passed = @ /\ ok]

\* Mutant of StopsEnvironment: the environment is taken to be clean after any failed start.
StopsOnlyPassed == runJob.passed

StopsEnvironment == ~runJob.cleaned

Cleanup ==
  LET r == runJob.run
  IN /\ runJob.pc = "cleanup"
     /\ \/ ~StopsEnvironment /\ CleanedUp(TRUE) /\ UNCHANGED <<runFaults, copies, running>>
        \/ /\ StopsEnvironment /\ copies[r] # runJob.read
           /\ CleanedUp(FALSE) /\ UNCHANGED <<runFaults, copies, running>>
        \/ /\ StopsEnvironment /\ copies[r] = runJob.read
           /\ running' = [running EXCEPT ![r] = Nothing]
           /\ \/ copies' = [copies EXCEPT ![r] = Nothing] /\ CleanedUp(TRUE) /\ UNCHANGED runFaults
              \/ RunFault("disk") /\ CleanedUp(FALSE) /\ UNCHANGED copies
        \/ /\ StopsEnvironment /\ copies[r] = runJob.read /\ RunFault("docker")
           /\ CleanedUp(FALSE) /\ UNCHANGED <<copies, running>>
     /\ UNCHANGED <<vars, workload, row, asked, runQueue, runsStalled, runsFailed,
                    runCalls>>

(***************************************************************************)
(* V3: three journey tests, run in the shared directory itself.  Each runs *)
(* to its end on the Worker's only thread, so that the lock of any job of  *)
(* the process can expire meanwhile and the job is given out again.        *)
(***************************************************************************)
RunJourneyTests ==
  /\ runJob.pc = "test"
  /\ \/ \E ok \in BOOLEAN :
          /\ runJob' = [runJob EXCEPT !.pc = "report", !.passed = ok, !.cleaned = TRUE]
          /\ UNCHANGED runFaults
     \/ RunFault("docker") /\ runJob' = [runJob EXCEPT !.pc = "failing"]
  /\ UNCHANGED <<vars, KeepRunsBut>>

\* The queue gives a job out again once; the next time it fails it.
GivenOutAgain(r) ==
  IF r \in runsStalled
  THEN runsFailed' = runsFailed \cup ({r} \ Waiting) /\ UNCHANGED <<runQueue, runsStalled>>
  ELSE /\ runQueue' = <<r>> \o runQueue
       /\ runsStalled' = runsStalled \cup {r}
       /\ UNCHANGED runsFailed

RunStalls ==
  /\ runJob.pc = "test"
  /\ runJob.run \notin Waiting
  /\ RunFault("stall")
  /\ GivenOutAgain(runJob.run)
  /\ UNCHANGED <<vars, workload, row, asked, runJob, copies, running, runCalls>>

(***************************************************************************)
(* Reporting.  Evidence is sent once; any error of the job, its report     *)
(* included, is followed by one report of failure, and the job fails when  *)
(* that one is not taken either.                                           *)
(***************************************************************************)
SendEvidence(i) ==
  /\ runJob.pc \in {"report", "failing"}
  /\ runCalls[i].pc = "free"
  /\ LET whole == runJob.pc = "report"
     IN /\ runCalls' = [runCalls EXCEPT ![i] =
             [pc |-> "read", run |-> runJob.run, waiting |-> TRUE,
              status |-> IF whole /\ runJob.passed THEN "succeeded" ELSE "failed",
              cleaned |-> whole /\ runJob.cleaned]]
        /\ runJob' = [runJob EXCEPT !.pc = IF whole THEN "await" ELSE "awaitFailure"]
  /\ UNCHANGED <<vars, workload, row, asked, runQueue, runsStalled, runsFailed, copies, running,
                 runFaults>>

\* Mutant of RunErrs: an error of the report is not followed by a failure report.
RunErrsSilently ==
  runJob' = NoRun /\ UNCHANGED runsFailed

RunErrs ==
  IF runJob.pc \in {"report", "await"}
  THEN runJob' = [runJob EXCEPT !.pc = "failing"] /\ UNCHANGED runsFailed
  ELSE runJob' = NoRun /\ runsFailed' = runsFailed \cup ({runJob.run} \ Waiting)

EvidenceLost ==
  /\ runJob.pc \in {"report", "failing"}
  /\ RunFault("net")
  /\ RunErrs
  /\ UNCHANGED <<vars, workload, row, asked, runQueue, runsStalled, copies, running,
                 runCalls>>

EvidenceAnswerLost(i) ==
  /\ runCalls[i].waiting
  /\ RunFault("net")
  /\ runCalls' = [runCalls EXCEPT ![i].waiting = FALSE]
  /\ RunErrs
  /\ UNCHANGED <<vars, workload, row, asked, runQueue, runsStalled, copies, running>>

AnswerRun(i, ok) ==
  /\ runCalls' = [runCalls EXCEPT ![i] = NoRunCall]
  /\ CASE ~runCalls[i].waiting       -> UNCHANGED <<runJob, runsFailed>>
       [] runCalls[i].waiting /\ ok  -> runJob' = NoRun /\ UNCHANGED runsFailed
       [] runCalls[i].waiting /\ ~ok -> RunErrs

(***************************************************************************)
(* reportEvidence: the row is read and, unless it is concluded, updated by *)
(* its identity alone.                                                     *)
(***************************************************************************)
ReadRow(i) ==
  /\ runCalls[i].pc = "read"
  /\ IF Concluded(runCalls[i].run) THEN AnswerRun(i, FALSE)
     ELSE runCalls' = [runCalls EXCEPT ![i].pc = "write"] /\ UNCHANGED <<runJob, runsFailed>>
  /\ UNCHANGED <<vars, workload, row, asked, runQueue, runsStalled, copies, running, runFaults>>

ConcludeRun(i) ==
  LET q == runCalls[i]
  IN /\ q.pc = "write"
     /\ row' = [row EXCEPT ![q.run].status = q.status, ![q.run].cleaned = q.cleaned]
     /\ AnswerRun(i, TRUE)
     /\ UNCHANGED <<vars, workload, asked, runQueue, runsStalled, copies, running, runFaults>>

(***************************************************************************)
(* Restarts, of both parts of each process.  Containers outlive the Worker.*)
(***************************************************************************)
RunUnderWay == runJob.pc # "free"

RestartWorker(b) ==
  /\ \/ WorkerRestarts(b) /\ UNCHANGED runFaults
     \/ b = build /\ ~Interrupts /\ RunUnderWay /\ RunFault("crash") /\ UNCHANGED vars
  /\ runJob' = NoRun
  /\ IF RunUnderWay THEN GivenOutAgain(runJob.run)
     ELSE UNCHANGED <<runQueue, runsStalled, runsFailed>>
  /\ runCalls' = [i \in Calls |-> [runCalls[i] EXCEPT !.waiting = FALSE]]
  /\ UNCHANGED <<workload, row, asked, copies, running>>

PlaneIsIdle == (\A k \in Clients : req[k].pc = "idle") /\ (\A i \in Calls : calls[i].pc = "free")

RestartControlPlane ==
  /\ \/ ControlPlaneRestarts /\ UNCHANGED runFaults
     \/ /\ PlaneIsIdle /\ RunFault("restart") /\ UNCHANGED vars
        /\ \/ \E k \in Clients : asked[k].pc # "idle"
           \/ \E i \in Calls : runCalls[i].pc # "free"
  /\ asked' = [k \in Clients |-> NoAsk]
  /\ runCalls' = [i \in Calls |-> NoRunCall]
  /\ IF \E i \in Calls : runCalls[i].waiting THEN RunErrs ELSE UNCHANGED <<runJob, runsFailed>>
  /\ UNCHANGED <<workload, row, runQueue, runsStalled, copies, running>>

-----------------------------------------------------------------------------
RunsInit ==
  /\ Init
  /\ workload \in {"compile", "v1", "v3"}
  /\ row = [r \in Runs |-> NoRow]
  /\ asked = [k \in Clients |-> NoAsk]
  /\ runQueue = <<>> /\ runsStalled = {} /\ runsFailed = {}
  /\ runJob = NoRun
  /\ copies = [r \in Runs |-> Nothing]
  /\ running = [r \in Runs |-> Nothing]
  /\ runCalls = [i \in Calls |-> NoRunCall]
  /\ runFaults = 0

\* Where runs are verified, one compilation is asked for (bound only).
MayCompile == workload = "compile" \/ \A c \in Compilations : result[c] = "unused"

AskStep(k)  == InsertRow(k) \/ EnqueueRun(k)
\* In the workload of compilations a verification is its writing alone.
OtherVerification ==
  workload = "compile" /\ ((\E c \in Compilations : VerificationBegins(c)) \/ WriteStep("verify"))

CompilationStep ==
  \/ MayCompile /\ \E k \in Clients, p \in Publications : CountCompilations(k, p)
  \/ \E k \in Clients : RequestStep(k)
  \/ TakeJob
  \/ WriteStep("compile")
  \/ ReportStep
  \/ \E i \in Calls : AnswerLost(i) \/ HandleStep(i)
  \/ JobStalls
  \/ OtherVerification

EnvironmentStep == ReadShared \/ CopyFiles \/ Boot \/ UndoBoot \/ Probe \/ Cleanup
RunStep == RunWrites \/ RunCompiled \/ EnvironmentStep \/ RunJourneyTests
EvidenceStep == (\E i \in Calls : SendEvidence(i)) \/ EvidenceLost
TakeEvidence(i) == ReadRow(i) \/ ConcludeRun(i)

RunsNext ==
  \/ CompilationStep /\ Alone
  \/ \E k \in Clients, r \in Runs, c \in Compilations : AskForRun(k, r, c)
  \/ \E k \in Clients : AskStep(k)
  \/ TakeRun \/ RunStep \/ RunStalls \/ EvidenceStep
  \/ \E i \in Calls : EvidenceAnswerLost(i) \/ TakeEvidence(i)
  \/ \E b \in Builds : RestartWorker(b) /\ WithinBound
  \/ RestartControlPlane /\ WithinBound

RunsSpec == RunsInit /\ [][RunsNext]_allVars

\* Fairness as in Compilations: what has begun goes on.
RunsFairness ==
  /\ WF_allVars((\E k \in Clients : RequestStep(k)) /\ Alone)
  /\ WF_allVars(TakeJob /\ Alone)
  /\ WF_allVars(WriteStep("compile") /\ Alone)
  /\ WF_allVars(OtherVerification /\ Alone)
  /\ WF_allVars(ReportStep /\ Alone)
  /\ \A i \in Calls : WF_allVars(HandleStep(i) /\ Alone)
  /\ \A k \in Clients : WF_allVars(AskStep(k))
  /\ WF_allVars(TakeRun)
  /\ WF_allVars(RunStep)
  /\ WF_allVars(EvidenceStep)
  /\ \A i \in Calls : WF_allVars(TakeEvidence(i))

FairRunsSpec == RunsSpec /\ RunsFairness

RunsTypeOK ==
  /\ workload \in {"compile", "v1", "v3"}
  /\ row \in [Runs -> [status : Terminal \cup {"unused", "pending"},
                       comp : Compilations \cup {None}, cleaned : BOOLEAN]]
  /\ asked \in [Clients -> [pc : {"idle", "insert", "enqueue"}, run : Runs \cup {None},
                            comp : Compilations \cup {None}]]
  /\ runQueue \in Seq(Runs)
  /\ runsStalled \subseteq Runs /\ runsFailed \subseteq Runs
  /\ runJob \in [pc : {"free", "compile", "read", "copy", "up", "undo", "probe", "cleanup",
                       "test", "report", "failing", "await", "awaitFailure"},
                 run : Runs \cup {None}, next : 1 .. FileCount + 1, read : [Files -> Contents],
                 passed : BOOLEAN, cleaned : BOOLEAN]
  /\ copies \in [Runs -> [Files -> Contents]]
  /\ running \in [Runs -> [Files -> Contents]]
  /\ runCalls \in [Calls -> [pc : {"free", "read", "write"}, run : Runs \cup {None},
                             status : Terminal, cleaned : BOOLEAN, waiting : BOOLEAN]]
  /\ runFaults \in Nat
=============================================================================
