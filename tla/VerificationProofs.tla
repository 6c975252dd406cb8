------------------------- MODULE VerificationProofs -------------------------
(***************************************************************************)
(* Theorems about verification for any sets of runs, compilations,         *)
(* publications, requests, calls and Worker builds, any number of files,   *)
(* any kinds of fault and any number of them.                              *)
(*                                                                         *)
(* Verification is compilation with more to do: every step of it is a step *)
(* of Compilations, so that what is proved of compilations holds while     *)
(* they are verified.  That, and its own properties, need that what is     *)
(* asked for, queued, executed or reported is a run with a row.            *)
(***************************************************************************)
EXTENDS VerificationProperties, CompilationProofs

(***************************************************************************)
(* The strengthening, by part of the state.                                *)
(***************************************************************************)
RunRow  == [status : Terminal \cup {"unused", "pending"}, comp : Compilations \cup {None},
            cleaned : BOOLEAN]
Ask     == [pc : {"idle", "insert", "enqueue"}, run : Runs \cup {None},
            comp : Compilations \cup {None}]
Copy    == [Files -> Contents]
AtWork  == {"compile", "read", "copy", "up", "undo", "probe", "cleanup", "test"}
AtEnd   == {"report", "failing"}
Awaits  == {"await", "awaitFailure"}
RunJob  == [pc : {"free"} \cup AtWork \cup AtEnd \cup Awaits, run : Runs \cup {None},
            next : 1 .. FileCount + 1, read : Copy, passed : BOOLEAN, cleaned : BOOLEAN]
RunCall == [pc : {"free", "read", "write"}, run : Runs \cup {None}, status : Terminal,
            cleaned : BOOLEAN, waiting : BOOLEAN]

Begun(r) == row[r].status # "unused"

Succeeded(c) == c \in Compilations /\ result[c] = "succeeded"

\* What is verified has succeeded.
RowsTyped ==
  /\ row \in [Runs -> RunRow]
  /\ \A r \in Runs : Begun(r) => Succeeded(row[r].comp)

AskFits(k) ==
  /\ asked[k].pc # "idle" => asked[k].run \in Runs /\ Succeeded(asked[k].comp)
  /\ asked[k].pc = "enqueue" => Begun(asked[k].run)
AsksTyped == asked \in [Clients -> Ask] /\ \A k \in Clients : AskFits(k)

RunQueueTyped ==
  /\ runQueue \in Seq(Runs)
  /\ runsStalled \subseteq Runs /\ runsFailed \subseteq Runs
  /\ \A n \in DOMAIN runQueue : Begun(runQueue[n])

RunJobTyped ==
  runJob \in RunJob /\ (runJob.pc # "free" => runJob.run \in Runs /\ Begun(runJob.run))

RunCallsTyped ==
  /\ runCalls \in [Calls -> RunCall]
  /\ \A i \in Calls : runCalls[i].pc # "free" => runCalls[i].run \in Runs /\ Begun(runCalls[i].run)

EnvironmentTyped == copies \in [Runs -> Copy] /\ running \in [Runs -> Copy]

RunsTyped ==
  /\ RowsTyped /\ AsksTyped /\ RunQueueTyped /\ RunJobTyped /\ RunCallsTyped
  /\ EnvironmentTyped
  /\ workload \in {"compile", "v1", "v3"} /\ runFaults \in Nat

\* The one job waits for one call at most.
OneReportAtATime ==
  /\ \A i \in Calls : runCalls[i].waiting => runJob.pc \in Awaits
  /\ \A i, j \in Calls : runCalls[i].waiting /\ runCalls[j].waiting => i = j

RunsTypeInv == RunsTyped /\ OneReportAtATime

-----------------------------------------------------------------------------
(***************************************************************************)
(* Verification implements compilation.                                    *)
(***************************************************************************)
LEMMA RunsTypedIsTypeOK == RunsTyped => RunsTypeOK
<1> SUFFICES ASSUME RunsTyped PROVE RunsTypeOK
  OBVIOUS
<1>1. runJob \in RunJob
  BY DEF RunsTyped, RunJobTyped
<1>2. {"free"} \cup AtWork \cup AtEnd \cup Awaits
        = {"free", "compile", "read", "copy", "up", "undo", "probe", "cleanup", "test",
           "report", "failing", "await", "awaitFailure"}
  BY DEF AtWork, AtEnd, Awaits
<1> QED
  BY <1>1, <1>2 DEF RunsTyped, RunsTypeOK, RowsTyped, AsksTyped, RunQueueTyped, RunJobTyped,
     RunCallsTyped, EnvironmentTyped, RunRow, Ask, Copy, RunJob, RunCall

LEMMA StepIsCompilationStep == RunsTyped /\ [RunsNext]_allVars => [Next]_vars
<1> SUFFICES ASSUME RunsTyped, [RunsNext]_allVars PROVE [Next]_vars
  OBVIOUS
<1>1. CompilationStep => Next
  BY DEF CompilationStep, OtherVerification, Next, Writers
<1>2. TakeRun => Next
  <2> SUFFICES ASSUME TakeRun PROVE Next
    OBVIOUS
  <2>1. VerificationBegins(row[Head(runQueue)].comp)
    BY DEF TakeRun
  <2>2. runQueue # <<>> /\ runQueue \in Seq(Runs)
    BY DEF TakeRun, RunsTyped, RunQueueTyped
  <2>3. 1 \in DOMAIN runQueue /\ Head(runQueue) = runQueue[1] /\ runQueue[1] \in Runs
    BY <2>2
  <2>4. row[Head(runQueue)].comp \in Compilations
    BY <2>3 DEF RunsTyped, RunQueueTyped, RowsTyped, Succeeded
  <2> QED
    BY <2>1, <2>4 DEF Next
<1>3. RunWrites \/ RunCompiled => Next
  BY DEF RunWrites, RunCompiled, WriteStep, Next, Writers
<1>4. EnvironmentStep \/ RunJourneyTests \/ RunStalls \/ EvidenceStep => UNCHANGED vars
  BY DEF EnvironmentStep, ReadShared, CopyFiles, Boot, UndoBoot, Probe, Cleanup,
     RunJourneyTests, RunStalls, EvidenceStep, SendEvidence, EvidenceLost
<1>5. ASSUME NEW k \in Clients, NEW r \in Runs, NEW c \in Compilations, AskForRun(k, r, c)
      PROVE  UNCHANGED vars
  BY <1>5 DEF AskForRun
<1>6. ASSUME NEW k \in Clients, AskStep(k)
      PROVE  UNCHANGED vars
  BY <1>6 DEF AskStep, InsertRow, EnqueueRun
<1>7. ASSUME NEW i \in Calls, EvidenceAnswerLost(i) \/ TakeEvidence(i)
      PROVE  UNCHANGED vars
  BY <1>7 DEF EvidenceAnswerLost, TakeEvidence, ReadRow, ConcludeRun
<1>8. ASSUME NEW b \in Builds, RestartWorker(b)
      PROVE  [Next]_vars
  BY <1>8 DEF RestartWorker, Next
<1>9. RestartControlPlane => [Next]_vars
  BY DEF RestartControlPlane, Next
<1>10. UNCHANGED allVars => UNCHANGED vars
  BY DEF allVars
<1> QED
  BY <1>1, <1>2, <1>3, <1>4, <1>5, <1>6, <1>7, <1>8, <1>9, <1>10 DEF RunsNext, RunStep

-----------------------------------------------------------------------------
(***************************************************************************)
(* What each part of the state can become in a step.                       *)
(***************************************************************************)
\* A step of an execution: the job goes on, or comes to its end.
Executes ==
  /\ runJob.pc \in AtWork
  /\ runJob' \in RunJob /\ runJob'.run = runJob.run /\ runJob'.pc \in AtWork \cup AtEnd
  /\ UNCHANGED <<workload, row, asked, runQueue, runsStalled, runsFailed, runCalls>>
  /\ runFaults' \in Nat
  /\ copies' \in [Runs -> Copy] /\ running' \in [Runs -> Copy]

LEMMA NoRunTyped == NoRun \in RunJob /\ NoRun.pc = "free" /\ Nothing \in Copy /\ Debris \in Copy
<1>1. Nothing \in Copy /\ Debris \in Copy
  BY DEF Nothing, Debris, Copy, Contents
<1>2. 1 \in 1 .. FileCount + 1
  BY CompilationAssumption
<1> QED
  BY <1>1, <1>2 DEF NoRun, RunJob

LEMMA RunFaultCounts == \A kind : RunFault(kind) /\ RunsTyped => runFaults' \in Nat
  BY DEF RunFault, RunsTyped

LEMMA ExecutionStep ==
  ASSUME OutcomeInv, RunsTyped, RunStep
  PROVE  Executes
<1>1. /\ runJob \in RunJob /\ runFaults \in Nat
      /\ copies \in [Runs -> Copy] /\ running \in [Runs -> Copy]
      /\ (runJob.pc # "free" => runJob.run \in Runs)
  BY DEF RunsTyped, RunJobTyped, EnvironmentTyped
<1>2. ASSUME NEW pc \in AtWork \cup AtEnd
      PROVE  [runJob EXCEPT !.pc = pc] \in RunJob
  BY <1>1, <1>2 DEF RunJob
<1>3. CASE RunWrites
  <2>1. UNCHANGED <<workload, row, asked, runQueue, runsStalled, runsFailed, copies, running,
                    runCalls, runFaults>>
    BY <1>3 DEF RunWrites, KeepRunsBut
  <2>2. runJob' \in {runJob, [runJob EXCEPT !.pc = "failing"]} /\ runJob.pc = "compile"
    BY <1>3 DEF RunWrites
  <2> QED
    BY <1>1, <1>2, <2>1, <2>2 DEF Executes, AtWork, AtEnd, RunJob
<1>4. CASE RunCompiled
  <2> DEFINE pc == CASE workload = "v3" -> "test"
                     [] workload = "v1" /\ DigestMatches(runJob.run) -> "read"
                     [] OTHER -> "failing"
  <2>1. pc \in {"test", "read", "failing"}
    OBVIOUS
  <2>2. UNCHANGED <<workload, row, asked, runQueue, runsStalled, runsFailed, copies, running,
                    runCalls, runFaults>>
    BY <1>4 DEF RunCompiled, KeepRunsBut
  <2>3. runJob' = [runJob EXCEPT !.pc = pc] /\ runJob.pc = "compile"
    BY <1>4 DEF RunCompiled
  <2> HIDE DEF pc
  <2> QED
    BY <1>1, <1>2, <2>1, <2>2, <2>3 DEF Executes, AtWork, AtEnd, RunJob
<1>5. ASSUME NEW cleaned \in BOOLEAN, BootFails(cleaned)
      PROVE  runJob' \in RunJob /\ runJob'.run = runJob.run /\ runJob'.pc = "cleanup"
  BY <1>1, <1>5 DEF BootFails, RunJob, AtWork
<1>6. CASE ReadShared
  <2> DEFINE c == row[runJob.run].comp
             f == runJob.next
  <2>1. UNCHANGED <<workload, row, asked, runQueue, runsStalled, runsFailed, copies, running,
                    runCalls, runFaults>> /\ runJob.pc = "read"
    BY <1>6 DEF ReadShared, KeepRunsBut
  <2>2. f > FileCount <=> ~(f <= FileCount)
    BY <1>1, CompilationAssumption DEF RunJob
  <2>3. CASE f > FileCount
    <3>1. runJob' = [runJob EXCEPT !.pc = "copy"]
      BY <1>6, <2>3, <2>2 DEF ReadShared
    <3> QED
      BY <1>1, <2>1, <3>1 DEF Executes, AtWork, AtEnd, RunJob
  <2>4. CASE ~(f > FileCount) /\ SameFile(c, f)
    <3>1. f \in 1 .. FileCount + 1 /\ FileCount \in Nat
      BY <1>1, CompilationAssumption DEF RunJob
    <3>2. f \in Files /\ f + 1 \in 1 .. FileCount + 1 /\ f <= FileCount
      BY <2>4, <3>1 DEF Files
    <3> DEFINE v == files[pub[c]][f]
    <3>3. runJob' = [runJob EXCEPT !.next = f + 1, !.read[f] = v]
      BY <1>6, <2>4, <3>2 DEF ReadShared
    <3>4. v \in Contents
      <4>1. Succeeded(c)
        BY <1>1, <2>1 DEF RunsTyped, RunJobTyped, RowsTyped
      <4>2. artifacts[c] \in Builds
        BY <4>1 DEF Succeeded, OutcomeInv, EvidenceIffSucceeded, TypeInv, Typed, TableTyped
      <4> QED
        BY <2>4, <4>2 DEF SameFile, Contents
    <3> HIDE DEF v, f
    <3>5. runJob.read \in Copy
      BY <1>1 DEF RunJob
    <3>6. [runJob.read EXCEPT ![f] = v] \in Copy
      BY <3>2, <3>4, <3>5 DEF Copy
    <3>7. runJob' \in RunJob
      BY <1>1, <3>2, <3>3, <3>6 DEF RunJob
    <3>8. runJob'.run = runJob.run /\ runJob'.pc = runJob.pc
      BY <1>1, <3>3 DEF RunJob
    <3> QED
      BY <1>1, <2>1, <3>7, <3>8 DEF Executes, AtWork
  <2>5. CASE ~(f > FileCount) /\ ~(f <= FileCount /\ SameFile(c, f))
    <3>1. BootFails(TRUE)
      BY <1>6, <2>5 DEF ReadShared
    <3> QED
      BY <1>1, <1>5, <2>1, <3>1 DEF Executes, AtWork
  <2> QED
    BY <2>3, <2>4, <2>5, <2>2
<1>7. CASE CopyFiles
  <2>1. runJob.read \in Copy /\ runJob.pc = "copy" /\ UNCHANGED running
    BY <1>1, <1>7 DEF RunJob, CopyFiles
  <2>2. UNCHANGED <<workload, row, asked, runQueue, runsStalled, runsFailed, runCalls>>
    BY <1>7 DEF CopyFiles
  <2>3. copies' \in [Runs -> Copy] /\ runFaults' \in Nat
    BY <1>1, <1>7, <2>1, RunFaultCounts, NoRunTyped DEF CopyFiles
  <2>4. runJob' = [runJob EXCEPT !.pc = "up"] \/ BootFails(TRUE) \/ BootFails(FALSE)
    BY <1>7 DEF CopyFiles
  <2>5. runJob' \in RunJob /\ runJob'.run = runJob.run /\ runJob'.pc \in AtWork
    BY <1>1, <1>5, <2>4 DEF RunJob, AtWork
  <2> QED
    BY <1>1, <2>1, <2>2, <2>3, <2>5 DEF Executes, AtWork
<1>8. CASE Boot
  <2>1. runJob.pc = "up" /\ UNCHANGED copies
    BY <1>8 DEF Boot
  <2>2. UNCHANGED <<workload, row, asked, runQueue, runsStalled, runsFailed, runCalls>>
    BY <1>8 DEF Boot
  <2>3. running' \in [Runs -> Copy] /\ runFaults' \in Nat
    BY <1>1, <1>8, <2>1, RunFaultCounts, NoRunTyped DEF Boot, AtWork
  <2>4. runJob' = [runJob EXCEPT !.pc = "probe"] \/ runJob' = [runJob EXCEPT !.pc = "undo"]
    BY <1>8 DEF Boot
  <2>5. runJob' \in RunJob /\ runJob'.run = runJob.run /\ runJob'.pc \in AtWork
    BY <1>1, <2>4 DEF RunJob, AtWork
  <2> QED
    BY <1>1, <2>1, <2>2, <2>3, <2>5 DEF Executes, AtWork
<1>9. CASE UndoBoot
  <2>1. runJob.pc = "undo" /\ (BootFails(TRUE) \/ BootFails(FALSE))
    BY <1>9 DEF UndoBoot
  <2>2. UNCHANGED <<workload, row, asked, runQueue, runsStalled, runsFailed, runCalls>>
    BY <1>9 DEF UndoBoot
  <2>3. running' \in [Runs -> Copy] /\ copies' \in [Runs -> Copy] /\ runFaults' \in Nat
    BY <1>1, <1>9, RunFaultCounts, NoRunTyped DEF UndoBoot
  <2>4. runJob' \in RunJob /\ runJob'.run = runJob.run /\ runJob'.pc \in AtWork
    BY <1>5, <2>1 DEF AtWork
  <2> QED
    BY <2>1, <2>2, <2>3, <2>4 DEF Executes, AtWork
<1>10. CASE Probe \/ RunJourneyTests
  BY <1>1, <1>10, RunFaultCounts
  DEF Probe, RunJourneyTests, KeepRunsBut, Executes, AtWork, AtEnd, RunJob
<1>11. CASE Cleanup
  <2>1. ASSUME NEW ok \in BOOLEAN, CleanedUp(ok)
        PROVE  runJob' \in RunJob /\ runJob'.run = runJob.run /\ runJob'.pc = "report"
    BY <1>1, <2>1 DEF CleanedUp, RunJob, AtEnd
  <2>2. runJob.pc = "cleanup" /\ (CleanedUp(TRUE) \/ CleanedUp(FALSE))
    BY <1>11 DEF Cleanup
  <2>3. UNCHANGED <<workload, row, asked, runQueue, runsStalled, runsFailed, runCalls>>
    BY <1>11 DEF Cleanup
  <2>4. running' \in [Runs -> Copy] /\ copies' \in [Runs -> Copy] /\ runFaults' \in Nat
    BY <1>1, <1>11, RunFaultCounts, NoRunTyped DEF Cleanup
  <2> QED
    BY <2>1, <2>2, <2>3, <2>4 DEF Executes, AtWork, AtEnd
<1> QED
  BY <1>3, <1>4, <1>6, <1>7, <1>10, <1>11, <1>8, <1>9 DEF RunStep, EnvironmentStep

LEMMA RunErrsGoesOn ==
  ASSUME RunsTyped, RunErrs, runJob.pc # "free"
  PROVE  /\ runJob' \in RunJob
         /\ runJob'.pc # "free" => runJob'.run = runJob.run /\ runJob'.pc = "failing"
         /\ \/ runsFailed' = runsFailed
            \/ runsFailed' = runsFailed \cup ({runJob.run} \ Waiting)
<1>1. runJob \in RunJob
  BY DEF RunsTyped, RunJobTyped
<1>2. CASE runJob.pc \in {"report", "await"}
  <2>1. runJob' = [runJob EXCEPT !.pc = "failing"] /\ runsFailed' = runsFailed
    BY <1>2 DEF RunErrs
  <2> QED
    BY <1>1, <2>1 DEF RunJob, AtEnd
<1>3. CASE runJob.pc \notin {"report", "await"}
  BY <1>3, NoRunTyped DEF RunErrs
<1> QED
  BY <1>2, <1>3

\* The rows are written by the insert and by the reports only.
LEMMA RunRowsChange ==
  ASSUME OutcomeInv, RunsTyped, [RunsNext]_allVars
  PROVE  \/ \E k \in Clients : InsertRow(k)
         \/ \E i \in Calls : ConcludeRun(i)
         \/ row' = row
<1>1. (CompilationStep /\ Alone) \/ TakeRun \/ RunStalls \/ EvidenceStep => row' = row
  BY DEF Alone, runVars, TakeRun, RunStalls, EvidenceStep, SendEvidence, EvidenceLost
<1>2. RunStep => row' = row
  BY ExecutionStep DEF Executes
<1>3. ASSUME NEW k \in Clients, NEW r \in Runs, NEW c \in Compilations, AskForRun(k, r, c)
      PROVE  row' = row
  BY <1>3 DEF AskForRun
<1>4. ASSUME NEW k \in Clients, EnqueueRun(k)
      PROVE  row' = row
  BY <1>4 DEF EnqueueRun
<1>5. ASSUME NEW i \in Calls, EvidenceAnswerLost(i) \/ ReadRow(i)
      PROVE  row' = row
  BY <1>5 DEF EvidenceAnswerLost, ReadRow
<1>6. (\E b \in Builds : RestartWorker(b)) \/ RestartControlPlane => row' = row
  BY DEF RestartWorker, RestartControlPlane
<1>7. UNCHANGED allVars => row' = row
  BY DEF allVars, runVars
<1> QED
  BY <1>1, <1>2, <1>3, <1>4, <1>5, <1>6, <1>7 DEF RunsNext, AskStep, TakeEvidence

\* What has begun stays of its compilation, and that one stays as it is.
BegunKept == \A r \in Runs : Begun(r) => Begun(r)' /\ row'[r].comp = row[r].comp
SucceededKept ==
  \A c \in Compilations : result[c] = "succeeded" =>
    result'[c] = "succeeded" /\ artifacts'[c] = artifacts[c]

LEMMA StepKeepsSucceeded ==
  ASSUME TypeInv, [Next]_vars
  PROVE  SucceededKept
<1>1. result \in [Compilations -> Terminal \cup {"unused", "queued"}]
      /\ artifacts \in [Compilations -> Builds \cup {None}]
  BY DEF TypeInv, Typed, TableTyped
<1>2. ASSUME NEW k \in Clients, InsertCompilation(k)
      PROVE  SucceededKept
  BY <1>1, <1>2 DEF InsertCompilation, SucceededKept
<1>3. ASSUME NEW i \in Calls, HandleCommit(i)
      PROVE  SucceededKept
  <2>1. CASE Unchanged(calls[i].comp)
    <3>1. \A c \in Compilations : result[c] = "succeeded" => c # calls[i].comp
      BY <2>1 DEF Unchanged
    <3> QED
      BY <1>1, <1>3, <2>1, <3>1 DEF HandleCommit, SucceededKept
  <2>2. CASE ~Unchanged(calls[i].comp)
    BY <1>3, <2>2 DEF HandleCommit, SucceededKept
  <2> QED
    BY <2>1, <2>2
<1>4. UNCHANGED table => SucceededKept
  BY DEF table, SucceededKept
<1> QED
  BY <1>2, <1>3, <1>4, RowsChange

LEMMA StepKeepsBegun ==
  ASSUME OutcomeInv, RunsTyped, [RunsNext]_allVars
  PROVE  BegunKept /\ SucceededKept /\ RowsTyped'
<1>1. row \in [Runs -> RunRow] /\ \A r \in Runs : Begun(r) => Succeeded(row[r].comp)
  BY DEF RunsTyped, RowsTyped
<1>2. SucceededKept
  BY StepIsCompilationStep, StepKeepsSucceeded DEF OutcomeInv
<1>3. \A c : Succeeded(c) => Succeeded(c)'
  BY <1>2 DEF Succeeded, SucceededKept
<1>4. ASSUME NEW k \in Clients, InsertRow(k)
      PROVE  BegunKept /\ RowsTyped'
  <2>1. asked[k].run \in Runs /\ Succeeded(asked[k].comp)
    BY <1>4 DEF InsertRow, RunsTyped, AsksTyped, AskFits
  <2>2. CASE row' = row
    BY <1>1, <1>3, <2>2 DEF BegunKept, RowsTyped, Begun
  <2>3. CASE row' = [row EXCEPT ![asked[k].run].status = "pending",
                                ![asked[k].run].comp = asked[k].comp]
             /\ row[asked[k].run].status = "unused"
    <3> DEFINE r == asked[k].run
               c == asked[k].comp
    <3>1. c \in Compilations
      BY <2>1 DEF Succeeded
    <3> HIDE DEF r, c
    <3>2. /\ row' = [row EXCEPT ![r].status = "pending", ![r].comp = c]
          /\ row[r].status = "unused" /\ r \in Runs /\ Succeeded(c)
      BY <2>1, <2>3 DEF r, c
    <3>3. row' \in [Runs -> RunRow]
      BY <1>1, <3>1, <3>2 DEF RunRow
    <3>4. \A s \in Runs : s # r => row'[s] = row[s]
      BY <1>1, <3>2
    <3>5. row'[r].comp = c
      BY <1>1, <3>2 DEF RunRow
    <3> QED
      BY <1>1, <1>3, <3>2, <3>3, <3>4, <3>5 DEF BegunKept, RowsTyped, Begun
  <2> QED
    BY <1>4, <2>2, <2>3 DEF InsertRow
<1>5. ASSUME NEW i \in Calls, ConcludeRun(i)
      PROVE  BegunKept /\ RowsTyped'
  <2> DEFINE r == runCalls[i].run
             s == runCalls[i].status
             d == runCalls[i].cleaned
  <2>1. r \in Runs /\ s \in Terminal /\ d \in BOOLEAN /\ Begun(r)
    BY <1>5 DEF ConcludeRun, RunsTyped, RunCallsTyped, RunCall
  <2>2. row' = [row EXCEPT ![r].status = s, ![r].cleaned = d]
    BY <1>5 DEF ConcludeRun
  <2> HIDE DEF r, s, d
  <2>3. row' \in [Runs -> RunRow]
    BY <1>1, <2>1, <2>2 DEF RunRow
  <2>4. \A t \in Runs : row'[t].comp = row[t].comp /\ (Begun(t)' <=> Begun(t))
    BY <1>1, <2>1, <2>2 DEF RunRow, Begun, Terminal
  <2> QED
    BY <1>1, <1>3, <2>3, <2>4 DEF BegunKept, RowsTyped
<1>6. row' = row => BegunKept /\ RowsTyped'
  BY <1>1, <1>3 DEF BegunKept, RowsTyped, Begun
<1> QED
  BY <1>2, <1>4, <1>5, <1>6, RunRowsChange

\* The requests: one is asked, inserted or enqueued, or all are forgotten.
LEMMA AsksChange ==
  ASSUME OutcomeInv, RunsTyped, [RunsNext]_allVars
  PROVE  \/ \E k \in Clients, r \in Runs, c \in Compilations : AskForRun(k, r, c)
         \/ \E k \in Clients : InsertRow(k) \/ EnqueueRun(k)
         \/ asked' = [k \in Clients |-> NoAsk]
         \/ asked' = asked
<1>1. (CompilationStep /\ Alone) \/ TakeRun \/ RunStalls \/ EvidenceStep => asked' = asked
  BY DEF Alone, runVars, TakeRun, RunStalls, EvidenceStep, SendEvidence, EvidenceLost
<1>2. RunStep => asked' = asked
  BY ExecutionStep DEF Executes
<1>3. ASSUME NEW i \in Calls, EvidenceAnswerLost(i) \/ TakeEvidence(i)
      PROVE  asked' = asked
  BY <1>3 DEF EvidenceAnswerLost, TakeEvidence, ReadRow, ConcludeRun
<1>4. ASSUME NEW b \in Builds, RestartWorker(b)
      PROVE  asked' = asked
  BY <1>4 DEF RestartWorker
<1>5. RestartControlPlane => asked' = [k \in Clients |-> NoAsk]
  BY DEF RestartControlPlane
<1>6. UNCHANGED allVars => asked' = asked
  BY DEF allVars, runVars
<1> QED
  BY <1>1, <1>2, <1>3, <1>4, <1>5, <1>6 DEF RunsNext, AskStep

LEMMA StepKeepsAsksTyped ==
  ASSUME OutcomeInv, RunsTyped, [RunsNext]_allVars
  PROVE  AsksTyped'
<1>1. asked \in [Clients -> Ask] /\ \A k \in Clients : AskFits(k)
  BY DEF RunsTyped, AsksTyped
<1>2. BegunKept /\ \A c : Succeeded(c) => Succeeded(c)'
  BY StepKeepsBegun DEF Succeeded, SucceededKept
<1>3. ASSUME NEW k \in Clients, asked'[k] = asked[k]
      PROVE  AskFits(k)'
  BY <1>1, <1>2, <1>3 DEF AskFits, BegunKept, Succeeded, Begun
<1>4. ASSUME NEW k \in Clients, asked'[k] = NoAsk
      PROVE  AskFits(k)'
  BY <1>4 DEF AskFits, NoAsk
<1>5. NoAsk \in Ask
  BY DEF NoAsk, Ask
<1>6. ASSUME NEW k \in Clients, NEW r \in Runs, NEW c \in Compilations, AskForRun(k, r, c)
      PROVE  AsksTyped'
  <2>1. asked' = [asked EXCEPT ![k] = [pc |-> "insert", run |-> r, comp |-> c]]
    BY <1>6 DEF AskForRun
  <2>2. asked' \in [Clients -> Ask]
    BY <1>1, <2>1 DEF Ask
  <2>3. Succeeded(c)'
    BY <1>2, <1>6 DEF AskForRun, Succeeded
  <2>4. AskFits(k)'
    BY <1>1, <2>1, <2>3 DEF AskFits, Succeeded
  <2>5. \A j \in Clients : AskFits(j)'
    BY <1>1, <1>3, <2>1, <2>4
  <2> QED
    BY <2>2, <2>5 DEF AsksTyped
<1>7. ASSUME NEW k \in Clients, InsertRow(k)
      PROVE  AsksTyped'
  <2>1. CASE asked' = [asked EXCEPT ![k] = NoAsk]
    <3>1. asked' \in [Clients -> Ask]
      BY <1>1, <1>5, <2>1
    <3>2. \A j \in Clients : AskFits(j)'
      BY <1>1, <1>3, <1>4, <2>1
    <3> QED
      BY <3>1, <3>2 DEF AsksTyped
  <2>2. CASE asked' = [asked EXCEPT ![k].pc = "enqueue"]
             /\ row' = [row EXCEPT ![asked[k].run].status = "pending",
                                   ![asked[k].run].comp = asked[k].comp]
    <3>1. asked' \in [Clients -> Ask]
      BY <1>1, <2>2 DEF Ask
    <3>2. asked[k].pc = "insert" /\ asked[k].run \in Runs /\ Succeeded(asked[k].comp)
      BY <1>1, <1>7 DEF InsertRow, AskFits
    <3>3. asked'[k].run = asked[k].run /\ asked'[k].comp = asked[k].comp
      BY <1>1, <2>2 DEF Ask
    <3>4. row'[asked[k].run].status = "pending"
      BY <2>2, <3>2 DEF RunsTyped, RowsTyped, RunRow
    <3>5. AskFits(k)'
      BY <1>2, <3>2, <3>3, <3>4 DEF AskFits, Begun, Succeeded
    <3>6. \A j \in Clients : AskFits(j)'
      BY <1>1, <1>3, <2>2, <3>5
    <3> QED
      BY <3>1, <3>6 DEF AsksTyped
  <2> QED
    BY <1>7, <2>1, <2>2 DEF InsertRow
<1>8. ASSUME NEW k \in Clients, EnqueueRun(k)
      PROVE  AsksTyped'
  <2>1. asked' = [asked EXCEPT ![k] = NoAsk]
    BY <1>8 DEF EnqueueRun
  <2>2. asked' \in [Clients -> Ask]
    BY <1>1, <1>5, <2>1
  <2>3. \A j \in Clients : AskFits(j)'
    BY <1>1, <1>3, <1>4, <2>1
  <2> QED
    BY <2>2, <2>3 DEF AsksTyped
<1>9. CASE asked' = [k \in Clients |-> NoAsk]
  BY <1>4, <1>5, <1>9 DEF AsksTyped
<1>10. CASE asked' = asked
  BY <1>1, <1>3, <1>10 DEF AsksTyped
<1> QED
  BY <1>6, <1>7, <1>8, <1>9, <1>10, AsksChange

\* The queue of runs: one comes in, one is taken, or the executed one comes again.
LEMMA RunQueueChanges ==
  ASSUME OutcomeInv, RunsTyped, OneReportAtATime, [RunsNext]_allVars
  PROVE  \/ \E k \in Clients : EnqueueRun(k)
         \/ TakeRun
         \/ runJob.pc # "free" /\ GivenOutAgain(runJob.run)
         \/ /\ UNCHANGED <<runQueue, runsStalled>>
            /\ \/ runsFailed' = runsFailed
               \/ runJob.pc # "free" /\ runsFailed' = runsFailed \cup ({runJob.run} \ Waiting)
<1> DEFINE Same == /\ UNCHANGED <<runQueue, runsStalled>>
                   /\ \/ runsFailed' = runsFailed
                      \/ runJob.pc # "free" /\ runsFailed' = runsFailed \cup ({runJob.run} \ Waiting)
<1>1. CompilationStep /\ Alone => Same
  BY DEF Alone, runVars
<1>2. RunStep => Same
  BY ExecutionStep DEF Executes
<1>3. ASSUME NEW k \in Clients, NEW r \in Runs, NEW c \in Compilations, AskForRun(k, r, c)
      PROVE  Same
  BY <1>3 DEF AskForRun
<1>4. ASSUME NEW k \in Clients, InsertRow(k)
      PROVE  Same
  BY <1>4 DEF InsertRow
<1>5. RunStalls => runJob.pc # "free" /\ GivenOutAgain(runJob.run)
  BY DEF RunStalls
<1>6. RunErrs /\ runJob.pc # "free" /\ UNCHANGED <<runQueue, runsStalled>> => Same
  BY RunErrsGoesOn
<1>7. EvidenceStep => Same
  <2>1. ASSUME NEW i \in Calls, SendEvidence(i)
        PROVE  Same
    BY <2>1 DEF SendEvidence
  <2>2. EvidenceLost => Same
    BY <1>6 DEF EvidenceLost
  <2> QED
    BY <2>1, <2>2 DEF EvidenceStep
<1>8. ASSUME NEW i \in Calls, NEW ok \in BOOLEAN, AnswerRun(i, ok),
             UNCHANGED <<runQueue, runsStalled>>
      PROVE  Same
  <2>1. runCalls[i].waiting \in BOOLEAN
    BY DEF RunsTyped, RunCallsTyped, RunCall
  <2>2. runCalls[i].waiting => runJob.pc # "free"
    BY DEF OneReportAtATime, Awaits
  <2> QED
    BY <1>6, <1>8, <2>1, <2>2 DEF AnswerRun
<1>9. ASSUME NEW i \in Calls, EvidenceAnswerLost(i) \/ TakeEvidence(i)
      PROVE  Same
  <2>1. CASE EvidenceAnswerLost(i)
    <3>1. runJob.pc # "free"
      BY <2>1 DEF EvidenceAnswerLost, OneReportAtATime, Awaits
    <3> QED
      BY <1>6, <2>1, <3>1 DEF EvidenceAnswerLost
  <2>2. CASE ReadRow(i)
    BY <1>8, <2>2 DEF ReadRow
  <2>3. CASE ConcludeRun(i)
    BY <1>8, <2>3 DEF ConcludeRun
  <2> QED
    BY <1>9, <2>1, <2>2, <2>3 DEF TakeEvidence
<1>10. ASSUME NEW b \in Builds, RestartWorker(b)
       PROVE  Same \/ (runJob.pc # "free" /\ GivenOutAgain(runJob.run))
  BY <1>10 DEF RestartWorker, RunUnderWay
<1>11. RestartControlPlane => Same
  <2>1. (\E i \in Calls : runCalls[i].waiting) => runJob.pc # "free"
    BY DEF OneReportAtATime, Awaits
  <2> QED
    BY <1>6, <2>1 DEF RestartControlPlane
<1>12. UNCHANGED allVars => Same
  BY DEF allVars, runVars
<1> QED
  BY <1>1, <1>2, <1>3, <1>4, <1>5, <1>7, <1>9, <1>10, <1>11, <1>12 DEF RunsNext, AskStep

LEMMA StepKeepsRunQueueTyped ==
  ASSUME OutcomeInv, RunsTyped, OneReportAtATime, [RunsNext]_allVars
  PROVE  RunQueueTyped'
<1>1. /\ runQueue \in Seq(Runs) /\ runsStalled \subseteq Runs /\ runsFailed \subseteq Runs
      /\ \A n \in DOMAIN runQueue : runQueue[n] \in Runs /\ Begun(runQueue[n])
      /\ runJob.pc # "free" => runJob.run \in Runs /\ Begun(runJob.run)
  BY DEF RunsTyped, RunQueueTyped, RunJobTyped
<1>2. \A r \in Runs : Begun(r) => Begun(r)'
  BY StepKeepsBegun DEF BegunKept
<1>3. ASSUME NEW k \in Clients, EnqueueRun(k)
      PROVE  RunQueueTyped'
  <2> DEFINE r == asked[k].run
  <2>1. r \in Runs /\ Begun(r)
    BY <1>3 DEF EnqueueRun, RunsTyped, AsksTyped, AskFits
  <2>2. runQueue' = runQueue \/ runQueue' = Append(runQueue, r)
    BY <1>3 DEF EnqueueRun
  <2>3. UNCHANGED <<runsStalled, runsFailed>>
    BY <1>3 DEF EnqueueRun
  <2> HIDE DEF r
  <2>4. runQueue' \in Seq(Runs)
    BY <1>1, <2>1, <2>2
  <2>5. \A n \in DOMAIN runQueue' :
          runQueue'[n] = r \/ (n \in DOMAIN runQueue /\ runQueue'[n] = runQueue[n])
    BY <1>1, <2>2
  <2> QED
    BY <1>1, <1>2, <2>1, <2>3, <2>4, <2>5 DEF RunQueueTyped, Begun
<1>4. ASSUME TakeRun
      PROVE  RunQueueTyped'
  <2>1. runQueue # <<>> /\ runQueue' = Tail(runQueue) /\ UNCHANGED <<runsStalled, runsFailed>>
    BY <1>4 DEF TakeRun
  <2>2. runQueue' \in Seq(Runs)
    BY <1>1, <2>1
  <2>3. \A n \in DOMAIN runQueue' : n + 1 \in DOMAIN runQueue /\ runQueue'[n] = runQueue[n + 1]
    BY <1>1, <2>1
  <2> QED
    BY <1>1, <1>2, <2>1, <2>2, <2>3 DEF RunQueueTyped, Begun
<1>5. ASSUME UNCHANGED <<runQueue, runsStalled>>, runsFailed' \subseteq Runs
      PROVE  RunQueueTyped'
  BY <1>1, <1>2, <1>5 DEF RunQueueTyped, Begun
<1>6. ASSUME runJob.pc # "free", GivenOutAgain(runJob.run)
      PROVE  RunQueueTyped'
  <2> DEFINE r == runJob.run
  <2>1. CASE r \in runsStalled
    BY <1>1, <1>5, <1>6, <2>1 DEF GivenOutAgain
  <2>2. CASE r \notin runsStalled
    <3>1. /\ runQueue' = <<r>> \o runQueue /\ runsStalled' = runsStalled \cup {r}
          /\ runsFailed' = runsFailed
      BY <1>6, <2>2 DEF GivenOutAgain
    <3>2. r \in Runs /\ Begun(r)
      BY <1>1, <1>6
    <3> HIDE DEF r
    <3>3. runQueue' \in Seq(Runs)
      BY <1>1, <3>1, <3>2
    <3>4. \A n \in DOMAIN runQueue' :
            runQueue'[n] = r \/ (n - 1 \in DOMAIN runQueue /\ runQueue'[n] = runQueue[n - 1])
      BY <1>1, <3>1, <3>2
    <3> QED
      BY <1>1, <1>2, <3>1, <3>2, <3>3, <3>4 DEF RunQueueTyped, Begun
  <2> QED
    BY <2>1, <2>2
<1> QED
  BY <1>1, <1>3, <1>4, <1>5, <1>6, RunQueueChanges

\* The job of the verification Worker.
LEMMA RunJobChanges ==
  ASSUME OutcomeInv, RunsTyped, OneReportAtATime, [RunsNext]_allVars
  PROVE  \/ TakeRun
         \/ RunStep
         \/ \E i \in Calls : SendEvidence(i)
         \/ runJob.pc # "free" /\ RunErrs
         \/ runJob' \in {runJob, NoRun}
<1>1. (CompilationStep /\ Alone) \/ RunStalls => runJob' = runJob
  BY DEF Alone, runVars, RunStalls
<1>2. ASSUME NEW k \in Clients, NEW r \in Runs, NEW c \in Compilations, AskForRun(k, r, c)
      PROVE  runJob' = runJob
  BY <1>2 DEF AskForRun
<1>3. ASSUME NEW k \in Clients, AskStep(k)
      PROVE  runJob' = runJob
  BY <1>3 DEF AskStep, InsertRow, EnqueueRun
<1>4. EvidenceLost => runJob.pc # "free" /\ RunErrs
  BY DEF EvidenceLost
<1>5. \A i \in Calls : runCalls[i].waiting \in BOOLEAN /\ (runCalls[i].waiting => runJob.pc # "free")
  BY DEF RunsTyped, RunCallsTyped, RunCall, OneReportAtATime, Awaits
<1>6. ASSUME NEW i \in Calls, NEW ok \in BOOLEAN, AnswerRun(i, ok)
      PROVE  (runJob.pc # "free" /\ RunErrs) \/ runJob' \in {runJob, NoRun}
  BY <1>5, <1>6 DEF AnswerRun
<1>7. ASSUME NEW i \in Calls, EvidenceAnswerLost(i) \/ TakeEvidence(i)
      PROVE  (runJob.pc # "free" /\ RunErrs) \/ runJob' \in {runJob, NoRun}
  <2>1. CASE EvidenceAnswerLost(i)
    BY <1>5, <2>1 DEF EvidenceAnswerLost
  <2>2. CASE ReadRow(i)
    BY <1>6, <2>2 DEF ReadRow
  <2>3. CASE ConcludeRun(i)
    BY <1>6, <2>3 DEF ConcludeRun
  <2> QED
    BY <1>7, <2>1, <2>2, <2>3 DEF TakeEvidence
<1>8. ASSUME NEW b \in Builds, RestartWorker(b)
      PROVE  runJob' = NoRun
  BY <1>8 DEF RestartWorker
<1>9. RestartControlPlane => (runJob.pc # "free" /\ RunErrs) \/ runJob' = runJob
  BY <1>5 DEF RestartControlPlane
<1>10. UNCHANGED allVars => runJob' = runJob
  BY DEF allVars, runVars
<1> QED
  BY <1>1, <1>2, <1>3, <1>4, <1>7, <1>8, <1>9, <1>10 DEF RunsNext, EvidenceStep

LEMMA SendingGoesOn ==
  ASSUME RunsTyped, NEW i \in Calls, SendEvidence(i)
  PROVE  /\ runJob.pc \in AtEnd /\ runJob' \in RunJob
         /\ runJob'.run = runJob.run /\ runJob'.pc \in Awaits
<1> DEFINE pc == IF runJob.pc = "report" THEN "await" ELSE "awaitFailure"
<1>1. runJob \in RunJob /\ runJob' = [runJob EXCEPT !.pc = pc] /\ runJob.pc \in AtEnd
  BY DEF SendEvidence, RunsTyped, RunJobTyped, AtEnd
<1>2. pc \in Awaits
  BY DEF Awaits
<1> HIDE DEF pc
<1> QED
  BY <1>1, <1>2 DEF RunJob

LEMMA StepKeepsRunJobTyped ==
  ASSUME OutcomeInv, RunsTyped, OneReportAtATime, [RunsNext]_allVars
  PROVE  RunJobTyped'
<1>1. /\ runJob \in RunJob /\ (runJob.pc # "free" => runJob.run \in Runs /\ Begun(runJob.run))
      /\ runQueue \in Seq(Runs)
  BY DEF RunsTyped, RunJobTyped, RunQueueTyped
<1>2. \A r \in Runs : Begun(r) => Begun(r)'
  BY StepKeepsBegun DEF BegunKept
<1>3. CASE TakeRun
  <2> DEFINE r == Head(runQueue)
  <2>1. r \in Runs /\ Begun(r)
    <3>1. 1 \in DOMAIN runQueue /\ r = runQueue[1]
      BY <1>1, <1>3 DEF TakeRun
    <3> QED
      BY <1>1, <3>1 DEF RunsTyped, RunQueueTyped
  <2>2. runJob' = [NoRun EXCEPT !.pc = "compile", !.run = r]
    BY <1>3 DEF TakeRun
  <2> HIDE DEF r
  <2>3. runJob' \in RunJob /\ runJob'.run = r
    BY <2>1, <2>2, NoRunTyped DEF RunJob, AtWork
  <2> QED
    BY <1>2, <2>1, <2>3 DEF RunJobTyped, Begun
<1>4. ASSUME runJob' \in RunJob, runJob'.pc # "free" => runJob.pc # "free" /\ runJob'.run = runJob.run
      PROVE  RunJobTyped'
  BY <1>1, <1>2, <1>4 DEF RunJobTyped, Begun
<1>5. CASE RunStep
  BY <1>4, <1>5, ExecutionStep DEF Executes, AtWork
<1>6. CASE \E i \in Calls : SendEvidence(i)
  BY <1>4, <1>6, SendingGoesOn DEF AtEnd
<1>7. CASE runJob.pc # "free" /\ RunErrs
  BY <1>4, <1>7, RunErrsGoesOn
<1>8. CASE runJob' \in {runJob, NoRun}
  BY <1>1, <1>4, <1>8, NoRunTyped
<1> QED
  BY <1>3, <1>5, <1>6, <1>7, <1>8, RunJobChanges

\* A report that is handled stays what it is until it is answered.
RunCallsGoOn ==
  /\ runCalls' \in [Calls -> RunCall]
  /\ \A i \in Calls : runCalls'[i].pc # "free" =>
       /\ runCalls[i].pc # "free" /\ runCalls'[i].run = runCalls[i].run
       /\ runCalls'[i].cleaned = runCalls[i].cleaned
  /\ \A i \in Calls : runCalls'[i].waiting => runCalls[i].waiting

LEMMA RunCallsChange ==
  ASSUME OutcomeInv, RunsTyped, [RunsNext]_allVars
  PROVE  (\E i \in Calls : SendEvidence(i)) \/ RunCallsGoOn
<1>1. runCalls \in [Calls -> RunCall]
  BY DEF RunsTyped, RunCallsTyped
<1>2. runCalls' = runCalls => RunCallsGoOn
  BY <1>1 DEF RunCallsGoOn
<1>3. (CompilationStep /\ Alone) \/ TakeRun \/ RunStalls \/ EvidenceLost \/ UNCHANGED allVars
        => runCalls' = runCalls
  BY DEF Alone, runVars, TakeRun, RunStalls, EvidenceLost, allVars
<1>4. RunStep => runCalls' = runCalls
  BY ExecutionStep DEF Executes
<1>5. ASSUME NEW k \in Clients, NEW r \in Runs, NEW c \in Compilations, AskForRun(k, r, c)
      PROVE  runCalls' = runCalls
  BY <1>5 DEF AskForRun
<1>6. ASSUME NEW k \in Clients, AskStep(k)
      PROVE  runCalls' = runCalls
  BY <1>6 DEF AskStep, InsertRow, EnqueueRun
<1>7. NoRunCall \in RunCall /\ NoRunCall.pc = "free" /\ NoRunCall.waiting = FALSE
  BY DEF NoRunCall, RunCall, Terminal
<1>8. ASSUME NEW i \in Calls, \/ runCalls' = [runCalls EXCEPT ![i].waiting = FALSE]
                              \/ runCalls' = [runCalls EXCEPT ![i] = NoRunCall]
                              \/ /\ runCalls' = [runCalls EXCEPT ![i].pc = "write"]
                                 /\ runCalls[i].pc = "read"
      PROVE  RunCallsGoOn
  <2>1. CASE runCalls' = [runCalls EXCEPT ![i].waiting = FALSE]
    BY <1>1, <2>1 DEF RunCallsGoOn, RunCall
  <2>2. CASE runCalls' = [runCalls EXCEPT ![i] = NoRunCall]
    BY <1>1, <1>7, <2>2 DEF RunCallsGoOn
  <2>3. CASE runCalls' = [runCalls EXCEPT ![i].pc = "write"] /\ runCalls[i].pc = "read"
    BY <1>1, <2>3 DEF RunCallsGoOn, RunCall
  <2> QED
    BY <1>8, <2>1, <2>2, <2>3
<1>9. ASSUME NEW i \in Calls, EvidenceAnswerLost(i) \/ TakeEvidence(i)
      PROVE  RunCallsGoOn
  <2>1. CASE EvidenceAnswerLost(i)
    BY <1>8, <2>1 DEF EvidenceAnswerLost
  <2>2. CASE ReadRow(i)
    BY <1>8, <2>2 DEF ReadRow, AnswerRun
  <2>3. CASE ConcludeRun(i)
    BY <1>8, <2>3 DEF ConcludeRun, AnswerRun
  <2> QED
    BY <1>9, <2>1, <2>2, <2>3 DEF TakeEvidence
<1>10. ASSUME NEW b \in Builds, RestartWorker(b)
      PROVE  RunCallsGoOn
  <2>1. runCalls' = [i \in Calls |-> [runCalls[i] EXCEPT !.waiting = FALSE]]
    BY <1>10 DEF RestartWorker
  <2> QED
    BY <1>1, <2>1 DEF RunCallsGoOn, RunCall
<1>11. RestartControlPlane => RunCallsGoOn
  <2>1. RestartControlPlane => runCalls' = [i \in Calls |-> NoRunCall]
    BY DEF RestartControlPlane
  <2> QED
    BY <1>7, <2>1 DEF RunCallsGoOn
<1> QED
  BY <1>2, <1>3, <1>4, <1>5, <1>6, <1>9, <1>10, <1>11 DEF RunsNext, EvidenceStep

\* The evidence that is sent.
LEMMA SentEvidence ==
  ASSUME RunsTyped, NEW i \in Calls, SendEvidence(i)
  PROVE  /\ runCalls' \in [Calls -> RunCall]
         /\ \A j \in Calls : j # i => runCalls'[j] = runCalls[j]
         /\ runCalls'[i].run = runJob.run /\ runJob.run \in Runs
         /\ runCalls'[i].cleaned => runJob.pc = "report" /\ runJob.cleaned
<1> DEFINE whole == runJob.pc = "report"
           st == IF whole /\ runJob.passed THEN "succeeded" ELSE "failed"
           cl == whole /\ runJob.cleaned
           q == [pc |-> "read", run |-> runJob.run, waiting |-> TRUE, status |-> st,
                 cleaned |-> cl]
<1>1. runJob \in RunJob /\ runJob.run \in Runs /\ runCalls \in [Calls -> RunCall]
  BY DEF RunsTyped, RunJobTyped, RunCallsTyped, SendEvidence
<1>2. runCalls' = [runCalls EXCEPT ![i] = q]
  BY DEF SendEvidence
<1>3. st \in Terminal
  BY DEF Terminal
<1>4. cl \in BOOLEAN
  BY <1>1 DEF RunJob
<1> HIDE DEF st, cl
<1>5. q \in RunCall
  BY <1>1, <1>3, <1>4 DEF RunCall
<1>6. runCalls'[i] = q
  BY <1>1, <1>2
<1> QED
  BY <1>1, <1>2, <1>5, <1>6 DEF cl

LEMMA StepKeepsRunCallsTyped ==
  ASSUME OutcomeInv, RunsTyped, [RunsNext]_allVars
  PROVE  RunCallsTyped'
<1>1. \A i \in Calls : runCalls[i].pc # "free" => runCalls[i].run \in Runs /\ Begun(runCalls[i].run)
  BY DEF RunsTyped, RunCallsTyped
<1>2. \A r \in Runs : Begun(r) => Begun(r)'
  BY StepKeepsBegun DEF BegunKept
<1>3. CASE RunCallsGoOn
  BY <1>1, <1>2, <1>3 DEF RunCallsGoOn, RunCallsTyped, Begun
<1>4. ASSUME NEW i \in Calls, SendEvidence(i)
      PROVE  RunCallsTyped'
  <2>1. runJob.run \in Runs /\ Begun(runJob.run)
    BY <1>4 DEF SendEvidence, RunsTyped, RunJobTyped
  <2> QED
    BY <1>1, <1>2, <1>4, <2>1, SentEvidence DEF RunCallsTyped, Begun
<1> QED
  BY <1>3, <1>4, RunCallsChange

LEMMA StepKeepsEnvironmentTyped ==
  ASSUME OutcomeInv, RunsTyped, [RunsNext]_allVars
  PROVE  EnvironmentTyped' /\ workload' = workload /\ runFaults' \in Nat
<1>1. copies \in [Runs -> Copy] /\ running \in [Runs -> Copy] /\ runFaults \in Nat
  BY DEF RunsTyped, EnvironmentTyped
<1> DEFINE Same == UNCHANGED <<copies, running, workload>> /\ runFaults' \in Nat
<1>2. RunStep => EnvironmentTyped' /\ workload' = workload /\ runFaults' \in Nat
  BY ExecutionStep DEF Executes, EnvironmentTyped
<1>3. (CompilationStep /\ Alone) \/ UNCHANGED allVars => Same
  BY <1>1 DEF Alone, runVars, allVars
<1>4. TakeRun \/ RunStalls \/ EvidenceLost => Same
  BY <1>1, RunFaultCounts DEF TakeRun, RunStalls, EvidenceLost
<1>5. ASSUME NEW k \in Clients, NEW r \in Runs, NEW c \in Compilations, AskForRun(k, r, c)
      PROVE  Same
  BY <1>1, <1>5 DEF AskForRun
<1>6. ASSUME NEW k \in Clients, AskStep(k)
      PROVE  Same
  BY <1>1, <1>6, RunFaultCounts DEF AskStep, InsertRow, EnqueueRun
<1>7. ASSUME NEW i \in Calls, SendEvidence(i) \/ EvidenceAnswerLost(i) \/ TakeEvidence(i)
      PROVE  Same
  BY <1>1, <1>7, RunFaultCounts
  DEF SendEvidence, EvidenceAnswerLost, TakeEvidence, ReadRow, ConcludeRun
<1>8. ASSUME NEW b \in Builds, RestartWorker(b)
      PROVE  Same
  BY <1>1, <1>8, RunFaultCounts DEF RestartWorker
<1>9. RestartControlPlane => Same
  BY <1>1, RunFaultCounts DEF RestartControlPlane
<1>10. Same => EnvironmentTyped' /\ workload' = workload /\ runFaults' \in Nat
  BY <1>1 DEF EnvironmentTyped
<1> QED
  BY <1>2, <1>3, <1>4, <1>5, <1>6, <1>7, <1>8, <1>9, <1>10 DEF RunsNext, EvidenceStep

LEMMA StepReportsOnce ==
  ASSUME OutcomeInv, RunsTyped, OneReportAtATime, [RunsNext]_allVars
  PROVE  OneReportAtATime'
<1>1. /\ runCalls \in [Calls -> RunCall]
      /\ \A i \in Calls : runCalls[i].waiting => runJob.pc \in Awaits
      /\ \A i, j \in Calls : runCalls[i].waiting /\ runCalls[j].waiting => i = j
  BY DEF RunsTyped, RunCallsTyped, OneReportAtATime
<1> DEFINE Nobody == \A i \in Calls : ~runCalls'[i].waiting
<1>2. Nobody => OneReportAtATime'
  BY DEF OneReportAtATime
<1>3. runCalls' = runCalls /\ runJob' = runJob => OneReportAtATime'
  BY DEF OneReportAtATime
<1>4. runCalls' = runCalls /\ runJob.pc \notin Awaits => Nobody
  BY <1>1
<1>5. ASSUME NEW i \in Calls, SendEvidence(i)
      PROVE  OneReportAtATime'
  <2>1. runJob.pc \notin Awaits /\ runJob'.pc \in Awaits
    BY <1>5, SendingGoesOn DEF AtEnd, Awaits
  <2>2. \A j \in Calls : runCalls'[j].waiting => j = i
    BY <1>1, <1>5, <2>1, SentEvidence
  <2> QED
    BY <2>1, <2>2 DEF OneReportAtATime
<1>6. NoRunCall.waiting = FALSE
  BY DEF NoRunCall
<1>7. ASSUME NEW i \in Calls, NEW ok \in BOOLEAN, AnswerRun(i, ok)
      PROVE  OneReportAtATime'
  <2>1. runCalls' = [runCalls EXCEPT ![i] = NoRunCall]
    BY <1>7 DEF AnswerRun
  <2>2. CASE runCalls[i].waiting
    BY <1>1, <1>2, <1>6, <2>1, <2>2
  <2>3. CASE ~runCalls[i].waiting
    <3>1. runJob' = runJob
      BY <1>7, <2>3 DEF AnswerRun
    <3> QED
      BY <1>1, <1>6, <2>1, <3>1 DEF OneReportAtATime
  <2> QED
    BY <2>2, <2>3
<1>8. ASSUME NEW i \in Calls, EvidenceAnswerLost(i) \/ TakeEvidence(i)
      PROVE  OneReportAtATime'
  <2>1. CASE EvidenceAnswerLost(i)
    <3>1. runCalls[i].waiting /\ runCalls' = [runCalls EXCEPT ![i].waiting = FALSE]
      BY <2>1 DEF EvidenceAnswerLost
    <3> QED
      BY <1>1, <1>2, <3>1 DEF RunCall
  <2>2. CASE ReadRow(i)
    <3>1. CASE Concluded(runCalls[i].run)
      BY <1>7, <2>2, <3>1 DEF ReadRow
    <3>2. CASE ~Concluded(runCalls[i].run)
      <4>1. runCalls' = [runCalls EXCEPT ![i].pc = "write"] /\ runJob' = runJob
        BY <2>2, <3>2 DEF ReadRow
      <4>2. \A j \in Calls : runCalls'[j].waiting = runCalls[j].waiting
        BY <1>1, <4>1 DEF RunCall
      <4> QED
        BY <1>1, <4>1, <4>2 DEF OneReportAtATime
    <3> QED
      BY <3>1, <3>2
  <2>3. CASE ConcludeRun(i)
    BY <1>7, <2>3 DEF ConcludeRun
  <2> QED
    BY <1>8, <2>1, <2>2, <2>3 DEF TakeEvidence
<1>9. ASSUME NEW b \in Builds, RestartWorker(b)
      PROVE  Nobody
  <2>1. runCalls' = [i \in Calls |-> [runCalls[i] EXCEPT !.waiting = FALSE]]
    BY <1>9 DEF RestartWorker
  <2> QED
    BY <1>1, <2>1 DEF RunCall
<1>10. RestartControlPlane => Nobody
  BY <1>6 DEF RestartControlPlane
<1>11. (CompilationStep /\ Alone) \/ RunStalls \/ UNCHANGED allVars
         => runCalls' = runCalls /\ runJob' = runJob
  BY DEF Alone, runVars, RunStalls, allVars
<1>12. ASSUME NEW k \in Clients, NEW r \in Runs, NEW c \in Compilations, AskForRun(k, r, c)
       PROVE  runCalls' = runCalls /\ runJob' = runJob
  BY <1>12 DEF AskForRun
<1>13. ASSUME NEW k \in Clients, AskStep(k)
       PROVE  runCalls' = runCalls /\ runJob' = runJob
  BY <1>13 DEF AskStep, InsertRow, EnqueueRun
<1>14. TakeRun \/ EvidenceLost => Nobody
  BY <1>4 DEF TakeRun, EvidenceLost, Awaits
<1>15. RunStep => Nobody
  BY <1>4, ExecutionStep DEF Executes, AtWork, Awaits
<1> QED
  BY <1>2, <1>3, <1>5, <1>8, <1>9, <1>10, <1>11, <1>12, <1>13, <1>14, <1>15
  DEF RunsNext, EvidenceStep

LEMMA InitRunsTyped == RunsInit => RunsTyped /\ OneReportAtATime
<1> SUFFICES ASSUME RunsInit PROVE RunsTyped /\ OneReportAtATime
  OBVIOUS
<1>1. RowsTyped
  BY DEF RunsInit, RowsTyped, NoRow, RunRow, Begun
<1>2. AsksTyped
  BY DEF RunsInit, AsksTyped, AskFits, NoAsk, Ask
<1>3. RunQueueTyped
  BY DEF RunsInit, RunQueueTyped
<1>4. RunJobTyped
  BY NoRunTyped DEF RunsInit, RunJobTyped
<1>5. RunCallsTyped /\ OneReportAtATime
  BY DEF RunsInit, RunCallsTyped, OneReportAtATime, NoRunCall, RunCall, Terminal
<1>6. EnvironmentTyped
  BY NoRunTyped DEF RunsInit, EnvironmentTyped
<1> QED
  BY <1>1, <1>2, <1>3, <1>4, <1>5, <1>6 DEF RunsTyped, RunsInit

VerifiedInv == OutcomeInv /\ RunsTypeInv

LEMMA VerifiedInductive == RunsSpec => []VerifiedInv
<1>1. RunsInit => VerifiedInv
  <2>1. Init => EvidenceIffSucceeded
    BY DEF Init, EvidenceIffSucceeded
  <2>2. Init => OneThingAtATime
    BY DEF Init, OneThingAtATime, NoWrite, WriteTo, NoCall, Writers
  <2> QED
    BY <2>1, <2>2, InitTyped, InitRunsTyped
    DEF RunsInit, VerifiedInv, OutcomeInv, TypeInv, RunsTypeInv
<1>2. VerifiedInv /\ [RunsNext]_allVars => VerifiedInv'
  <2> SUFFICES ASSUME OutcomeInv, RunsTyped, OneReportAtATime, [RunsNext]_allVars
               PROVE  OutcomeInv' /\ RunsTyped' /\ OneReportAtATime'
    BY DEF VerifiedInv, RunsTypeInv
  <2>1. [Next]_vars
    BY StepIsCompilationStep
  <2>2. OutcomeInv'
    BY <2>1, StepTyped, StepGoesOn, StepRefines DEF OutcomeInv, TypeInv
  <2>3. RunsTyped'
    BY StepKeepsBegun, StepKeepsAsksTyped, StepKeepsRunQueueTyped, StepKeepsRunJobTyped,
       StepKeepsRunCallsTyped, StepKeepsEnvironmentTyped DEF RunsTyped
  <2> QED
    BY <2>2, <2>3, StepReportsOnce
<1> QED
  BY <1>1, <1>2, PTL DEF RunsSpec

(* Types: a verification run that is asked for, queued, executed or        *)
(* reported always has its row, whatever fails or restarts.                *)
THEOREM RunsTypeCorrect == RunsSpec => []RunsTypeOK
  BY VerifiedInductive, RunsTypedIsTypeOK, PTL DEF VerifiedInv, RunsTypeInv

(* Verification implements compilation: with its jobs, restarts and        *)
(* reports, a verification only ever does to compilations what a step of   *)
(* theirs does, so that what is proved of every behaviour of Compilations  *)
(* holds while their applications are verified.                            *)
THEOREM VerificationImplementsCompilation == RunsSpec => Spec
<1>1. RunsInit => Init
  BY DEF RunsInit
<1>2. VerifiedInv /\ [RunsNext]_allVars => [Next]_vars
  BY StepIsCompilationStep DEF VerifiedInv, RunsTypeInv
<1> QED
  BY <1>1, <1>2, VerifiedInductive, PTL DEF RunsSpec, Spec

(* So a compilation is decided once, with evidence that is whole, and what *)
(* is announced has been written, also while it is verified.               *)
THEOREM VerifiedIsDecidedOnce == RunsSpec => ImplementsOutcome
  BY VerificationImplementsCompilation, DecidedOnce

THEOREM VerifiedWasWritten == RunsSpec => []AnnouncedFilesExist
  BY VerificationImplementsCompilation, AnnouncedWasWritten

-----------------------------------------------------------------------------
(***************************************************************************)
(* The environment of a run.  Its files are read one by one, and each that *)
(* was read is what the compilation recorded, because a record stays.      *)
(***************************************************************************)
Record(r) == [f \in Files |-> artifacts[row[r].comp]]

ReadIsTheRecord ==
  /\ runJob.pc = "compile" => runJob.next = 1
  /\ runJob.pc = "read" => \A f \in Files : f < runJob.next =>
       runJob.read[f] = artifacts[row[runJob.run].comp]
  /\ runJob.pc = "copy" => runJob.read = Record(runJob.run)
  /\ runJob.pc = "up" => copies[runJob.run] = Record(runJob.run)

RunningBegan == \A r \in Runs : running[r] # Nothing => Begun(r)

RecordInv == ReadIsTheRecord /\ RunningBegan /\ EnvironmentRunsTheRecord

\* Only the executed run's environment changes, and only in its execution.
LEMMA EnvironmentChanges ==
  ASSUME OutcomeInv, RunsTyped, [RunsNext]_allVars
  PROVE  RunStep \/ UNCHANGED <<copies, running>>
<1>1. (CompilationStep /\ Alone) \/ TakeRun \/ RunStalls \/ EvidenceLost \/ UNCHANGED allVars
        => UNCHANGED <<copies, running>>
  BY DEF Alone, runVars, allVars, TakeRun, RunStalls, EvidenceLost
<1>2. ASSUME NEW k \in Clients, NEW r \in Runs, NEW c \in Compilations, AskForRun(k, r, c)
      PROVE  UNCHANGED <<copies, running>>
  BY <1>2 DEF AskForRun
<1>3. ASSUME NEW k \in Clients, AskStep(k)
      PROVE  UNCHANGED <<copies, running>>
  BY <1>3 DEF AskStep, InsertRow, EnqueueRun
<1>4. ASSUME NEW i \in Calls, SendEvidence(i) \/ EvidenceAnswerLost(i) \/ TakeEvidence(i)
      PROVE  UNCHANGED <<copies, running>>
  BY <1>4 DEF SendEvidence, EvidenceAnswerLost, TakeEvidence, ReadRow, ConcludeRun
<1>5. (\E b \in Builds : RestartWorker(b)) \/ RestartControlPlane => UNCHANGED <<copies, running>>
  BY DEF RestartWorker, RestartControlPlane
<1> QED
  BY <1>1, <1>2, <1>3, <1>4, <1>5 DEF RunsNext, EvidenceStep

LEMMA OthersStay ==
  ASSUME RunsTyped, RunStep, NEW r \in Runs, r # runJob.run
  PROVE  copies'[r] = copies[r] /\ running'[r] = running[r]
<1>1. copies \in [Runs -> Copy] /\ running \in [Runs -> Copy]
  BY DEF RunsTyped, EnvironmentTyped
<1>2. RunWrites \/ RunCompiled \/ ReadShared \/ Probe \/ RunJourneyTests
        => UNCHANGED <<copies, running>>
  BY DEF RunWrites, RunCompiled, ReadShared, Probe, RunJourneyTests, KeepRunsBut
<1>3. CopyFiles => copies'[r] = copies[r] /\ running'[r] = running[r]
  BY <1>1 DEF CopyFiles
<1>4. Boot \/ UndoBoot => copies'[r] = copies[r] /\ running'[r] = running[r]
  BY <1>1 DEF Boot, UndoBoot
<1>5. Cleanup => copies'[r] = copies[r] /\ running'[r] = running[r]
  BY <1>1 DEF Cleanup
<1> QED
  BY <1>2, <1>3, <1>4, <1>5 DEF RunStep, EnvironmentStep

LEMMA RecordStays ==
  ASSUME OutcomeInv, RunsTyped, [RunsNext]_allVars, NEW r \in Runs, Begun(r)
  PROVE  Begun(r)' /\ artifacts'[row'[r].comp] = artifacts[row[r].comp] /\ Record(r)' = Record(r)
<1>1. BegunKept /\ SucceededKept
  BY StepKeepsBegun
<1>2. Succeeded(row[r].comp)
  BY DEF RunsTyped, RowsTyped
<1>3. artifacts'[row'[r].comp] = artifacts[row[r].comp]
  BY <1>1, <1>2 DEF BegunKept, SucceededKept, Succeeded
<1> QED
  BY <1>1, <1>3 DEF BegunKept, Record

LEMMA StepKeepsReading ==
  ASSUME OutcomeInv, RunsTyped, OneReportAtATime, RecordInv, [RunsNext]_allVars
  PROVE  ReadIsTheRecord'
<1> DEFINE r == runJob.run
<1>1. /\ runJob \in RunJob /\ ReadIsTheRecord
      /\ copies \in [Runs -> Copy] /\ FileCount \in Nat
  BY CompilationAssumption DEF RunsTyped, RunJobTyped, EnvironmentTyped, RecordInv
<1>2. runJob.pc # "free" => r \in Runs /\ artifacts'[row'[r].comp] = artifacts[row[r].comp]
  <2>1. \A s \in Runs : Begun(s) => artifacts'[row'[s].comp] = artifacts[row[s].comp]
    BY RecordStays
  <2>2. runJob.pc # "free" => r \in Runs /\ Begun(r)
    BY DEF RunsTyped, RunJobTyped
  <2> QED
    BY <2>1, <2>2
<1>3. ASSUME runJob'.pc \notin {"compile", "read", "copy", "up"}
      PROVE  ReadIsTheRecord'
  BY <1>3 DEF ReadIsTheRecord
<1>4. ASSUME runJob' = runJob, UNCHANGED copies
      PROVE  ReadIsTheRecord'
  BY <1>1, <1>2, <1>4 DEF ReadIsTheRecord, Record
<1>5. CASE TakeRun
  <2>1. runJob'.pc = "compile" /\ runJob'.next = 1
    BY <1>5 DEF TakeRun, NoRun
  <2> QED
    BY <2>1 DEF ReadIsTheRecord
<1>6. CASE RunStep
  <2>1. CASE RunWrites
    <3>1. UNCHANGED copies /\ runJob' \in {runJob, [runJob EXCEPT !.pc = "failing"]}
      BY <2>1 DEF RunWrites, KeepRunsBut
    <3>2. runJob' # runJob => runJob'.pc = "failing"
      BY <1>1, <3>1 DEF RunJob
    <3> QED
      BY <1>3, <1>4, <3>1, <3>2
  <2>2. CASE RunCompiled
    <3> DEFINE pc == CASE workload = "v3" -> "test"
                       [] workload = "v1" /\ DigestMatches(r) -> "read"
                       [] OTHER -> "failing"
    <3>1. pc \in {"test", "read", "failing"}
      OBVIOUS
    <3>2. runJob' = [runJob EXCEPT !.pc = pc] /\ runJob.pc = "compile"
      BY <2>2 DEF RunCompiled
    <3> HIDE DEF pc
    <3>3. runJob'.pc \in {"test", "read", "failing"} /\ runJob'.next = runJob.next
      BY <1>1, <3>1, <3>2 DEF RunJob
    <3>4. runJob'.next = 1
      BY <1>1, <3>3, <3>2 DEF ReadIsTheRecord
    <3>5. \A f \in Files : ~(f < 1)
      BY <1>1 DEF Files
    <3> QED
      BY <3>3, <3>4, <3>5 DEF ReadIsTheRecord
  <2>3. CASE ReadShared
    <3> DEFINE c == row[r].comp
               f == runJob.next
    <3>1. runJob.pc = "read" /\ f \in 1 .. FileCount + 1
      BY <1>1, <2>3 DEF ReadShared, RunJob
    <3>2. \A g \in Files : g < f => runJob.read[g] = artifacts[c]
      BY <1>1, <3>1 DEF ReadIsTheRecord
    <3>3. runJob.read \in Copy
      BY <1>1 DEF RunJob
    <3>4. f > FileCount <=> ~(f <= FileCount)
      BY <1>1, <3>1
    <3>5. CASE f > FileCount
      <4>1. runJob' = [runJob EXCEPT !.pc = "copy"]
        BY <2>3, <3>4, <3>5 DEF ReadShared
      <4>2. \A g \in Files : g < f
        BY <1>1, <3>1, <3>5 DEF Files
      <4>3. runJob.read = [g \in Files |-> artifacts[c]]
        BY <3>2, <3>3, <4>2 DEF Copy
      <4>4. runJob'.pc = "copy" /\ runJob'.read = runJob.read /\ runJob'.run = r
        BY <1>1, <4>1 DEF RunJob
      <4> QED
        BY <1>2, <3>1, <4>3, <4>4 DEF ReadIsTheRecord, Record
    <3>6. CASE ~(f > FileCount) /\ SameFile(c, f)
      <4>1. f \in Files /\ f <= FileCount
        BY <1>1, <3>1, <3>6 DEF Files
      <4> DEFINE v == files[pub[c]][f]
      <4>2. runJob' = [runJob EXCEPT !.next = f + 1, !.read[f] = v]
        BY <2>3, <3>6, <4>1 DEF ReadShared
      <4>3. v = artifacts[c]
        BY <3>6 DEF SameFile
      <4> HIDE DEF v
      <4>4. /\ runJob'.pc = "read" /\ runJob'.run = r /\ runJob'.next = f + 1
            /\ runJob'.read = [runJob.read EXCEPT ![f] = v]
        BY <1>1, <3>1, <4>2 DEF RunJob
      <4>5. \A g \in Files : g < f + 1 => g = f \/ g < f
        BY <3>1 DEF Files
      <4>6. \A g \in Files : g < f + 1 => runJob'.read[g] = artifacts[c]
        BY <3>2, <3>3, <4>1, <4>3, <4>4, <4>5 DEF Copy
      <4> QED
        BY <1>2, <3>1, <4>4, <4>6 DEF ReadIsTheRecord
    <3>7. CASE ~(f > FileCount) /\ ~SameFile(c, f)
      <4>1. BootFails(TRUE)
        BY <2>3, <3>7 DEF ReadShared
      <4>2. runJob'.pc = "cleanup"
        BY <1>1, <4>1 DEF BootFails, RunJob
      <4> QED
        BY <1>3, <4>2
    <3> QED
      BY <3>5, <3>6, <3>7
  <2>4. CASE CopyFiles
    <3>1. CASE BootFails(TRUE) \/ BootFails(FALSE)
      <4>1. runJob'.pc = "cleanup"
        BY <1>1, <3>1 DEF BootFails, RunJob
      <4> QED
        BY <1>3, <4>1
    <3>2. CASE copies' = [copies EXCEPT ![r] = runJob.read] /\ runJob' = [runJob EXCEPT !.pc = "up"]
      <4>1. runJob.pc = "copy" /\ r \in Runs /\ runJob.read = [g \in Files |-> artifacts[row[r].comp]]
        BY <1>1, <1>2, <2>4 DEF CopyFiles, ReadIsTheRecord, Record
      <4>2. copies'[r] = runJob.read /\ runJob'.run = r /\ runJob'.pc = "up"
        BY <1>1, <3>2, <4>1 DEF RunJob
      <4> QED
        BY <1>2, <4>1, <4>2 DEF ReadIsTheRecord, Record
    <3> QED
      BY <2>4, <3>1, <3>2 DEF CopyFiles
  <2>5. CASE Boot \/ UndoBoot \/ Probe \/ Cleanup \/ RunJourneyTests
    <3>1. CASE Boot
      <4>1. runJob'.pc \in {"probe", "undo"}
        BY <1>1, <3>1 DEF Boot, RunJob
      <4> QED
        BY <1>3, <4>1
    <3>2. CASE UndoBoot
      <4>1. runJob'.pc = "cleanup"
        BY <1>1, <3>2 DEF UndoBoot, BootFails, RunJob
      <4> QED
        BY <1>3, <4>1
    <3>3. CASE Probe \/ Cleanup \/ RunJourneyTests
      <4>1. Probe => runJob'.pc = "cleanup"
        BY <1>1 DEF Probe, RunJob
      <4>2. Cleanup => runJob'.pc = "report"
        BY <1>1 DEF Cleanup, CleanedUp, RunJob
      <4>3. RunJourneyTests => runJob'.pc \in {"report", "failing"}
        BY <1>1 DEF RunJourneyTests, RunJob
      <4> QED
        BY <1>3, <3>3, <4>1, <4>2, <4>3
    <3> QED
      BY <2>5, <3>1, <3>2, <3>3
  <2> QED
    BY <1>6, <2>1, <2>2, <2>3, <2>4, <2>5 DEF RunStep, EnvironmentStep
<1>7. CASE ~RunStep /\ ~TakeRun
  <2>1. (\E i \in Calls : SendEvidence(i)) => runJob'.pc \in Awaits
    BY SendingGoesOn
  <2>2. runJob.pc # "free" /\ RunErrs => runJob'.pc \in {"free", "failing"}
    BY RunErrsGoesOn
  <2>3. runJob' = NoRun => runJob'.pc = "free"
    BY NoRunTyped
  <2> QED
    BY <1>3, <1>4, <1>7, <2>1, <2>2, <2>3, RunJobChanges, EnvironmentChanges DEF Awaits
<1> QED
  BY <1>5, <1>6, <1>7

LEMMA StepKeepsRunning ==
  ASSUME OutcomeInv, RunsTyped, RecordInv, [RunsNext]_allVars
  PROVE  RunningBegan' /\ EnvironmentRunsTheRecord'
<1>1. running \in [Runs -> Copy] /\ ReadIsTheRecord
  BY DEF RunsTyped, EnvironmentTyped, RecordInv
<1>2. \A r \in Runs : Begun(r) => Begun(r)' /\ Record(r)' = Record(r)
  BY RecordStays
<1>3. \A r \in Runs : running[r] # Nothing => Begun(r) /\ running[r] = Record(r)
  BY DEF RecordInv, RunningBegan, EnvironmentRunsTheRecord, Record
<1>4. Nothing' = Nothing
  BY DEF Nothing
<1>5. ASSUME \A r \in Runs : running'[r] # Nothing => Begun(r) /\ running'[r] = Record(r)
      PROVE  RunningBegan' /\ EnvironmentRunsTheRecord'
  <2>1. \A r \in Runs : running'[r] # Nothing => Begun(r)' /\ running'[r] = Record(r)'
    BY <1>2, <1>5
  <2> QED
    BY <1>4, <2>1 DEF RunningBegan, EnvironmentRunsTheRecord, Record
<1>6. CASE Boot
  <2>1. runJob.pc = "up" /\ running' = [running EXCEPT ![runJob.run] = copies[runJob.run]]
    BY <1>6 DEF Boot
  <2>2. Begun(runJob.run) /\ copies[runJob.run] = Record(runJob.run)
    BY <1>1, <2>1 DEF RunsTyped, RunJobTyped, ReadIsTheRecord
  <2>3. \A r \in Runs : running'[r] = running[r] \/ (r = runJob.run /\ running'[r] = copies[r])
    BY <1>1, <2>1
  <2> QED
    BY <1>3, <1>5, <2>2, <2>3
<1>7. ASSUME \A r \in Runs : running'[r] \in {running[r], Nothing}
      PROVE  RunningBegan' /\ EnvironmentRunsTheRecord'
  BY <1>3, <1>5, <1>7
<1>8. UndoBoot \/ Cleanup => \A r \in Runs : running'[r] \in {running[r], Nothing}
  BY <1>1 DEF UndoBoot, Cleanup
<1>9. RunWrites \/ RunCompiled \/ ReadShared \/ CopyFiles \/ Probe \/ RunJourneyTests
        => running' = running
  BY DEF RunWrites, RunCompiled, ReadShared, CopyFiles, Probe, RunJourneyTests, KeepRunsBut
<1> QED
  BY <1>6, <1>7, <1>8, <1>9, EnvironmentChanges DEF RunStep, EnvironmentStep

(* The containers of a run are only ever built from the files that its     *)
(* compilation recorded, whoever writes the shared directory meanwhile.    *)
THEOREM EnvironmentIsTheRecord == RunsSpec => []EnvironmentRunsTheRecord
<1>1. RunsInit => RecordInv
  BY DEF RunsInit, RecordInv, ReadIsTheRecord, RunningBegan, EnvironmentRunsTheRecord, NoRun
<1>2. VerifiedInv /\ RecordInv /\ [RunsNext]_allVars => RecordInv'
  BY StepKeepsReading, StepKeepsRunning DEF VerifiedInv, RunsTypeInv, RecordInv
<1>3. RecordInv => EnvironmentRunsTheRecord
  BY DEF RecordInv
<1> QED
  BY <1>1, <1>2, <1>3, VerifiedInductive, PTL DEF RunsSpec

(* With a sound Worker of one build, also while applications are verified, *)
(* the artifacts of a succeeded compilation can be served whenever nothing *)
(* is writing its publication.                                             *)
THEOREM VerifiedIsServed ==
  ASSUME SoundWorker
  PROVE  RunsSpec => []RegisteredIsOnDisk
  BY VerificationImplementsCompilation, SoundWorkerServesTheRecord

-----------------------------------------------------------------------------
(***************************************************************************)
(* Cleanup.  The job of a run that was never given out again comes once:   *)
(* it is asked for, queued or executed, one after the other, and nothing   *)
(* is said of its cleanup before its execution has come to its end.  From  *)
(* then on nobody touches its environment.                                 *)
(***************************************************************************)
Clean(r) == running[r] = Nothing /\ copies[r] = Nothing

AsksFor(k, r) == asked[k].pc = "enqueue" /\ asked[k].run = r
ToCome(r)     == r \in Waiting \/ \E k \in Clients : AsksFor(k, r)
Executed(r)   == runJob.pc # "free" /\ runJob.run = r

\* What is reported of a run, in a call that is handled or in its row.
Told(r) ==
  \/ row[r].cleaned
  \/ \E i \in Calls : runCalls[i].pc # "free" /\ runCalls[i].run = r /\ runCalls[i].cleaned

AskedOnce(r)  == \A k, l \in Clients : AsksFor(k, r) /\ AsksFor(l, r) => k = l
QueuedOnce(r) == \A m, n \in DOMAIN runQueue : runQueue[m] = r /\ runQueue[n] = r => m = n

\* A job that is to come has not come yet, and comes once.
ComesOnce(r) ==
  /\ ~Begun(r) \/ ToCome(r) => Clean(r) /\ ~Told(r) /\ ~Executed(r)
  /\ (\E k \in Clients : AsksFor(k, r)) => r \notin Waiting
  /\ AskedOnce(r) /\ QueuedOnce(r)

\* Its execution says that it is clean when it has nothing, or nothing any more.
ExecutedTruly(r) ==
  Executed(r) =>
    /\ runJob.pc \in AtWork => ~Told(r)
    /\ runJob.pc \in {"compile", "read", "copy", "test"} => Clean(r)
    /\ runJob.pc \in AtWork \ {"cleanup"} => ~runJob.cleaned
    /\ runJob.cleaned => Clean(r)

ToldTruly(r) == Told(r) => Clean(r)

TrulyClean(r) == ComesOnce(r) /\ ExecutedTruly(r) /\ ToldTruly(r)

CleanInv == \A r \in Runs : r \notin runsStalled => TrulyClean(r)

\* What a step leaves of each of these, unless it is one of the run itself.
AsksKept(r)  == \A k \in Clients : AsksFor(k, r)' => AsksFor(k, r)
QueueKept(r) == QueuedOnce(r)' /\ (r \in Waiting' => r \in Waiting)
JobKept(r) ==
  \/ runJob' = runJob
  \/ ~Executed(r)'
  \/ Executed(r) /\ runJob'.pc \notin AtWork /\ runJob'.cleaned = runJob.cleaned
EnvironmentKept(r) == copies'[r] = copies[r] /\ running'[r] = running[r]

LEMMA RestIsKept ==
  ASSUME NEW r \in Runs, TrulyClean(r), Begun(r) => Begun(r)', Told(r)' => Told(r),
         AsksKept(r), QueueKept(r), JobKept(r), EnvironmentKept(r)
  PROVE  TrulyClean(r)'
<1>1. ComesOnce(r) /\ ExecutedTruly(r) /\ ToldTruly(r)
  BY DEF TrulyClean
<1>2. Clean(r)' <=> Clean(r)
  BY DEF EnvironmentKept, Clean, Nothing
<1>3. /\ ToCome(r)' => ToCome(r)
      /\ (\E k \in Clients : AsksFor(k, r)') => \E k \in Clients : AsksFor(k, r)
      /\ r \in Waiting' => r \in Waiting
  BY DEF AsksKept, QueueKept, ToCome
<1>4. Executed(r)' => Executed(r)
  BY DEF JobKept, Executed
<1>5. AskedOnce(r)' /\ QueuedOnce(r)'
  BY <1>1 DEF AsksKept, QueueKept, AskedOnce, ComesOnce
<1>6. ComesOnce(r)'
  BY <1>1, <1>2, <1>3, <1>4, <1>5 DEF ComesOnce
<1>7. ExecutedTruly(r)'
  <2> SUFFICES ASSUME Executed(r)' PROVE
        /\ runJob'.pc \in AtWork => ~Told(r)'
        /\ runJob'.pc \in {"compile", "read", "copy", "test"} => Clean(r)'
        /\ runJob'.pc \in AtWork \ {"cleanup"} => ~runJob'.cleaned
        /\ runJob'.cleaned => Clean(r)'
    BY DEF ExecutedTruly
  <2>1. CASE runJob' = runJob
    BY <1>1, <1>2, <1>4, <2>1 DEF ExecutedTruly
  <2>2. CASE Executed(r) /\ runJob'.pc \notin AtWork /\ runJob'.cleaned = runJob.cleaned
    BY <1>1, <1>2, <2>2 DEF ExecutedTruly, AtWork
  <2> QED
    BY <2>1, <2>2 DEF JobKept
<1> QED
  BY <1>1, <1>2, <1>6, <1>7 DEF TrulyClean, ToldTruly

LEMMA ToldByCalls ==
  ASSUME OutcomeInv, RunsTyped, [RunsNext]_allVars, RunCallsGoOn, NEW r \in Runs
  PROVE  Told(r)' => Told(r)
<1>1. \A i \in Calls : runCalls'[i].pc # "free" /\ runCalls'[i].run = r /\ runCalls'[i].cleaned
        => runCalls[i].pc # "free" /\ runCalls[i].run = r /\ runCalls[i].cleaned
  BY DEF RunCallsGoOn
<1>2. row'[r].cleaned => Told(r)
  <2>1. row \in [Runs -> RunRow]
    BY DEF RunsTyped, RowsTyped
  <2>2. ASSUME NEW k \in Clients, InsertRow(k)
        PROVE  row'[r].cleaned = row[r].cleaned
    <3>1. row' = row \/ row' = [row EXCEPT ![asked[k].run].status = "pending",
                                           ![asked[k].run].comp = asked[k].comp]
      BY <2>2 DEF InsertRow
    <3> QED
      BY <2>1, <3>1 DEF RunRow
  <2>3. ASSUME NEW i \in Calls, ConcludeRun(i), row'[r].cleaned
        PROVE  Told(r)
    <3> DEFINE q == runCalls[i]
    <3>1. q.pc # "free" /\ row' = [row EXCEPT ![q.run].status = q.status,
                                              ![q.run].cleaned = q.cleaned]
      BY <2>3 DEF ConcludeRun
    <3>2. CASE q.run = r
      <4>1. row'[r].cleaned = q.cleaned
        BY <2>1, <3>1, <3>2 DEF RunRow
      <4> QED
        BY <2>3, <3>1, <3>2, <4>1 DEF Told
    <3>3. CASE q.run # r
      <4>1. row'[r].cleaned = row[r].cleaned
        BY <2>1, <3>1, <3>3
      <4> QED
        BY <2>3, <4>1 DEF Told
    <3> QED
      BY <3>2, <3>3
  <2> QED
    BY <2>2, <2>3, RunRowsChange DEF Told
<1> QED
  BY <1>1, <1>2 DEF Told

LEMMA ToldBySending ==
  ASSUME RunsTyped, NEW i \in Calls, SendEvidence(i), NEW r \in Runs
  PROVE  /\ UNCHANGED <<row, runsStalled, runQueue, asked, copies, running>>
         /\ Told(r)' => Told(r) \/ (runJob.run = r /\ runJob.cleaned)
<1>1. UNCHANGED <<row, runsStalled, runQueue, asked, copies, running>> /\ runCalls[i].pc = "free"
  BY DEF SendEvidence
<1>2. /\ \A j \in Calls : j # i => runCalls'[j] = runCalls[j]
      /\ runCalls'[i].run = runJob.run
      /\ runCalls'[i].cleaned => runJob.cleaned
  BY SentEvidence
<1> QED
  BY <1>1, <1>2 DEF Told

LEMMA AsksStay ==
  ASSUME OutcomeInv, RunsTyped, [RunsNext]_allVars, NEW r \in Runs
  PROVE  AsksKept(r) \/ \E k \in Clients : InsertRow(k) /\ asked[k].run = r
<1>1. asked \in [Clients -> Ask]
  BY DEF RunsTyped, AsksTyped
<1>2. ASSUME NEW k \in Clients, NEW s \in Runs, NEW c \in Compilations, AskForRun(k, s, c)
      PROVE  AsksKept(r)
  BY <1>1, <1>2 DEF AskForRun, AsksKept, AsksFor
<1>3. NoAsk.pc = "idle"
  BY DEF NoAsk
<1>4. ASSUME NEW k \in Clients, asked' = [asked EXCEPT ![k] = NoAsk]
      PROVE  AsksKept(r)
  BY <1>1, <1>3, <1>4 DEF AsksKept, AsksFor
<1>5. ASSUME NEW k \in Clients, InsertRow(k), asked[k].run # r
      PROVE  AsksKept(r)
  <2>1. CASE asked' = [asked EXCEPT ![k].pc = "enqueue"]
    BY <1>1, <1>5, <2>1 DEF AsksKept, AsksFor, Ask
  <2> QED
    BY <1>4, <1>5, <2>1 DEF InsertRow
<1>6. ASSUME NEW k \in Clients, EnqueueRun(k)
      PROVE  AsksKept(r)
  BY <1>4, <1>6 DEF EnqueueRun
<1>7. asked' = [k \in Clients |-> NoAsk] => AsksKept(r)
  BY <1>3 DEF AsksKept, AsksFor
<1>8. asked' = asked => AsksKept(r)
  BY DEF AsksKept, AsksFor
<1> QED
  BY <1>2, <1>5, <1>6, <1>7, <1>8, AsksChange

\* In a queue without its head every other place is where it was.
LEMMA RestOfQueue ==
  ASSUME RunsTyped, runQueue # <<>>, runQueue' = Tail(runQueue), NEW r \in Runs, QueuedOnce(r)
  PROVE  /\ QueuedOnce(r)'
         /\ r \in Waiting' => r \in Waiting /\ r # Head(runQueue)
<1>1. runQueue \in Seq(Runs)
  BY DEF RunsTyped, RunQueueTyped
<1>2. \A n \in DOMAIN runQueue' :
        /\ n \in Nat /\ n # 0
        /\ n + 1 \in DOMAIN runQueue /\ runQueue'[n] = runQueue[n + 1]
  BY <1>1
<1>3. 1 \in DOMAIN runQueue /\ runQueue[1] = Head(runQueue)
  BY <1>1
<1>4. \A m, n \in DOMAIN runQueue' : runQueue'[m] = r /\ runQueue'[n] = r => m = n
  BY <1>2 DEF QueuedOnce
<1>5. ASSUME NEW n \in DOMAIN runQueue', runQueue'[n] = r
      PROVE  r \in Waiting /\ r # Head(runQueue)
  BY <1>2, <1>3, <1>5 DEF Waiting, QueuedOnce
<1> QED
  BY <1>4, <1>5 DEF QueuedOnce, Waiting

\* A job that is given out again is another run's, or this one is among the stalled now.
LEMMA GivenOutBefore ==
  ASSUME RunsTyped, NEW r \in Runs, QueuedOnce(r), GivenOutAgain(runJob.run),
         r \notin runsStalled'
  PROVE  QueueKept(r)
<1>1. runQueue \in Seq(Runs)
  BY DEF RunsTyped, RunQueueTyped
<1>2. CASE runJob.run \in runsStalled
  BY <1>2 DEF GivenOutAgain, QueueKept, QueuedOnce, Waiting
<1>3. CASE runJob.run \notin runsStalled
  <2> DEFINE s == runJob.run
  <2>1. runQueue' = <<s>> \o runQueue /\ s # r
    BY <1>3 DEF GivenOutAgain
  <2> HIDE DEF s
  <2>2. \A n \in DOMAIN runQueue' : n \in Nat /\ (n # 1 =>
          n - 1 \in DOMAIN runQueue /\ runQueue'[n] = runQueue[n - 1])
    BY <1>1, <2>1
  <2>3. runQueue'[1] = s
    BY <1>1, <2>1
  <2>4. \A n \in DOMAIN runQueue' : runQueue'[n] = r =>
          n \in Nat /\ n - 1 \in DOMAIN runQueue /\ runQueue[n - 1] = r
    BY <2>1, <2>2, <2>3
  <2>5. \A m, n \in DOMAIN runQueue' : runQueue'[m] = r /\ runQueue'[n] = r => m - 1 = n - 1
    BY <2>4 DEF QueuedOnce
  <2>6. \A m, n \in DOMAIN runQueue' : runQueue'[m] = r /\ runQueue'[n] = r => m = n
    BY <2>4, <2>5
  <2> QED
    BY <2>4, <2>6 DEF QueueKept, QueuedOnce, Waiting
<1> QED
  BY <1>2, <1>3

LEMMA QueueStays ==
  ASSUME OutcomeInv, RunsTyped, OneReportAtATime, [RunsNext]_allVars, NEW r \in Runs,
         QueuedOnce(r), r \notin runsStalled'
  PROVE  QueueKept(r) \/ \E k \in Clients : EnqueueRun(k) /\ asked[k].run = r
<1>1. runQueue \in Seq(Runs)
  BY DEF RunsTyped, RunQueueTyped
<1>2. ASSUME NEW k \in Clients, EnqueueRun(k), asked[k].run # r
      PROVE  QueueKept(r)
  <2> DEFINE s == asked[k].run
  <2>1. CASE runQueue' = runQueue
    BY <2>1 DEF QueueKept, QueuedOnce, Waiting
  <2>2. CASE runQueue' = Append(runQueue, s)
    <3>1. s # r
      BY <1>2
    <3> HIDE DEF s
    <3>2. \A n \in DOMAIN runQueue' : runQueue'[n] = r =>
            n \in DOMAIN runQueue /\ runQueue[n] = r
      BY <1>1, <2>2, <3>1
    <3>3. r \in Waiting' => r \in Waiting
      BY <3>2 DEF Waiting
    <3>4. QueuedOnce(r)'
      BY <3>2 DEF QueuedOnce
    <3> QED
      BY <3>3, <3>4 DEF QueueKept
  <2> QED
    BY <1>2, <2>1, <2>2 DEF EnqueueRun
<1>3. TakeRun => QueueKept(r)
  BY RestOfQueue DEF TakeRun, QueueKept
<1>4. GivenOutAgain(runJob.run) => QueueKept(r)
  BY GivenOutBefore
<1>5. runQueue' = runQueue => QueueKept(r)
  BY DEF QueueKept, QueuedOnce, Waiting
<1> QED
  BY <1>2, <1>3, <1>4, <1>5, RunQueueChanges

LEMMA JobStays ==
  ASSUME OutcomeInv, RunsTyped, OneReportAtATime, [RunsNext]_allVars, NEW r \in Runs
  PROVE  \/ JobKept(r)
         \/ TakeRun /\ Head(runQueue) = r
         \/ RunStep /\ Executed(r)
<1>1. runJob \in RunJob
  BY DEF RunsTyped, RunJobTyped
<1>2. TakeRun => runJob'.run = Head(runQueue)
  BY DEF TakeRun, NoRun
<1>3. RunStep => runJob.pc # "free" /\ runJob'.run = runJob.run
  BY ExecutionStep DEF Executes, AtWork
<1>4. ASSUME NEW i \in Calls, SendEvidence(i)
      PROVE  JobKept(r)
  <2>1. runJob' = [runJob EXCEPT !.pc = IF runJob.pc = "report" THEN "await" ELSE "awaitFailure"]
        /\ runJob.pc \in {"report", "failing"}
    BY <1>4 DEF SendEvidence
  <2>2. runJob'.pc \in Awaits /\ runJob'.run = runJob.run /\ runJob'.cleaned = runJob.cleaned
    BY <1>1, <2>1 DEF RunJob, Awaits
  <2> QED
    BY <2>1, <2>2 DEF JobKept, Executed, AtWork, Awaits
<1>5. runJob.pc # "free" /\ RunErrs => JobKept(r)
  <2> SUFFICES ASSUME runJob.pc # "free", RunErrs PROVE JobKept(r)
    OBVIOUS
  <2>1. runJob' = NoRun \/ runJob' = [runJob EXCEPT !.pc = "failing"]
    BY DEF RunErrs
  <2>2. CASE runJob' = NoRun
    BY <2>2 DEF NoRun, JobKept, Executed
  <2>3. CASE runJob' = [runJob EXCEPT !.pc = "failing"]
    BY <1>1, <2>3 DEF RunJob, JobKept, Executed, AtWork
  <2> QED
    BY <2>1, <2>2, <2>3
<1>6. runJob' \in {runJob, NoRun} => JobKept(r)
  BY DEF JobKept, NoRun, Executed
<1> QED
  BY <1>2, <1>3, <1>4, <1>5, <1>6, RunJobChanges DEF JobKept, Executed

\* What an execution says of its cleanup.
LEMMA ExecutionTells ==
  ASSUME RunsTyped, RunStep, NEW r \in Runs, runJob.run = r, ExecutedTruly(r)
  PROVE  /\ runJob'.pc \in {"compile", "read", "copy", "test"} => Clean(r)'
         /\ runJob'.pc \in AtWork \ {"cleanup"} => ~runJob'.cleaned
         /\ runJob'.cleaned => Clean(r)'
<1>1. /\ runJob \in RunJob /\ copies \in [Runs -> Copy] /\ running \in [Runs -> Copy]
      /\ runJob.pc \in {"compile", "read", "copy", "test"} => Clean(r)
      /\ runJob.pc \in AtWork \ {"cleanup"} => ~runJob.cleaned
      /\ runJob.pc # "free" /\ runJob.cleaned => Clean(r)
  BY DEF RunsTyped, RunJobTyped, EnvironmentTyped, ExecutedTruly, Executed, AtWork
<1> DEFINE Tells == /\ runJob'.pc \in {"compile", "read", "copy", "test"} => Clean(r)'
                    /\ runJob'.pc \in AtWork \ {"cleanup"} => ~runJob'.cleaned
                    /\ runJob'.cleaned => Clean(r)'
<1>2. UNCHANGED <<copies, running>> => (Clean(r)' <=> Clean(r))
  BY DEF Clean, Nothing
<1>3. ASSUME NEW pc, runJob' = [runJob EXCEPT !.pc = pc], runJob.pc \in AtWork \ {"cleanup"},
             pc \in {"compile", "read", "copy", "test"} => Clean(r)'
      PROVE  Tells
  <2>1. runJob'.pc = pc /\ runJob'.cleaned = runJob.cleaned
    BY <1>1, <1>3 DEF RunJob
  <2>2. ~runJob'.cleaned
    BY <1>1, <1>3, <2>1
  <2> QED
    BY <1>3, <2>1, <2>2
<1>4. BootFails(FALSE) => Tells
  BY <1>1 DEF BootFails, RunJob
<1>5. BootFails(TRUE) /\ Clean(r)' => Tells
  BY <1>1 DEF BootFails, RunJob
<1>6. CASE RunWrites
  <2>1. runJob.pc = "compile" /\ UNCHANGED <<copies, running>>
        /\ (runJob' = runJob \/ runJob' = [runJob EXCEPT !.pc = "failing"])
    BY <1>6 DEF RunWrites, KeepRunsBut
  <2>2. CASE runJob' = runJob
    BY <1>1, <1>2, <2>1, <2>2 DEF AtWork
  <2>3. CASE runJob' = [runJob EXCEPT !.pc = "failing"]
    BY <1>3, <2>1, <2>3 DEF AtWork
  <2> QED
    BY <2>1, <2>2, <2>3
<1>7. CASE RunCompiled
  <2> DEFINE pc == CASE workload = "v3" -> "test"
                     [] workload = "v1" /\ DigestMatches(runJob.run) -> "read"
                     [] OTHER -> "failing"
  <2>1. runJob.pc = "compile" /\ runJob' = [runJob EXCEPT !.pc = pc] /\ UNCHANGED <<copies, running>>
    BY <1>7 DEF RunCompiled, KeepRunsBut
  <2> HIDE DEF pc
  <2> QED
    BY <1>1, <1>2, <1>3, <2>1 DEF AtWork
<1>8. CASE ReadShared
  <2> DEFINE c == row[runJob.run].comp
             f == runJob.next
  <2>1. runJob.pc = "read" /\ UNCHANGED <<copies, running>>
    BY <1>8 DEF ReadShared, KeepRunsBut
  <2>2. Clean(r)'
    BY <1>1, <1>2, <2>1
  <2>3. CASE runJob' = [runJob EXCEPT !.pc = "copy"]
    BY <1>3, <2>1, <2>2, <2>3 DEF AtWork
  <2>4. CASE runJob' = [runJob EXCEPT !.next = f + 1, !.read[f] = files[pub[c]][f]]
    <3>1. runJob'.pc = runJob.pc /\ runJob'.cleaned = runJob.cleaned
      BY <1>1, <2>4 DEF RunJob
    <3> QED
      BY <1>1, <2>1, <2>2, <3>1 DEF AtWork
  <2>5. CASE BootFails(TRUE)
    BY <1>5, <2>2, <2>5
  <2>6. f > FileCount <=> ~(f <= FileCount)
    BY <1>1, CompilationAssumption DEF RunJob
  <2> QED
    BY <1>8, <2>3, <2>4, <2>5, <2>6 DEF ReadShared
<1>9. CASE CopyFiles
  <2>1. runJob.pc = "copy" /\ running' = running /\ running[r] = Nothing
    BY <1>1, <1>9 DEF CopyFiles, Clean
  <2>2. copies' = [copies EXCEPT ![r] = Nothing] => Clean(r)'
    BY <1>1, <2>1 DEF Clean, Nothing
  <2>3. CASE runJob' = [runJob EXCEPT !.pc = "up"]
    BY <1>3, <2>1, <2>3 DEF AtWork
  <2> QED
    BY <1>4, <1>5, <1>9, <2>2, <2>3 DEF CopyFiles
<1>10. CASE Boot
  <2>1. runJob.pc = "up" /\ \E pc \in {"probe", "undo"} : runJob' = [runJob EXCEPT !.pc = pc]
    BY <1>10 DEF Boot
  <2> QED
    BY <1>3, <2>1 DEF AtWork
<1>11. CASE UndoBoot
  <2>1. running' = [running EXCEPT ![r] = Nothing] /\ copies' = [copies EXCEPT ![r] = Nothing]
          => Clean(r)'
    BY <1>1 DEF Clean, Nothing
  <2> QED
    BY <1>4, <1>5, <1>11, <2>1 DEF UndoBoot
<1>12. CASE Probe
  <2>1. runJob.pc = "probe"
        /\ \E ok \in BOOLEAN : runJob' = [runJob EXCEPT !.pc = "cleanup", !.passed = ok]
    BY <1>12 DEF Probe
  <2>2. runJob'.cleaned = runJob.cleaned /\ runJob'.pc = "cleanup"
    BY <1>1, <2>1 DEF RunJob
  <2> QED
    BY <1>1, <2>1, <2>2 DEF AtWork
<1>13. CASE RunJourneyTests
  <2>1. runJob.pc = "test" /\ UNCHANGED <<copies, running>>
    BY <1>13 DEF RunJourneyTests, KeepRunsBut
  <2>2. Clean(r)'
    BY <1>1, <1>2, <2>1
  <2>3. runJob'.pc \in {"report", "failing"}
    BY <1>1, <1>13 DEF RunJourneyTests, RunJob
  <2> QED
    BY <2>2, <2>3 DEF AtWork
<1>14. CASE Cleanup
  <2>1. runJob.pc = "cleanup"
    BY <1>14 DEF Cleanup
  <2>2. CleanedUp(FALSE) => Tells
    BY <1>1 DEF CleanedUp, RunJob, AtWork
  <2>3. CleanedUp(TRUE) /\ Clean(r)' => Tells
    BY <1>1 DEF CleanedUp, RunJob, AtWork
  <2>4. running' = [running EXCEPT ![r] = Nothing] /\ copies' = [copies EXCEPT ![r] = Nothing]
          => Clean(r)'
    BY <1>1 DEF Clean, Nothing
  <2>5. ~StopsEnvironment /\ UNCHANGED <<copies, running>> => Clean(r)'
    BY <1>1, <1>2, <2>1 DEF StopsEnvironment
  <2> QED
    BY <1>14, <2>2, <2>3, <2>4, <2>5 DEF Cleanup
<1> QED
  BY <1>6, <1>7, <1>8, <1>9, <1>10, <1>11, <1>12, <1>13, <1>14 DEF RunStep, EnvironmentStep

\* The steps of a run's own job.
LEMMA InsertKeepsTruth ==
  ASSUME OutcomeInv, RunsTyped, NEW k \in Clients, InsertRow(k), NEW r \in Runs,
         asked[k].run = r, TrulyClean(r)
  PROVE  TrulyClean(r)'
<1>1. /\ UNCHANGED <<runQueue, runsStalled, runJob, copies, running, runCalls>>
      /\ asked[k].pc = "insert"
      /\ asked \in [Clients -> Ask] /\ row \in [Runs -> RunRow]
  BY DEF InsertRow, RunsTyped, AsksTyped, RowsTyped
<1>2. CASE row' = row /\ asked' = [asked EXCEPT ![k] = NoAsk]
  <2>1. AsksKept(r)
    BY <1>1, <1>2 DEF AsksKept, AsksFor, NoAsk
  <2>2. /\ QueueKept(r) /\ JobKept(r) /\ EnvironmentKept(r)
        /\ (Begun(r) => Begun(r)') /\ (Told(r)' => Told(r))
    BY <1>1, <1>2
    DEF TrulyClean, ComesOnce, QueueKept, QueuedOnce, Waiting, JobKept, EnvironmentKept, Begun, Told
  <2> QED
    BY <2>1, <2>2, RestIsKept
<1>3. CASE /\ row[r].status = "unused"
           /\ row' = [row EXCEPT ![r].status = "pending", ![r].comp = asked[k].comp]
           /\ asked' = [asked EXCEPT ![k].pc = "enqueue"]
  <2>1. ~Begun(r) /\ Clean(r) /\ ~Told(r) /\ ~Executed(r)
    BY <1>3 DEF Begun, TrulyClean, ComesOnce
  <2>2. r \notin Waiting
    BY <2>1 DEF RunsTyped, RunQueueTyped, Waiting
  <2>3. \A l \in Clients : ~AsksFor(l, r)
    BY <2>1 DEF RunsTyped, AsksTyped, AskFits, AsksFor
  <2>4. \A l \in Clients : AsksFor(l, r)' => l = k
    BY <1>1, <1>3, <2>3 DEF AsksFor
  <2>5. row'[r].cleaned = row[r].cleaned
    BY <1>1, <1>3 DEF RunRow
  <2>6. Clean(r)' /\ ~Told(r)' /\ ~Executed(r)' /\ r \notin Waiting'
    BY <1>1, <2>1, <2>2, <2>5 DEF Clean, Nothing, Told, Executed, Waiting
  <2>7. QueuedOnce(r)'
    BY <1>1 DEF TrulyClean, ComesOnce, QueuedOnce
  <2> QED
    BY <2>4, <2>6, <2>7 DEF TrulyClean, ComesOnce, AskedOnce, ExecutedTruly, ToldTruly
<1> QED
  BY <1>2, <1>3 DEF InsertRow

LEMMA EnqueueKeepsTruth ==
  ASSUME OutcomeInv, RunsTyped, NEW k \in Clients, EnqueueRun(k), NEW r \in Runs,
         asked[k].run = r, TrulyClean(r)
  PROVE  TrulyClean(r)'
<1>1. /\ UNCHANGED <<row, runsStalled, runJob, copies, running, runCalls>>
      /\ asked[k].pc = "enqueue" /\ asked' = [asked EXCEPT ![k] = NoAsk]
      /\ runQueue' = Append(runQueue, r) \/ runQueue' = runQueue
      /\ asked \in [Clients -> Ask] /\ runQueue \in Seq(Runs)
  BY DEF EnqueueRun, RunsTyped, AsksTyped, RunQueueTyped
<1>2. AsksFor(k, r)
  BY <1>1 DEF AsksFor
<1>3. Clean(r) /\ ~Told(r) /\ ~Executed(r) /\ r \notin Waiting /\ AskedOnce(r) /\ QueuedOnce(r)
  BY <1>2 DEF TrulyClean, ComesOnce, ToCome
<1>4. Clean(r)' /\ ~Told(r)' /\ ~Executed(r)'
  BY <1>1, <1>3 DEF Clean, Nothing, Told, Executed
<1>5. \A l \in Clients : ~AsksFor(l, r)'
  BY <1>1, <1>2, <1>3 DEF AsksFor, AskedOnce, NoAsk
<1>6. QueuedOnce(r)'
  <2>1. CASE runQueue' = runQueue
    BY <1>3, <2>1 DEF QueuedOnce
  <2>2. CASE runQueue' = Append(runQueue, r)
    <3>1. \A n \in DOMAIN runQueue' : n = Len(runQueue) + 1 \/
            (n \in DOMAIN runQueue /\ runQueue'[n] = runQueue[n])
      BY <1>1, <2>2
    <3>2. \A n \in DOMAIN runQueue : runQueue[n] # r
      BY <1>3 DEF Waiting
    <3> QED
      BY <3>1, <3>2 DEF QueuedOnce
  <2> QED
    BY <1>1, <2>1, <2>2
<1> QED
  BY <1>4, <1>5, <1>6 DEF TrulyClean, ComesOnce, AskedOnce, ExecutedTruly, ToldTruly

LEMMA TakingKeepsTruth ==
  ASSUME OutcomeInv, RunsTyped, TakeRun, NEW r \in Runs, Head(runQueue) = r, TrulyClean(r)
  PROVE  TrulyClean(r)'
<1>1. /\ UNCHANGED <<row, asked, runsStalled, copies, running, runCalls>>
      /\ runQueue # <<>> /\ runQueue' = Tail(runQueue) /\ runQueue \in Seq(Runs)
      /\ runJob'.pc = "compile" /\ runJob'.run = r /\ runJob'.cleaned = FALSE
  BY DEF TakeRun, NoRun, RunsTyped, RunQueueTyped
<1>2. 1 \in DOMAIN runQueue /\ runQueue[1] = r
  BY <1>1
<1>3. r \in Waiting /\ Begun(r)
  BY <1>2 DEF Waiting, RunsTyped, RunQueueTyped
<1>4. Clean(r) /\ ~Told(r) /\ AskedOnce(r) /\ QueuedOnce(r) /\ \A k \in Clients : ~AsksFor(k, r)
  BY <1>3 DEF TrulyClean, ComesOnce, ToCome
<1>5. Clean(r)' /\ ~Told(r)' /\ Begun(r)' /\ \A k \in Clients : ~AsksFor(k, r)'
  BY <1>1, <1>3, <1>4 DEF Clean, Nothing, Told, Begun, AsksFor
<1>6. QueuedOnce(r)' /\ r \notin Waiting'
  BY <1>1, <1>4, RestOfQueue
<1>7. ComesOnce(r)'
  BY <1>5, <1>6 DEF ComesOnce, ToCome, AskedOnce
<1>8. ExecutedTruly(r)'
  BY <1>1, <1>5 DEF ExecutedTruly
<1> QED
  BY <1>5, <1>7, <1>8 DEF TrulyClean, ToldTruly

LEMMA ExecutionKeepsTruth ==
  ASSUME OutcomeInv, RunsTyped, RunStep, NEW r \in Runs, Executed(r), TrulyClean(r)
  PROVE  TrulyClean(r)'
<1>1. /\ runJob.pc \in AtWork /\ runJob'.run = r /\ runJob.run = r
      /\ UNCHANGED <<row, asked, runQueue, runsStalled, runCalls>>
  BY ExecutionStep DEF Executes, Executed
<1>2. Begun(r) /\ ~ToCome(r) /\ ~Told(r) /\ AskedOnce(r) /\ QueuedOnce(r)
  BY <1>1 DEF TrulyClean, ComesOnce, ExecutedTruly
<1>3. Begun(r)' /\ ~ToCome(r)' /\ ~Told(r)' /\ AskedOnce(r)' /\ QueuedOnce(r)'
  BY <1>1, <1>2 DEF Begun, ToCome, Told, AskedOnce, QueuedOnce, AsksFor, Waiting
<1>4. ComesOnce(r)'
  BY <1>3 DEF ComesOnce, ToCome
<1>5. ExecutedTruly(r)'
  BY <1>1, <1>3, ExecutionTells DEF ExecutedTruly, TrulyClean
<1> QED
  BY <1>3, <1>4, <1>5 DEF TrulyClean, ToldTruly

LEMMA SendingKeepsTruth ==
  ASSUME OutcomeInv, RunsTyped, NEW i \in Calls, SendEvidence(i), NEW r \in Runs,
         runJob.run = r, TrulyClean(r)
  PROVE  TrulyClean(r)'
<1>1. /\ UNCHANGED <<row, runsStalled, runQueue, asked, copies, running>>
      /\ runJob.pc \in AtEnd /\ runJob \in RunJob
      /\ runJob' = [runJob EXCEPT !.pc = IF runJob.pc = "report" THEN "await" ELSE "awaitFailure"]
  BY DEF SendEvidence, AtEnd, RunsTyped, RunJobTyped
<1>2. runJob'.run = r /\ runJob'.cleaned = runJob.cleaned /\ runJob'.pc \in Awaits
  BY <1>1 DEF RunJob, Awaits
<1>3. Executed(r) /\ Begun(r)
  BY <1>1 DEF Executed, AtEnd, RunsTyped, RunJobTyped
<1>4. ~ToCome(r) /\ AskedOnce(r) /\ QueuedOnce(r) /\ (runJob.cleaned => Clean(r)) /\ (Told(r) => Clean(r))
  BY <1>3 DEF TrulyClean, ComesOnce, ExecutedTruly, ToldTruly
<1>5. Told(r)' => Clean(r)
  BY <1>4, ToldBySending
<1>6. (Clean(r)' <=> Clean(r)) /\ Begun(r)' /\ ~ToCome(r)' /\ AskedOnce(r)' /\ QueuedOnce(r)'
  BY <1>1, <1>3, <1>4 DEF Clean, Nothing, Begun, ToCome, AskedOnce, QueuedOnce, AsksFor, Waiting
<1>7. ComesOnce(r)'
  BY <1>6 DEF ComesOnce, ToCome
<1>8. ExecutedTruly(r)'
  BY <1>2, <1>4, <1>6 DEF ExecutedTruly, AtWork, Awaits
<1> QED
  BY <1>5, <1>6, <1>7, <1>8 DEF TrulyClean, ToldTruly

LEMMA StepKeepsTruth ==
  ASSUME OutcomeInv, RunsTyped, OneReportAtATime, [RunsNext]_allVars,
         NEW r \in Runs, r \notin runsStalled', TrulyClean(r)
  PROVE  TrulyClean(r)'
<1>1. CASE \E k \in Clients : InsertRow(k) /\ asked[k].run = r
  BY <1>1, InsertKeepsTruth
<1>2. CASE \E k \in Clients : EnqueueRun(k) /\ asked[k].run = r
  BY <1>2, EnqueueKeepsTruth
<1>3. CASE TakeRun /\ Head(runQueue) = r
  BY <1>3, TakingKeepsTruth
<1>4. CASE RunStep /\ Executed(r)
  BY <1>4, ExecutionKeepsTruth
<1>5. CASE \E i \in Calls : SendEvidence(i) /\ runJob.run = r
  BY <1>5, SendingKeepsTruth
<1>6. CASE /\ ~\E k \in Clients : InsertRow(k) /\ asked[k].run = r
           /\ ~\E k \in Clients : EnqueueRun(k) /\ asked[k].run = r
           /\ ~(TakeRun /\ Head(runQueue) = r) /\ ~(RunStep /\ Executed(r))
           /\ ~\E i \in Calls : SendEvidence(i) /\ runJob.run = r
  <2>1. Begun(r) => Begun(r)'
    BY StepKeepsBegun DEF BegunKept
  <2>2. Told(r)' => Told(r)
    BY <1>6, RunCallsChange, ToldByCalls, ToldBySending
  <2>3. AsksKept(r) /\ JobKept(r)
    BY <1>6, AsksStay, JobStays
  <2>4. QueuedOnce(r)
    BY DEF TrulyClean, ComesOnce
  <2>5. QueueKept(r)
    BY <1>6, <2>4, QueueStays
  <2>6. EnvironmentKept(r)
    <3>1. RunStep => r # runJob.run
      BY <1>6, ExecutionStep DEF Executes, AtWork, Executed
    <3>2. RunStep => EnvironmentKept(r)
      BY <3>1, OthersStay DEF EnvironmentKept
    <3> QED
      BY <3>2, EnvironmentChanges DEF EnvironmentKept
  <2> QED
    BY <2>1, <2>2, <2>3, <2>5, <2>6, RestIsKept
<1> QED
  BY <1>1, <1>2, <1>3, <1>4, <1>5, <1>6

LEMMA StalledStay ==
  ASSUME OutcomeInv, RunsTyped, OneReportAtATime, [RunsNext]_allVars
  PROVE  runsStalled \subseteq runsStalled'
<1>1. GivenOutAgain(runJob.run) => runsStalled \subseteq runsStalled'
  BY DEF GivenOutAgain
<1>2. ASSUME NEW k \in Clients, EnqueueRun(k)
      PROVE  runsStalled \subseteq runsStalled'
  BY <1>2 DEF EnqueueRun
<1>3. TakeRun => runsStalled \subseteq runsStalled'
  BY DEF TakeRun
<1> QED
  BY <1>1, <1>2, <1>3, RunQueueChanges

(* A verification run whose evidence says that cleanup succeeded has left  *)
(* no container and no copy, whatever its start, its execution, its        *)
(* reports and the processes met; runs whose job was given out again are   *)
(* excepted.                                                               *)
THEOREM CleanupSaysTheTruth == RunsSpec => []CleanupIsTrue
<1>1. RunsInit => CleanInv
  <2> SUFFICES ASSUME RunsInit, NEW r \in Runs PROVE TrulyClean(r)
    BY DEF CleanInv
  <2>1. Clean(r) /\ ~Told(r) /\ ~Executed(r)
    BY DEF RunsInit, Clean, Told, Executed, NoRow, NoRunCall, NoRun
  <2>2. AskedOnce(r) /\ QueuedOnce(r) /\ \A k \in Clients : ~AsksFor(k, r)
    BY DEF RunsInit, AskedOnce, QueuedOnce, AsksFor, NoAsk
  <2> QED
    BY <2>1, <2>2 DEF TrulyClean, ComesOnce, ExecutedTruly, ToldTruly
<1>2. VerifiedInv /\ CleanInv /\ [RunsNext]_allVars => CleanInv'
  <2> SUFFICES ASSUME OutcomeInv, RunsTyped, OneReportAtATime, CleanInv, [RunsNext]_allVars,
                      NEW r \in Runs, r \notin runsStalled'
               PROVE  TrulyClean(r)'
    BY DEF VerifiedInv, RunsTypeInv, CleanInv
  <2>1. TrulyClean(r)
    BY StalledStay DEF CleanInv
  <2> QED
    BY <2>1, StepKeepsTruth
<1>3. CleanInv => CleanupIsTrue
  <2> SUFFICES ASSUME CleanInv, NEW r \in Runs, row[r].cleaned, r \notin runsStalled
               PROVE  Clean(r)
    BY DEF CleanupIsTrue, Clean
  <2> QED
    BY DEF CleanInv, TrulyClean, ToldTruly, Told
<1> QED
  BY <1>1, <1>2, <1>3, VerifiedInductive, PTL DEF RunsSpec
=============================================================================
