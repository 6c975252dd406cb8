------------------------- MODULE CompilationProofs -------------------------
(***************************************************************************)
(* Theorems about compilation for any sets of compilations, publications,  *)
(* requests, calls and Worker builds, any number of files, any kinds of    *)
(* fault and any number of them.                                           *)
(*                                                                         *)
(* The inductive invariant adds to the types that what is in flight names  *)
(* a compilation, that Artifact rows go with success, and that a count     *)
(* taken for an insert is never beyond the next free sequence number.      *)
(***************************************************************************)
EXTENDS CompilationProperties, FiniteSetTheorems, TLAPS

(***************************************************************************)
(* The strengthening, by part of the state.                                *)
(***************************************************************************)
Request == [pc : {"idle", "insert", "enqueue"}, pub : Publications \cup {None},
            seq : Nat, comp : Compilations \cup {None}]
Call    == [pc : {"free", "read", "commit"}, kind : {"complete", "fail"},
            comp : Compilations \cup {None}, build : Builds \cup {None},
            tries : 0 .. TransactionAttempts - 1, waiting : BOOLEAN]
Job     == [pc : {"free", "write", "report", "failing", "awaitComplete", "awaitFail"},
            comp : Compilations \cup {None}, tries : 0 .. ReportAttempts - 1]
Write   == [pub : Publications \cup {None}, next : 1 .. FileCount + 1, open : BOOLEAN]

TableTyped ==
  /\ result \in [Compilations -> Terminal \cup {"unused", "queued"}]
  /\ pub \in [Compilations -> Publications \cup {None}]
  /\ sequence \in [Compilations -> Nat]
  /\ artifacts \in [Compilations -> Builds \cup {None}]

\* A request that enqueues has inserted a compilation.
RequestsTyped ==
  /\ req \in [Clients -> Request]
  /\ \A k \in Clients : req[k].pc = "enqueue" => req[k].comp \in Compilations

\* A call that is handled reports on a compilation, with some build's evidence.
CallsTyped ==
  /\ calls \in [Calls -> Call]
  /\ \A i \in Calls : calls[i].pc # "free" =>
       calls[i].comp \in Compilations /\ calls[i].build \in Builds

\* A job that is executed is of a compilation.
JobTyped == job \in Job /\ (job.pc # "free" => job.comp \in Compilations)

QueueTyped == queue \in Seq(Compilations) /\ stalled \subseteq Compilations

DiskTyped ==
  /\ writer \in [Writers -> Write]
  /\ files \in [Publications -> [Files -> Contents]]
  /\ build \in Builds

Typed ==
  /\ TableTyped /\ RequestsTyped /\ CallsTyped /\ JobTyped /\ QueueTyped /\ DiskTyped
  /\ faults \in Nat

\* The one job of the compile Worker writes, or waits for one call at most.
OneThingAtATime ==
  /\ writer["compile"].pub # None => job.pc = "write"
  /\ \A i \in Calls : calls[i].waiting => job.pc \in {"awaitComplete", "awaitFail"}
  /\ \A i, j \in Calls : calls[i].waiting /\ calls[j].waiting => i = j

TypeInv == Typed /\ OneThingAtATime

\* Artifact rows exist for the succeeded compilations only.
EvidenceIffSucceeded ==
  \A c \in Compilations : artifacts[c] # None <=> result[c] = "succeeded"

\* A count taken for an insert is at most the next number of its publication.
CountsInReach ==
  \A k \in Clients : req[k].pc = "insert" =>
    /\ req[k].pub \in Publications
    /\ req[k].seq \in 1 .. Cardinality(Rows(req[k].pub)) + 1

DenseInv == TypeInv /\ SequencesDense /\ CountsInReach

-----------------------------------------------------------------------------
(***************************************************************************)
(* Types.                                                                  *)
(***************************************************************************)
LEMMA TypedIsTypeOK == Typed => TypeOK
  BY DEF Typed, TypeOK, TableTyped, RequestsTyped, CallsTyped, JobTyped, QueueTyped,
     DiskTyped, Request, Call, Job, Write

\* A writer that begins with the first file.
LEMMA WriterBegins ==
  ASSUME NEW p \in Publications \cup {None}
  PROVE  WriteTo(p) \in Write
<1>1. 1 \in 1 .. FileCount + 1
  BY CompilationAssumption
<1> QED
  BY <1>1 DEF Write, WriteTo

LEMMA InitTyped == Init => Typed
<1> SUFFICES ASSUME Init PROVE Typed
  OBVIOUS
<1>1. TableTyped
  BY DEF Init, TableTyped
<1>2. RequestsTyped
  BY DEF Init, RequestsTyped, Request, IdleReq
<1>3. CallsTyped
  BY DEF Init, CallsTyped, Call, NoCall, TransactionAttempts
<1>4. JobTyped
  BY DEF Init, JobTyped, Job, NoJob, ReportAttempts
<1>5. QueueTyped
  BY DEF Init, QueueTyped
<1>6. DiskTyped
  BY WriterBegins DEF NoWrite, Init, DiskTyped, Contents
<1> QED
  BY <1>1, <1>2, <1>3, <1>4, <1>5, <1>6 DEF Init, Typed

LEMMA RowsAreFew ==
  ASSUME NEW p
  PROVE  IsFiniteSet(Rows(p)) /\ Cardinality(Rows(p)) \in Nat
  BY CompilationAssumption, FS_Subset, FS_CardinalityType DEF Rows

\* A call that is over, and one that goes on.
LEMMA CallEnds ==
  ASSUME CallsTyped, NEW i \in Calls, calls' = [calls EXCEPT ![i] = NoCall]
  PROVE  CallsTyped'
<1>1. NoCall \in Call /\ NoCall.pc = "free"
  BY DEF NoCall, Call, TransactionAttempts
<1> QED
  BY <1>1 DEF CallsTyped

LEMMA CallGoesOn ==
  ASSUME CallsTyped, NEW i \in Calls, calls[i].pc # "free",
         calls' = [calls EXCEPT ![i].pc = "commit"]
  PROVE  CallsTyped'
  BY DEF CallsTyped, Call

LEMMA NoJobTyped == NoJob \in Job /\ NoJob.pc = "free"
  BY DEF NoJob, Job, ReportAttempts

\* After an error the job is to report once more or is over.
LEMMA AfterErrorTyped ==
  ASSUME JobTyped
  PROVE  AfterError \in Job /\ (AfterError.pc # "free" => AfterError.comp \in Compilations)
<1>1. CASE job.pc \in {"report", "awaitComplete"} /\ job.tries + 1 < ReportAttempts
  <2>1. AfterError = [job EXCEPT !.pc = "report", !.tries = @ + 1]
    BY <1>1 DEF AfterError
  <2>2. job \in Job /\ job.comp \in Compilations
    BY <1>1 DEF JobTyped
  <2>3. job.tries + 1 \in 0 .. ReportAttempts - 1
    BY <1>1, <2>2 DEF Job, ReportAttempts
  <2> QED
    BY <2>1, <2>2, <2>3 DEF Job
<1>2. CASE ~(job.pc \in {"report", "awaitComplete"} /\ job.tries + 1 < ReportAttempts)
  BY <1>2, NoJobTyped DEF AfterError
<1> QED
  BY <1>1, <1>2

LEMMA AnswerTyped ==
  ASSUME CallsTyped, JobTyped, NEW i \in Calls, NEW ok, Answer(i, ok)
  PROVE  CallsTyped' /\ JobTyped'
<1>1. CallsTyped'
  BY CallEnds DEF Answer
<1>2. job' = job \/ job' = NoJob \/ job' = AfterError
  BY DEF Answer
<1>3. JobTyped'
  BY <1>2, AfterErrorTyped, NoJobTyped DEF JobTyped
<1> QED
  BY <1>1, <1>3

LEMMA RunAgainTyped ==
  ASSUME CallsTyped, JobTyped, NEW i \in Calls, calls[i].pc # "free", RunAgain(i)
  PROVE  CallsTyped' /\ JobTyped'
<1>1. CASE calls[i].tries + 1 < TransactionAttempts
  <2>1. /\ calls' = [calls EXCEPT ![i].pc = "read", ![i].tries = @ + 1]
        /\ job' = job
    BY <1>1 DEF RunAgain
  <2>2. calls[i].tries + 1 \in 0 .. TransactionAttempts - 1
    BY <1>1 DEF CallsTyped, Call, TransactionAttempts
  <2> QED
    BY <2>1, <2>2 DEF CallsTyped, JobTyped, Call
<1>2. CASE ~(calls[i].tries + 1 < TransactionAttempts)
  BY <1>2, AnswerTyped DEF RunAgain
<1> QED
  BY <1>1, <1>2

\* Every action: the table is written by the insert and by a commit only.
LEMMA StepTyped == TypeInv /\ [Next]_vars => Typed'
<1> SUFFICES ASSUME Typed, OneThingAtATime, [Next]_vars PROVE Typed'
  BY DEF TypeInv
<1> USE DEF Typed
<1>1. ASSUME NEW k \in Clients, NEW p \in Publications, CountCompilations(k, p)
      PROVE  Typed'
  <2> DEFINE n == Cardinality(Rows(p)) + 1
  <2>1. n \in Nat
    BY RowsAreFew
  <2>2. req' = [req EXCEPT ![k] = [IdleReq EXCEPT !.pc = "insert", !.pub = p, !.seq = n]]
    BY <1>1 DEF CountCompilations
  <2> HIDE DEF n
  <2>3. RequestsTyped'
    BY <2>1, <2>2 DEF RequestsTyped, Request, IdleReq
  <2> QED
    BY <1>1, <2>3 DEF CountCompilations, table, disk, TableTyped, CallsTyped, JobTyped,
       QueueTyped, DiskTyped
<1>2. ASSUME NEW k \in Clients, InsertCompilation(k)
      PROVE  Typed'
  <2>1. req[k].pub \in Publications \cup {None} /\ req[k].seq \in Nat
    BY DEF RequestsTyped, Request
  <2>2. RequestsTyped'
    BY <1>2 DEF InsertCompilation, RequestsTyped, Request, IdleReq
  <2>3. TableTyped'
    BY <1>2, <2>1 DEF InsertCompilation, TableTyped
  <2> QED
    BY <1>2, <2>2, <2>3 DEF InsertCompilation, disk, CallsTyped, JobTyped, QueueTyped, DiskTyped
<1>3. ASSUME NEW k \in Clients, EnqueueCompilation(k)
      PROVE  Typed'
  <2>1. req[k].comp \in Compilations
    BY <1>3 DEF EnqueueCompilation, RequestsTyped
  <2>2. QueueTyped' /\ faults' \in Nat
    BY <1>3, <2>1 DEF EnqueueCompilation, QueueTyped, Fault
  <2>3. RequestsTyped'
    BY <1>3 DEF EnqueueCompilation, RequestsTyped, Request, IdleReq
  <2> QED
    BY <1>3, <2>2, <2>3 DEF EnqueueCompilation, table, disk, TableTyped, CallsTyped,
       JobTyped, DiskTyped
<1>4. ASSUME TakeJob
      PROVE  Typed'
  <2> DEFINE c == Head(queue)
  <2>1. c \in Compilations /\ QueueTyped'
    BY <1>4 DEF TakeJob, QueueTyped
  <2>2. pub[c] \in Publications \cup {None}
    BY <2>1 DEF TableTyped
  <2> DEFINE new == WriteTo(pub[c])
  <2>3. new \in Write
    BY <2>2, WriterBegins
  <2>4. /\ job' = [pc |-> "write", comp |-> c, tries |-> 0]
        /\ writer' = [writer EXCEPT !["compile"] = new]
        /\ UNCHANGED <<table, req, calls, files, build, faults>>
    BY <1>4 DEF TakeJob
  <2> HIDE DEF c, new
  <2>5. JobTyped'
    BY <2>1, <2>4 DEF JobTyped, Job, ReportAttempts
  <2>6. writer' \in [Writers -> Write]
    BY <2>3, <2>4 DEF DiskTyped
  <2> QED
    BY <2>1, <2>4, <2>5, <2>6 DEF table, TableTyped, RequestsTyped, CallsTyped, DiskTyped
<1>5. ASSUME NEW c \in Compilations, VerificationBegins(c)
      PROVE  Typed'
  <2>1. pub[c] \in Publications \cup {None}
    BY DEF TableTyped
  <2>2. DiskTyped'
    BY <1>5, <2>1, WriterBegins DEF VerificationBegins, DiskTyped
  <2> QED
    BY <1>5, <2>2 DEF VerificationBegins, table, TableTyped, RequestsTyped, CallsTyped,
       JobTyped, QueueTyped
<1>6. ASSUME NEW w \in Writers, WriteFile(w)
      PROVE  Typed'
  <2> DEFINE f == writer[w].next
  <2>1. writer[w] \in Write /\ f \in Nat /\ f <= FileCount
    BY <1>6, CompilationAssumption DEF WriteFile, DiskTyped, Write
  <2>2. f \in 1 .. FileCount + 1 /\ f + 1 \in 1 .. FileCount + 1
    BY <2>1, CompilationAssumption DEF Write
  <2>3. writer' \in [Writers -> Write]
    <3>1. CASE writer[w].open
      <4>1. writer' = [writer EXCEPT ![w].next = f + 1, ![w].open = FALSE]
        BY <1>6, <3>1 DEF WriteFile
      <4> HIDE DEF f
      <4> QED
        BY <2>2, <4>1 DEF DiskTyped, Write
    <3>2. CASE ~writer[w].open
      <4>1. writer' = [writer EXCEPT ![w].open = TRUE]
        BY <1>6, <3>2 DEF WriteFile
      <4> QED
        BY <4>1 DEF DiskTyped, Write
    <3> QED
      BY <3>1, <3>2
  <2>4. files' \in [Publications -> [Files -> Contents]]
    BY <1>6 DEF WriteFile, DiskTyped, Contents
  <2> QED
    BY <1>6, <2>3, <2>4 DEF WriteFile, DiskTyped, table, TableTyped, RequestsTyped, CallsTyped,
       JobTyped, QueueTyped
<1>7. ASSUME NEW w \in Writers, WriteFails(w) \/ WritingEnds(w)
      PROVE  Typed'
  <2>1. NoWrite \in Write
    BY WriterBegins DEF NoWrite
  <2>2. DiskTyped' /\ faults' \in Nat
    BY <1>7, <2>1 DEF WriteFails, WritingEnds, DiskTyped, Fault
  <2>3. w = "compile" => job.pc = "write"
    BY <1>7 DEF WriteFails, WritingEnds, AllWritten, OneThingAtATime
  <2>4. JobTyped'
    BY <1>7, <2>3 DEF WriteFails, WritingEnds, JobTyped, Job
  <2>5. UNCHANGED <<table, req, calls, queue, stalled>>
    BY <1>7 DEF WriteFails, WritingEnds
  <2> QED
    BY <2>2, <2>4, <2>5 DEF table, TableTyped, RequestsTyped, CallsTyped, QueueTyped
<1>8. ASSUME NEW i \in Calls, SendReport(i)
      PROVE  Typed'
  <2>1. job.comp \in Compilations /\ build \in Builds
    BY <1>8 DEF SendReport, JobTyped, DiskTyped
  <2> DEFINE completes == job.pc = "report"
             q == [pc |-> "read", kind |-> IF completes THEN "complete" ELSE "fail",
                   comp |-> job.comp, build |-> build, tries |-> 0, waiting |-> TRUE]
             pc == IF completes THEN "awaitComplete" ELSE "awaitFail"
  <2>2. q \in Call /\ q.comp \in Compilations /\ q.build \in Builds
    BY <2>1 DEF Call, TransactionAttempts
  <2>3. pc \in {"awaitComplete", "awaitFail"}
    OBVIOUS
  <2>4. /\ calls' = [calls EXCEPT ![i] = q] /\ job' = [job EXCEPT !.pc = pc]
        /\ UNCHANGED <<table, req, queue, stalled, disk, faults>>
    BY <1>8 DEF SendReport
  <2> HIDE DEF q, pc
  <2>5. CallsTyped'
    BY <2>2, <2>4 DEF CallsTyped
  <2>6. JobTyped'
    BY <2>1, <2>3, <2>4 DEF JobTyped, Job
  <2> QED
    BY <2>4, <2>5, <2>6 DEF table, disk, TableTyped, RequestsTyped, QueueTyped, DiskTyped
<1>9. ASSUME ReportLost
      PROVE  Typed'
  <2>1. JobTyped' /\ faults' \in Nat
    BY <1>9, AfterErrorTyped DEF ReportLost, JobTyped, Fault
  <2> QED
    BY <1>9, <2>1 DEF ReportLost, table, disk, TableTyped, RequestsTyped, CallsTyped,
       QueueTyped, DiskTyped
<1>10. ASSUME NEW i \in Calls, AnswerLost(i)
       PROVE  Typed'
  <2>1. JobTyped' /\ faults' \in Nat
    BY <1>10, AfterErrorTyped DEF AnswerLost, JobTyped, Fault
  <2>2. calls' = [calls EXCEPT ![i].waiting = FALSE]
    BY <1>10 DEF AnswerLost
  <2>3. CallsTyped'
    BY <2>2 DEF CallsTyped, Call
  <2> QED
    BY <1>10, <2>1, <2>3 DEF AnswerLost, table, disk, TableTyped, RequestsTyped,
       QueueTyped, DiskTyped
<1>11. ASSUME NEW i \in Calls, HandleRead(i)
       PROVE  Typed'
  <2>1. \/ Answer(i, TRUE)
        \/ Answer(i, FALSE)
        \/ calls' = [calls EXCEPT ![i].pc = "commit"] /\ UNCHANGED job
    BY <1>11 DEF HandleRead
  <2>2. calls[i].pc # "free"
    BY <1>11 DEF HandleRead
  <2>3. CallsTyped' /\ JobTyped'
    BY <2>1, <2>2, AnswerTyped, CallGoesOn DEF JobTyped
  <2> QED
    BY <1>11, <2>3 DEF HandleRead, table, disk, TableTyped, RequestsTyped, QueueTyped, DiskTyped
<1>12. ASSUME NEW i \in Calls, HandleCommit(i)
       PROVE  Typed'
  <2>1. calls[i].pc # "free" /\ calls[i].build \in Builds
    BY <1>12 DEF HandleCommit, CallsTyped
  <2>2. Answer(i, TRUE) \/ RunAgain(i)
    BY <1>12 DEF HandleCommit
  <2>3. CallsTyped' /\ JobTyped'
    BY <2>1, <2>2, AnswerTyped, RunAgainTyped
  <2>4. TableTyped'
    BY <1>12, <2>1 DEF HandleCommit, TableTyped, Terminal
  <2> QED
    BY <1>12, <2>3, <2>4 DEF HandleCommit, disk, RequestsTyped, QueueTyped, DiskTyped
<1>13. ASSUME NEW i \in Calls, CommitConflicts(i)
       PROVE  Typed'
  <2>1. CallsTyped' /\ JobTyped'
    BY <1>13, RunAgainTyped DEF CommitConflicts
  <2> QED
    BY <1>13, <2>1 DEF CommitConflicts, Fault, table, disk, TableTyped, RequestsTyped,
       QueueTyped, DiskTyped
<1>14. ASSUME NEW b \in Builds, WorkerRestarts(b)
       PROVE  Typed'
  <2>1. CallsTyped' /\ JobTyped'
    BY <1>14, NoJobTyped DEF WorkerRestarts, CallsTyped, Call, JobTyped
  <2>2. QueueTyped'
    <3>1. CASE job.pc # "free" /\ job.comp \notin stalled
      <4>1. job.comp \in Compilations
        BY <3>1 DEF JobTyped
      <4>2. queue' = <<job.comp>> \o queue /\ stalled' = stalled \cup {job.comp}
        BY <1>14, <3>1 DEF WorkerRestarts
      <4>3. <<job.comp>> \in Seq(Compilations)
        BY <4>1
      <4> QED
        BY <4>1, <4>2, <4>3 DEF QueueTyped
    <3>2. CASE ~(job.pc # "free" /\ job.comp \notin stalled)
      BY <1>14, <3>2 DEF WorkerRestarts, QueueTyped
    <3> QED
      BY <3>1, <3>2
  <2>3. NoWrite \in Write
    BY WriterBegins DEF NoWrite
  <2>4. DiskTyped' /\ faults' \in Nat
    BY <1>14, <2>3 DEF WorkerRestarts, DiskTyped, Fault
  <2> QED
    BY <1>14, <2>1, <2>2, <2>4 DEF WorkerRestarts, table, TableTyped, RequestsTyped
<1>15. ASSUME ControlPlaneRestarts
       PROVE  Typed'
  <2>1. IdleReq \in Request /\ IdleReq.pc = "idle"
    BY DEF IdleReq, Request
  <2>2. NoCall \in Call /\ NoCall.pc = "free"
    BY DEF NoCall, Call, TransactionAttempts
  <2>3. RequestsTyped' /\ CallsTyped'
    BY <1>15, <2>1, <2>2 DEF ControlPlaneRestarts, RequestsTyped, CallsTyped
  <2>4. JobTyped'
    BY <1>15, AfterErrorTyped DEF ControlPlaneRestarts, JobTyped
  <2> QED
    BY <1>15, <2>3, <2>4 DEF ControlPlaneRestarts, Fault, table, disk, TableTyped,
       QueueTyped, DiskTyped
<1>16. CASE UNCHANGED vars
  BY <1>16 DEF vars, table, disk, TableTyped, RequestsTyped, CallsTyped, JobTyped,
     QueueTyped, DiskTyped
<1>17. ASSUME JobStalls
       PROVE  Typed'
  <2>1. job.comp \in Compilations
    BY <1>17 DEF JobStalls, JobTyped
  <2>2. queue' = <<job.comp>> \o queue /\ stalled' = stalled \cup {job.comp}
    BY <1>17 DEF JobStalls
  <2>3. <<job.comp>> \in Seq(Compilations)
    BY <2>1
  <2>4. QueueTyped'
    BY <2>1, <2>2, <2>3 DEF QueueTyped
  <2> QED
    BY <1>17, <2>4 DEF JobStalls, Fault, table, disk, TableTyped, RequestsTyped, CallsTyped,
       JobTyped, DiskTyped
<1> QED
  BY <1>1, <1>2, <1>3, <1>4, <1>5, <1>6, <1>7, <1>8, <1>9, <1>10, <1>11, <1>12,
     <1>13, <1>14, <1>15, <1>16, <1>17
  DEF Next, RequestStep, WriteStep, ReportStep, HandleStep


(***************************************************************************)
(* The one job: what it waits for.                                         *)
(***************************************************************************)
LEMMA AnswerGoesOn ==
  ASSUME TypeInv, NEW i \in Calls, NEW ok, Answer(i, ok), writer' = writer
  PROVE  OneThingAtATime'
<1>1. /\ calls \in [Calls -> Call] /\ calls' = [calls EXCEPT ![i] = NoCall]
      /\ ~NoCall.waiting
  BY DEF Answer, NoCall, TypeInv, Typed, CallsTyped
<1>2. CASE ~calls[i].waiting
  <2>1. job' = job
    BY <1>2 DEF Answer
  <2> QED
    BY <1>1, <2>1 DEF OneThingAtATime, TypeInv
<1>3. CASE calls[i].waiting
  <2>1. writer["compile"].pub = None /\ \A j \in Calls : calls[j].waiting => j = i
    BY <1>3 DEF OneThingAtATime, TypeInv
  <2>2. \A j \in Calls : ~calls'[j].waiting
    BY <1>1, <2>1
  <2> QED
    BY <2>1, <2>2 DEF OneThingAtATime
<1> QED
  BY <1>2, <1>3

LEMMA RunAgainGoesOn ==
  ASSUME TypeInv, NEW i \in Calls, RunAgain(i), writer' = writer
  PROVE  OneThingAtATime'
<1>1. CASE calls[i].tries + 1 < TransactionAttempts
  <2>1. /\ calls' = [calls EXCEPT ![i].pc = "read", ![i].tries = @ + 1]
        /\ job' = job /\ calls \in [Calls -> Call]
    BY <1>1 DEF RunAgain, TypeInv, Typed, CallsTyped
  <2>2. \A j \in Calls : calls'[j].waiting = calls[j].waiting
    BY <2>1 DEF Call
  <2> QED
    BY <2>1, <2>2 DEF OneThingAtATime, TypeInv
<1>2. CASE ~(calls[i].tries + 1 < TransactionAttempts)
  BY <1>2, AnswerGoesOn DEF RunAgain
<1> QED
  BY <1>1, <1>2

LEMMA StepGoesOn == TypeInv /\ [Next]_vars => OneThingAtATime'
<1> SUFFICES ASSUME TypeInv, [Next]_vars PROVE OneThingAtATime'
  OBVIOUS
<1>0. /\ OneThingAtATime /\ calls \in [Calls -> Call]
      /\ writer \in [Writers -> Write] /\ job \in Job
  BY DEF TypeInv, Typed, CallsTyped, DiskTyped, JobTyped
<1>1. ASSUME UNCHANGED <<calls, job, writer>>
      PROVE  OneThingAtATime'
  BY <1>0, <1>1 DEF OneThingAtATime
<1>2. ASSUME TakeJob
      PROVE  OneThingAtATime'
  BY <1>0, <1>2 DEF TakeJob, OneThingAtATime
<1>3. ASSUME NEW c \in Compilations, VerificationBegins(c)
      PROVE  OneThingAtATime'
  BY <1>0, <1>3 DEF VerificationBegins, OneThingAtATime, Writers
<1>4. ASSUME NEW w \in Writers, WriteFile(w)
      PROVE  OneThingAtATime'
  <2>1. writer'["compile"].pub = writer["compile"].pub
    BY <1>0, <1>4 DEF WriteFile, Write, Writers
  <2>2. UNCHANGED <<calls, job>>
    BY <1>4 DEF WriteFile
  <2> QED
    BY <1>0, <2>1, <2>2 DEF OneThingAtATime
<1>5. ASSUME NEW w \in Writers, WriteFails(w) \/ WritingEnds(w)
      PROVE  OneThingAtATime'
  <2>1. UNCHANGED calls /\ writer' = [writer EXCEPT ![w] = NoWrite] /\ writer[w].pub # None
    BY <1>5 DEF WriteFails, WritingEnds, AllWritten
  <2>2. NoWrite.pub = None
    BY DEF NoWrite, WriteTo
  <2>3. CASE w = "compile"
    BY <1>0, <2>1, <2>2, <2>3 DEF OneThingAtATime, Writers
  <2>4. CASE w # "compile"
    <3>1. job' = job
      BY <1>5, <2>4 DEF WriteFails, WritingEnds
    <3> QED
      BY <1>0, <2>1, <2>4, <3>1 DEF OneThingAtATime, Writers
  <2> QED
    BY <2>3, <2>4
<1>6. ASSUME NEW i \in Calls, SendReport(i)
      PROVE  OneThingAtATime'
  <2>1. /\ \A j \in Calls : ~calls[j].waiting
        /\ writer["compile"].pub = None /\ writer' = writer
    BY <1>0, <1>6 DEF SendReport, OneThingAtATime, disk
  <2>2. job'.pc \in {"awaitComplete", "awaitFail"}
    BY <1>0, <1>6 DEF SendReport, Job
  <2>3. \A j \in Calls : j # i => calls'[j] = calls[j]
    BY <1>0, <1>6 DEF SendReport
  <2> QED
    BY <2>1, <2>2, <2>3 DEF OneThingAtATime
<1>7. ASSUME ReportLost
      PROVE  OneThingAtATime'
  BY <1>0, <1>7 DEF ReportLost, OneThingAtATime, disk
<1>8. ASSUME NEW i \in Calls, AnswerLost(i)
      PROVE  OneThingAtATime'
  <2>1. /\ writer["compile"].pub = None /\ writer' = writer
        /\ \A j \in Calls : calls[j].waiting => j = i
    BY <1>0, <1>8 DEF AnswerLost, OneThingAtATime, disk
  <2>2. \A j \in Calls : ~calls'[j].waiting
    BY <1>0, <1>8, <2>1 DEF AnswerLost, Call
  <2> QED
    BY <2>1, <2>2 DEF OneThingAtATime
<1>9. ASSUME NEW i \in Calls, HandleRead(i)
      PROVE  OneThingAtATime'
  <2>1. writer' = writer
    BY <1>9 DEF HandleRead, disk
  <2>2. CASE Answer(i, TRUE) \/ Answer(i, FALSE)
    BY <2>1, <2>2, AnswerGoesOn
  <2>3. CASE calls' = [calls EXCEPT ![i].pc = "commit"] /\ UNCHANGED job
    <3>1. \A j \in Calls : calls'[j].waiting = calls[j].waiting
      BY <1>0, <2>3 DEF Call
    <3> QED
      BY <1>0, <2>1, <2>3, <3>1 DEF OneThingAtATime
  <2> QED
    BY <1>9, <2>2, <2>3 DEF HandleRead
<1>10. ASSUME NEW i \in Calls, HandleCommit(i) \/ CommitConflicts(i)
       PROVE  OneThingAtATime'
  <2>1. writer' = writer /\ (Answer(i, TRUE) \/ RunAgain(i))
    BY <1>10 DEF HandleCommit, CommitConflicts, disk
  <2> QED
    BY <2>1, AnswerGoesOn, RunAgainGoesOn
<1>11. ASSUME NEW b \in Builds, WorkerRestarts(b)
       PROVE  OneThingAtATime'
  <2>1. \A j \in Calls : ~calls'[j].waiting
    BY <1>0, <1>11 DEF WorkerRestarts, Call
  <2>2. writer'["compile"].pub = None
    BY <1>11 DEF WorkerRestarts, Writers, NoWrite, WriteTo
  <2> QED
    BY <2>1, <2>2 DEF OneThingAtATime
<1>12. ASSUME ControlPlaneRestarts
       PROVE  OneThingAtATime'
  <2>1. writer' = writer /\ \A j \in Calls : ~calls'[j].waiting
    BY <1>12 DEF ControlPlaneRestarts, NoCall, disk
  <2>2. job' # job => writer["compile"].pub = None
    BY <1>0, <1>12 DEF ControlPlaneRestarts, OneThingAtATime
  <2> QED
    BY <1>0, <2>1, <2>2 DEF OneThingAtATime
<1>13. ASSUME NEW k \in Clients, RequestStep(k) \/ \E p \in Publications : CountCompilations(k, p)
       PROVE  UNCHANGED <<calls, job, writer>>
  BY <1>13 DEF RequestStep, InsertCompilation, EnqueueCompilation, CountCompilations, disk
<1>14. UNCHANGED vars \/ JobStalls => UNCHANGED <<calls, job, writer>>
  BY DEF vars, disk, JobStalls
<1> QED
  BY <1>1, <1>2, <1>3, <1>4, <1>5, <1>6, <1>7, <1>8, <1>9, <1>10, <1>11, <1>12, <1>13, <1>14
  DEF Next, WriteStep, ReportStep, HandleStep

LEMMA TypeInductive == Spec => []TypeInv
<1>1. Init => OneThingAtATime
  BY DEF Init, OneThingAtATime, NoWrite, WriteTo, NoCall, Writers
<1>2. Init => TypeInv
  BY <1>1, InitTyped DEF TypeInv
<1>3. TypeInv /\ [Next]_vars => TypeInv'
  BY StepTyped, StepGoesOn DEF TypeInv
<1> QED
  BY <1>2, <1>3, PTL DEF Spec

(* Every reachable state of compilation is of its type, in particular no   *)
(* transaction and no report is tried more often than the code allows.     *)
THEOREM TypeCorrect == Spec => []TypeOK
<1>1. TypeInv => TypeOK
  BY TypedIsTypeOK DEF TypeInv
<1> QED
  BY <1>1, TypeInductive, PTL

-----------------------------------------------------------------------------
(***************************************************************************)
(* A compilation is decided once.  Rows change by an insert and by a       *)
(* commit; every other step leaves the outcome alone.                      *)
(***************************************************************************)
LEMMA RowsChange ==
  ASSUME [Next]_vars
  PROVE  \/ \E k \in Clients : InsertCompilation(k)
         \/ \E i \in Calls : HandleCommit(i)
         \/ UNCHANGED table
<1>1. ASSUME NEW k \in Clients, NEW p \in Publications, CountCompilations(k, p)
      PROVE  UNCHANGED table
  BY <1>1 DEF CountCompilations
<1>2. ASSUME NEW k \in Clients, EnqueueCompilation(k)
      PROVE  UNCHANGED table
  BY <1>2 DEF EnqueueCompilation
<1>3. ASSUME TakeJob \/ ReportLost \/ JobStalls \/ ControlPlaneRestarts
      PROVE  UNCHANGED table
  BY <1>3 DEF TakeJob, ReportLost, JobStalls, ControlPlaneRestarts
<1>4. ASSUME NEW c \in Compilations, VerificationBegins(c)
      PROVE  UNCHANGED table
  BY <1>4 DEF VerificationBegins
<1>5. ASSUME NEW w \in Writers, WriteFile(w) \/ WriteFails(w) \/ WritingEnds(w)
      PROVE  UNCHANGED table
  BY <1>5 DEF WriteFile, WriteFails, WritingEnds
<1>6. ASSUME NEW i \in Calls,
             SendReport(i) \/ AnswerLost(i) \/ HandleRead(i) \/ CommitConflicts(i)
      PROVE  UNCHANGED table
  BY <1>6 DEF SendReport, AnswerLost, HandleRead, CommitConflicts
<1>7. ASSUME NEW b \in Builds, WorkerRestarts(b)
      PROVE  UNCHANGED table
  BY <1>7 DEF WorkerRestarts
<1>8. UNCHANGED vars => UNCHANGED table
  BY DEF vars
<1> QED
  BY <1>1, <1>2, <1>3, <1>4, <1>5, <1>6, <1>7, <1>8
  DEF Next, RequestStep, WriteStep, ReportStep, HandleStep

OutcomeInv == TypeInv /\ EvidenceIffSucceeded

\* What an insert does to the table, and what a commit does.
LEMMA InsertAsks ==
  ASSUME OutcomeInv, NEW k \in Clients, InsertCompilation(k)
  PROVE  EvidenceIffSucceeded' /\ [Outcome!Next]_Decided
<1>1. /\ result \in [Compilations -> Terminal \cup {"unused", "queued"}]
      /\ EvidenceIffSucceeded /\ artifacts' = artifacts
  BY DEF OutcomeInv, TypeInv, Typed, TableTyped, InsertCompilation
<1>2. CASE result' = result
  BY <1>1, <1>2 DEF EvidenceIffSucceeded, Decided
<1>3. CASE \E c \in Compilations :
             result[c] = "unused" /\ result' = [result EXCEPT ![c] = "queued"]
  <2>1. PICK c \in Compilations :
          result[c] = "unused" /\ result' = [result EXCEPT ![c] = "queued"]
    BY <1>3
  <2>2. artifacts[c] = None
    BY <1>1, <2>1 DEF EvidenceIffSucceeded
  <2>3. EvidenceIffSucceeded'
    BY <1>1, <2>1, <2>2 DEF EvidenceIffSucceeded
  <2>4. Outcome!Ask(c)
    BY <1>1, <2>1, <2>2 DEF Outcome!Ask, Decided
  <2> QED
    BY <2>3, <2>4 DEF Outcome!Next
<1> QED
  BY <1>2, <1>3 DEF InsertCompilation

LEMMA CommitDecides ==
  ASSUME OutcomeInv, NEW i \in Calls, HandleCommit(i)
  PROVE  EvidenceIffSucceeded' /\ [Outcome!Next]_Decided
<1> DEFINE c == calls[i].comp
           b == calls[i].build
<1>1. /\ result \in [Compilations -> Terminal \cup {"unused", "queued"}]
      /\ artifacts \in [Compilations -> Builds \cup {None}]
      /\ EvidenceIffSucceeded
  BY DEF OutcomeInv, TypeInv, Typed, TableTyped
<1>2. c \in Compilations /\ b \in Builds /\ b # None
  BY CompilationAssumption DEF OutcomeInv, TypeInv, Typed, CallsTyped, HandleCommit
<1>3. CASE ~Unchanged(c)
  <2>1. UNCHANGED <<result, artifacts>>
    BY <1>3 DEF HandleCommit
  <2> QED
    BY <1>1, <2>1 DEF EvidenceIffSucceeded, Decided
<1>4. CASE Unchanged(c) /\ calls[i].kind = "complete"
  <2>1. /\ result[c] = "queued" /\ result' = [result EXCEPT ![c] = "succeeded"]
        /\ artifacts' = [artifacts EXCEPT ![c] = b]
    BY <1>4 DEF HandleCommit, Unchanged
  <2> HIDE DEF c, b
  <2>2. EvidenceIffSucceeded'
    BY <1>1, <1>2, <2>1 DEF EvidenceIffSucceeded
  <2>3. artifacts[c] = None
    BY <1>1, <1>2, <2>1 DEF EvidenceIffSucceeded
  <2>4. Outcome!Succeed(c, b)
    BY <1>1, <1>2, <2>1, <2>3 DEF Outcome!Succeed, Decided
  <2> QED
    BY <1>2, <2>2, <2>4 DEF Outcome!Next
<1>5. CASE Unchanged(c) /\ calls[i].kind # "complete"
  <2>1. /\ result[c] = "queued" /\ result' = [result EXCEPT ![c] = "failed"]
        /\ artifacts' = [artifacts EXCEPT ![c] = artifacts[c]]
    BY <1>5 DEF HandleCommit, Unchanged
  <2> HIDE DEF c, b
  <2>2. artifacts' = artifacts /\ artifacts[c] = None
    BY <1>1, <1>2, <2>1 DEF EvidenceIffSucceeded
  <2>3. EvidenceIffSucceeded'
    BY <1>1, <1>2, <2>1, <2>2 DEF EvidenceIffSucceeded
  <2>4. Outcome!Fail(c)
    BY <1>1, <1>2, <2>1, <2>2 DEF Outcome!Fail, Decided
  <2> QED
    BY <1>2, <2>3, <2>4 DEF Outcome!Next
<1> QED
  BY <1>3, <1>4, <1>5

LEMMA StepRefines == OutcomeInv /\ [Next]_vars => EvidenceIffSucceeded' /\ [Outcome!Next]_Decided
<1> SUFFICES ASSUME OutcomeInv, [Next]_vars
             PROVE  EvidenceIffSucceeded' /\ [Outcome!Next]_Decided
  OBVIOUS
<1>1. UNCHANGED table => EvidenceIffSucceeded' /\ UNCHANGED Decided
  BY DEF table, OutcomeInv, EvidenceIffSucceeded, Decided
<1> QED
  BY <1>1, RowsChange, InsertAsks, CommitDecides

LEMMA OutcomeInductive == Spec => []OutcomeInv
<1>1. Init => EvidenceIffSucceeded
  BY DEF Init, EvidenceIffSucceeded
<1>2. OutcomeInv /\ [Next]_vars => EvidenceIffSucceeded'
  BY StepRefines
<1>3. TypeInv /\ EvidenceIffSucceeded <=> OutcomeInv
  BY DEF OutcomeInv
<1> QED
  BY <1>1, <1>2, <1>3, TypeInductive, PTL DEF Spec

(* Compilation implements CompilationOutcome: it is decided at most once,  *)
(* and what was decided with its evidence never changes, whatever reports  *)
(* are lost, late, repeated or in conflict.                                *)
THEOREM DecidedOnce == Spec => ImplementsOutcome
<1>1. Init => Outcome!Init
  BY DEF Init, Outcome!Init, Decided
<1>2. OutcomeInv /\ [Next]_vars => [Outcome!Next]_Decided
  BY StepRefines
<1> QED
  BY <1>1, <1>2, OutcomeInductive, PTL DEF Spec, ImplementsOutcome, Outcome!Spec

-----------------------------------------------------------------------------
(***************************************************************************)
(* Sequence numbers.  Only an insert adds a row, and rows never go away.   *)
(***************************************************************************)
LEMMA RowsKept ==
  ASSUME TypeInv, NEW i \in Calls, HandleCommit(i), NEW p
  PROVE  Rows(p)' = Rows(p)
<1> DEFINE c == calls[i].comp
<1>1. /\ result \in [Compilations -> Terminal \cup {"unused", "queued"}]
      /\ pub' = pub
  BY DEF TypeInv, Typed, TableTyped, HandleCommit
<1>2. \/ result' = result
      \/ /\ result[c] = "queued"
         /\ \E end \in Terminal : result' = [result EXCEPT ![c] = end]
  BY DEF HandleCommit, Unchanged, Terminal
<1> HIDE DEF c
<1>3. \A d \in Compilations : result'[d] = "unused" <=> result[d] = "unused"
  BY <1>1, <1>2 DEF Terminal
<1> QED
  BY <1>1, <1>3 DEF Rows

\* Steps that leave the rows alone, and the requests that have counted them.
LEMMA CountsKept ==
  ASSUME SequencesDense, CountsInReach, sequence' = sequence, \A p : Rows(p)' = Rows(p),
         \A j \in Clients : req'[j].pc = "insert" => req'[j] = req[j]
  PROVE  SequencesDense' /\ CountsInReach'
<1>1. SequencesDense'
  BY DEF SequencesDense
<1>2. SUFFICES ASSUME NEW j \in Clients, NEW q, q = req'[j].pub, req'[j].pc = "insert"
               PROVE  q \in Publications /\ req'[j].seq \in 1 .. Cardinality(Rows(q)') + 1
  BY <1>1 DEF CountsInReach, Rows
<1>3. req'[j] = req[j]
  BY <1>2
<1>4. q \in Publications /\ req[j].seq \in 1 .. Cardinality(Rows(q)) + 1
  BY <1>2, <1>3 DEF CountsInReach
<1> QED
  BY <1>3, <1>4

\* The number a request has counted: either it is taken or it is the next.
LEMMA FreeIsNext ==
  ASSUME DenseInv, NEW k \in Clients, req[k].pc = "insert",
         SequenceFree(req[k].pub, req[k].seq)
  PROVE  req[k].seq = Cardinality(Rows(req[k].pub)) + 1
<1> DEFINE p == req[k].pub
           n == req[k].seq
<1>1. p \in Publications /\ n \in 1 .. Cardinality(Rows(p)) + 1
  BY DEF DenseInv, CountsInReach
<1>2. {sequence[c] : c \in Rows(p)} = 1 .. Cardinality(Rows(p))
  BY <1>1 DEF DenseInv, SequencesDense
<1>3. n \notin {sequence[c] : c \in Rows(p)}
  BY DEF SequenceFree
<1>4. Cardinality(Rows(p)) \in Nat
  BY RowsAreFew
<1> QED
  BY <1>1, <1>2, <1>3, <1>4

LEMMA InsertKeepsDense ==
  ASSUME DenseInv, NEW k \in Clients, InsertCompilation(k)
  PROVE  SequencesDense' /\ CountsInReach'
<1>0. PICK p, n : p = req[k].pub /\ n = req[k].seq
  OBVIOUS
<1>1. /\ result \in [Compilations -> Terminal \cup {"unused", "queued"}]
      /\ pub \in [Compilations -> Publications \cup {None}]
      /\ sequence \in [Compilations -> Nat]
      /\ req \in [Clients -> Request]
      /\ SequencesDense /\ CountsInReach
  BY DEF DenseInv, TypeInv, Typed, TableTyped, RequestsTyped
<1>2. CASE ~SequenceFree(p, n)
  <2>1. UNCHANGED <<result, pub, sequence>> /\ req' = [req EXCEPT ![k] = IdleReq]
    BY <1>0, <1>2 DEF InsertCompilation
  <2>2. IdleReq.pc = "idle"
    BY DEF IdleReq
  <2>3. \A j \in Clients : req'[j].pc = "insert" => req'[j] = req[j]
    BY <1>1, <2>1, <2>2
  <2>4. \A q : Rows(q)' = Rows(q)
    BY <2>1 DEF Rows
  <2> QED
    BY <1>1, <2>1, <2>3, <2>4, CountsKept
<1>3. CASE SequenceFree(p, n)
  <2>1. PICK c \in Compilations :
          /\ result[c] = "unused"
          /\ result' = [result EXCEPT ![c] = "queued"]
          /\ pub' = [pub EXCEPT ![c] = p]
          /\ sequence' = [sequence EXCEPT ![c] = n]
          /\ req' = [req EXCEPT ![k].pc = "enqueue", ![k].comp = c]
    BY <1>0, <1>3 DEF InsertCompilation
  <2>2. n = Cardinality(Rows(p)) + 1
    BY <1>0, <1>3, FreeIsNext DEF InsertCompilation
  <2>3. Rows(p)' = Rows(p) \cup {c} /\ c \notin Rows(p)
    BY <1>1, <2>1 DEF Rows
  <2>4. \A q : q # p => Rows(q)' = Rows(q) /\ c \notin Rows(q)
    BY <1>1, <2>1 DEF Rows
  <2>5. Cardinality(Rows(p)') = Cardinality(Rows(p)) + 1 /\ Cardinality(Rows(p)) \in Nat
    BY <2>3, RowsAreFew, FS_AddElement
  <2>6. SequencesDense'
    <3> SUFFICES ASSUME NEW q \in Publications
                 PROVE  {sequence'[d] : d \in Rows(q)'} = 1 .. Cardinality(Rows(q)')
      BY DEF SequencesDense
    <3>1. {sequence[d] : d \in Rows(q)} = 1 .. Cardinality(Rows(q))
      BY <1>1 DEF SequencesDense
    <3>2. \A d \in Rows(q) : d # c => sequence'[d] = sequence[d]
      BY <1>1, <2>1 DEF Rows
    <3>3. CASE q # p
      BY <2>4, <3>1, <3>2, <3>3
    <3>4. CASE q = p
      <4>1. {sequence'[d] : d \in Rows(p)'} = {sequence[d] : d \in Rows(p)} \cup {n}
        BY <1>1, <2>1, <2>3, <3>2, <3>4
      <4> QED
        BY <2>2, <2>5, <3>1, <3>4, <4>1
    <3> QED
      BY <3>3, <3>4
  <2>7. CountsInReach'
    <3> SUFFICES ASSUME NEW j \in Clients, NEW q, q = req'[j].pub, req'[j].pc = "insert"
                 PROVE  q \in Publications /\ req'[j].seq \in 1 .. Cardinality(Rows(q)') + 1
      BY DEF CountsInReach, Rows
    <3>1. j # k /\ req'[j] = req[j]
      BY <1>1, <2>1
    <3>2. q \in Publications /\ req[j].seq \in 1 .. Cardinality(Rows(q)) + 1
      BY <1>1, <3>1 DEF CountsInReach
    <3>3. CASE q = p
      BY <2>5, <3>1, <3>2, <3>3
    <3>4. CASE q # p
      BY <2>4, <3>1, <3>2, <3>4
    <3> QED
      BY <3>3, <3>4
  <2> QED
    BY <2>6, <2>7
<1> QED
  BY <1>2, <1>3

LEMMA StepKeepsDense == DenseInv /\ [Next]_vars => SequencesDense' /\ CountsInReach'
<1> SUFFICES ASSUME DenseInv, [Next]_vars PROVE SequencesDense' /\ CountsInReach'
  OBVIOUS
<1>0. /\ TypeInv /\ SequencesDense /\ CountsInReach
      /\ req \in [Clients -> Request]
  BY DEF DenseInv, TypeInv, Typed, RequestsTyped
<1>1. ASSUME NEW k \in Clients, NEW p \in Publications, CountCompilations(k, p)
      PROVE  SequencesDense' /\ CountsInReach'
  <2>1. PICK n : n = Cardinality(Rows(p)) + 1
    OBVIOUS
  <2>2. /\ req' = [req EXCEPT ![k] = [IdleReq EXCEPT !.pc = "insert", !.pub = p, !.seq = n]]
        /\ sequence' = sequence /\ \A q : Rows(q)' = Rows(q)
    BY <1>1, <2>1 DEF CountCompilations, table, Rows
  <2>3. SequencesDense'
    BY <1>0, <2>2 DEF SequencesDense
  <2>4. SUFFICES ASSUME NEW j \in Clients, NEW q, q = req'[j].pub, req'[j].pc = "insert"
                 PROVE  q \in Publications /\ req'[j].seq \in 1 .. Cardinality(Rows(q)') + 1
    BY <2>3 DEF CountsInReach, Rows
  <2>5. CASE j = k
    <3>1. q = p /\ req'[j].seq = n
      BY <1>0, <2>2, <2>4, <2>5 DEF IdleReq
    <3>2. Cardinality(Rows(p)) \in Nat /\ Rows(p)' = Rows(p)
      BY <2>2, RowsAreFew
    <3> QED
      BY <2>1, <3>1, <3>2
  <2>6. CASE j # k
    <3>1. req'[j] = req[j]
      BY <1>0, <2>2, <2>6
    <3>2. q \in Publications /\ req[j].seq \in 1 .. Cardinality(Rows(q)) + 1
      BY <1>0, <2>4, <3>1 DEF CountsInReach
    <3> QED
      BY <2>2, <3>1, <3>2
  <2> QED
    BY <2>5, <2>6
<1>2. ASSUME NEW k \in Clients, EnqueueCompilation(k)
      PROVE  SequencesDense' /\ CountsInReach'
  <2>1. /\ req' = [req EXCEPT ![k] = IdleReq] /\ UNCHANGED table
        /\ IdleReq.pc = "idle"
    BY <1>2 DEF EnqueueCompilation, IdleReq
  <2>2. \A j \in Clients : req'[j].pc = "insert" => req'[j] = req[j]
    BY <1>0, <2>1
  <2>3. sequence' = sequence /\ \A q : Rows(q)' = Rows(q)
    BY <2>1 DEF table, Rows
  <2> QED
    BY <1>0, <2>2, <2>3, CountsKept
<1>3. ASSUME NEW i \in Calls, HandleCommit(i)
      PROVE  SequencesDense' /\ CountsInReach'
  <2>1. sequence' = sequence /\ req' = req
    BY <1>3 DEF HandleCommit
  <2>2. \A q : Rows(q)' = Rows(q)
    BY <1>0, <1>3, RowsKept
  <2> QED
    BY <1>0, <2>1, <2>2, CountsKept
<1>4. ASSUME ControlPlaneRestarts
      PROVE  SequencesDense' /\ CountsInReach'
  <2>1. req' = [k \in Clients |-> IdleReq] /\ UNCHANGED table /\ IdleReq.pc = "idle"
    BY <1>4 DEF ControlPlaneRestarts, IdleReq
  <2>2. \A j \in Clients : req'[j].pc # "insert"
    BY <2>1
  <2>3. sequence' = sequence /\ \A q : Rows(q)' = Rows(q)
    BY <2>1 DEF table, Rows
  <2> QED
    BY <1>0, <2>2, <2>3, CountsKept
<1>5. ASSUME UNCHANGED <<table, req>>
      PROVE  SequencesDense' /\ CountsInReach'
  <2>1. sequence' = sequence /\ req' = req /\ \A q : Rows(q)' = Rows(q)
    BY <1>5 DEF table, Rows
  <2> QED
    BY <1>0, <2>1, CountsKept
<1>6. ASSUME NEW i \in Calls,
             SendReport(i) \/ AnswerLost(i) \/ HandleRead(i) \/ CommitConflicts(i)
      PROVE  UNCHANGED <<table, req>>
  BY <1>6 DEF SendReport, AnswerLost, HandleRead, CommitConflicts
<1>7. ASSUME NEW w \in Writers, WriteStep(w)
      PROVE  UNCHANGED <<table, req>>
  BY <1>7 DEF WriteStep, WriteFile, WriteFails, WritingEnds
<1>8. ASSUME NEW b \in Builds, WorkerRestarts(b)
      PROVE  UNCHANGED <<table, req>>
  BY <1>8 DEF WorkerRestarts
<1>9. ASSUME NEW c \in Compilations, VerificationBegins(c)
      PROVE  UNCHANGED <<table, req>>
  BY <1>9 DEF VerificationBegins
<1>10. ASSUME TakeJob \/ ReportLost \/ JobStalls
       PROVE  UNCHANGED <<table, req>>
  BY <1>10 DEF TakeJob, ReportLost, JobStalls
<1>11. UNCHANGED vars => UNCHANGED <<table, req>>
  BY DEF vars
<1>12. ASSUME NEW k \in Clients, InsertCompilation(k)
       PROVE  SequencesDense' /\ CountsInReach'
  BY <1>12, InsertKeepsDense
<1> QED
  BY <1>1, <1>2, <1>3, <1>4, <1>5, <1>6, <1>7, <1>8, <1>9, <1>10, <1>11, <1>12
  DEF Next, RequestStep, ReportStep, HandleStep

(* The compilations of a publication are numbered 1 to n without a gap,    *)
(* however many requests count and insert at the same time: an insert is   *)
(* refused unless its number, counted earlier, is still the next.          *)
THEOREM DenselyNumbered == Spec => []SequencesDense
<1>1. Init => SequencesDense /\ CountsInReach
  <2>1. Init => \A p : Rows(p) = {}
    BY DEF Init, Rows
  <2>2. Cardinality({}) = 0 /\ 1 .. 0 = {}
    BY FS_EmptySet
  <2>3. Init => SequencesDense
    BY <2>1, <2>2 DEF SequencesDense
  <2>4. Init => CountsInReach
    BY DEF Init, CountsInReach, IdleReq
  <2> QED
    BY <2>3, <2>4
<1>2. DenseInv /\ [Next]_vars => SequencesDense' /\ CountsInReach'
  BY StepKeepsDense
<1>3. TypeInv /\ SequencesDense /\ CountsInReach <=> DenseInv
  BY DEF DenseInv
<1> QED
  BY <1>1, <1>2, <1>3, TypeInductive, PTL DEF Spec
-----------------------------------------------------------------------------
(***************************************************************************)
(* What is announced was written.  A file that was begun is never absent   *)
(* again, a writer at file n has passed the files below n, and everything  *)
(* that will announce a compilation knows that its files are there.        *)
(***************************************************************************)
Known(c) == result[c] # "unused"
Whole(p) == \A f \in Files : files[p][f] # "absent"

\* An inserted row is of a publication, and what is in flight names inserted rows.
InFlightKnown ==
  /\ \A c \in Compilations : Known(c) => pub[c] \in Publications
  /\ \A k \in Clients : req[k].pc = "insert" => req[k].pub \in Publications
  /\ \A k \in Clients : req[k].pc = "enqueue" => Known(req[k].comp)
  /\ \A n \in DOMAIN queue : Known(queue[n])
  /\ job.pc # "free" => Known(job.comp)
  /\ \A i \in Calls : calls[i].pc # "free" => Known(calls[i].comp)

WritersInOrder ==
  /\ \A w \in Writers : writer[w].pub # None =>
       \A f \in Files : f < writer[w].next => files[writer[w].pub][f] # "absent"
  /\ writer["compile"].pub # None => writer["compile"].pub = pub[job.comp]

ReportsWhole ==
  /\ job.pc \in {"report", "awaitComplete"} => Whole(pub[job.comp])
  /\ \A i \in Calls : calls[i].pc # "free" /\ calls[i].kind = "complete" =>
       Whole(pub[calls[i].comp])

FilesInv == TypeInv /\ InFlightKnown /\ WritersInOrder /\ ReportsWhole /\ AnnouncedFilesExist

\* Which steps change the job, the calls, the queue, the writers and the files.
LEMMA JobChanges ==
  ASSUME [Next]_vars
  PROVE  \/ TakeJob
         \/ WritingEnds("compile")
         \/ \E i \in Calls : SendReport(i)
         \/ WriteFails("compile")
         \/ job' \in {job, NoJob, AfterError}
<1>1. ASSUME NEW w \in Writers, WriteStep(w)
      PROVE  WritingEnds("compile") \/ WriteFails("compile") \/ job' = job
  BY <1>1 DEF WriteStep, WriteFile, WriteFails, WritingEnds
<1>2. ASSUME NEW i \in Calls, AnswerLost(i) \/ HandleStep(i)
      PROVE  job' \in {job, NoJob, AfterError}
  BY <1>2 DEF AnswerLost, HandleStep, HandleRead, HandleCommit, CommitConflicts, RunAgain, Answer
<1>3. ASSUME NEW k \in Clients,
             RequestStep(k) \/ \E p \in Publications : CountCompilations(k, p)
      PROVE  job' = job
  BY <1>3 DEF RequestStep, InsertCompilation, EnqueueCompilation, CountCompilations
<1>4. ASSUME ReportLost \/ JobStalls \/ ControlPlaneRestarts
             \/ (\E b \in Builds : WorkerRestarts(b))
             \/ (\E c \in Compilations : VerificationBegins(c)) \/ UNCHANGED vars
      PROVE  job' \in {job, NoJob, AfterError}
  BY <1>4 DEF ReportLost, JobStalls, ControlPlaneRestarts, WorkerRestarts, VerificationBegins, vars
<1> QED
  BY <1>1, <1>2, <1>3, <1>4 DEF Next, ReportStep

\* A call that goes on is the call it was.
CallsGoOn ==
  \A i \in Calls : calls'[i].pc # "free" =>
    calls[i].pc # "free" /\ calls'[i].comp = calls[i].comp /\ calls'[i].kind = calls[i].kind

LEMMA CallsChange ==
  ASSUME TypeInv, [Next]_vars
  PROVE  (\E i \in Calls : SendReport(i)) \/ CallsGoOn
<1>0. calls \in [Calls -> Call]
  BY DEF TypeInv, Typed, CallsTyped
<1>1. calls' = calls => CallsGoOn
  BY DEF CallsGoOn
<1>2. ASSUME NEW i \in Calls, AnswerLost(i)
      PROVE  CallsGoOn
  <2>1. calls' = [calls EXCEPT ![i].waiting = FALSE]
    BY <1>2 DEF AnswerLost
  <2> QED
    BY <1>0, <2>1 DEF CallsGoOn, Call
<1>3. ASSUME NEW i \in Calls, calls' = [calls EXCEPT ![i] = NoCall]
      PROVE  CallsGoOn
  BY <1>0, <1>3 DEF CallsGoOn, NoCall
<1>4. ASSUME NEW i \in Calls, calls[i].pc # "free",
             calls' = [calls EXCEPT ![i].pc = "commit"]
      PROVE  CallsGoOn
  BY <1>0, <1>4 DEF CallsGoOn, Call
<1>5. ASSUME NEW i \in Calls, calls[i].pc # "free",
             calls' = [calls EXCEPT ![i].pc = "read", ![i].tries = @ + 1]
      PROVE  CallsGoOn
  BY <1>0, <1>5 DEF CallsGoOn, Call
<1>6. ASSUME NEW i \in Calls, HandleStep(i)
      PROVE  CallsGoOn
  <2>1. calls[i].pc # "free"
    BY <1>6 DEF HandleStep, HandleRead, HandleCommit, CommitConflicts
  <2>2. \/ calls' = [calls EXCEPT ![i] = NoCall]
        \/ calls' = [calls EXCEPT ![i].pc = "commit"]
        \/ calls' = [calls EXCEPT ![i].pc = "read", ![i].tries = @ + 1]
    BY <1>6 DEF HandleStep, HandleRead, HandleCommit, CommitConflicts, RunAgain, Answer
  <2> QED
    BY <2>1, <2>2, <1>3, <1>4, <1>5
<1>7. ASSUME NEW b \in Builds, WorkerRestarts(b)
      PROVE  CallsGoOn
  <2>1. calls' = [i \in Calls |-> [calls[i] EXCEPT !.waiting = FALSE]]
    BY <1>7 DEF WorkerRestarts
  <2> QED
    BY <1>0, <2>1 DEF CallsGoOn, Call
<1>8. ASSUME ControlPlaneRestarts
      PROVE  CallsGoOn
  <2>1. calls' = [i \in Calls |-> NoCall]
    BY <1>8 DEF ControlPlaneRestarts
  <2> QED
    BY <2>1 DEF CallsGoOn, NoCall
<1>9. ASSUME NEW k \in Clients,
             RequestStep(k) \/ \E p \in Publications : CountCompilations(k, p)
      PROVE  calls' = calls
  BY <1>9 DEF RequestStep, InsertCompilation, EnqueueCompilation, CountCompilations
<1>10. ASSUME \/ TakeJob \/ ReportLost \/ JobStalls \/ UNCHANGED vars
              \/ \E c \in Compilations : VerificationBegins(c)
              \/ \E w \in Writers : WriteStep(w)
       PROVE  calls' = calls
  BY <1>10 DEF TakeJob, ReportLost, JobStalls, VerificationBegins, WriteStep, WriteFile,
     WriteFails, WritingEnds, vars
<1> QED
  BY <1>1, <1>2, <1>6, <1>7, <1>8, <1>9, <1>10 DEF Next, ReportStep

LEMMA QueueChanges ==
  ASSUME [Next]_vars
  PROVE  \/ \E k \in Clients : EnqueueCompilation(k)
         \/ TakeJob
         \/ job.pc # "free" /\ queue' = <<job.comp>> \o queue
         \/ queue' = queue
<1>1. ASSUME \/ \E b \in Builds : WorkerRestarts(b)
             \/ JobStalls \/ ControlPlaneRestarts \/ ReportLost \/ UNCHANGED vars
      PROVE  (job.pc # "free" /\ queue' = <<job.comp>> \o queue) \/ queue' = queue
  BY <1>1 DEF WorkerRestarts, JobStalls, ControlPlaneRestarts, ReportLost, vars
<1>2. ASSUME \/ \E w \in Writers : WriteStep(w)
             \/ \E c \in Compilations : VerificationBegins(c)
             \/ \E k \in Clients : InsertCompilation(k)
             \/ \E k \in Clients, p \in Publications : CountCompilations(k, p)
      PROVE  queue' = queue
  BY <1>2 DEF WriteStep, WriteFile, WriteFails, WritingEnds, VerificationBegins,
     InsertCompilation, CountCompilations
<1>3. ASSUME NEW i \in Calls, SendReport(i) \/ AnswerLost(i) \/ HandleStep(i)
      PROVE  queue' = queue
  BY <1>3 DEF SendReport, AnswerLost, HandleStep, HandleRead, HandleCommit, CommitConflicts
<1> QED
  BY <1>1, <1>2, <1>3 DEF Next, RequestStep, ReportStep

LEMMA WritersChange ==
  ASSUME TypeInv, [Next]_vars
  PROVE  \/ TakeJob
         \/ \E c \in Compilations : VerificationBegins(c)
         \/ \E w \in Writers : WriteFile(w)
         \/ files' = files /\ \A w \in Writers : writer'[w] \in {writer[w], NoWrite}
<1>0. writer \in [Writers -> Write]
  BY DEF TypeInv, Typed, DiskTyped
<1>1. ASSUME NEW v \in Writers, WriteFails(v) \/ WritingEnds(v)
      PROVE  files' = files /\ \A w \in Writers : writer'[w] \in {writer[w], NoWrite}
  BY <1>0, <1>1 DEF WriteFails, WritingEnds
<1>2. ASSUME NEW b \in Builds, WorkerRestarts(b)
      PROVE  files' = files /\ \A w \in Writers : writer'[w] \in {writer[w], NoWrite}
  BY <1>2 DEF WorkerRestarts
<1>3. ASSUME \/ JobStalls \/ ControlPlaneRestarts \/ ReportLost \/ UNCHANGED vars
             \/ \E k \in Clients : RequestStep(k)
             \/ \E k \in Clients, p \in Publications : CountCompilations(k, p)
             \/ \E i \in Calls : SendReport(i) \/ AnswerLost(i) \/ HandleStep(i)
      PROVE  files' = files /\ writer' = writer
  BY <1>3 DEF JobStalls, ControlPlaneRestarts, ReportLost, RequestStep, InsertCompilation,
     EnqueueCompilation, CountCompilations, SendReport, AnswerLost, HandleStep, HandleRead,
     HandleCommit, CommitConflicts, vars, disk
<1> QED
  BY <1>1, <1>2, <1>3 DEF Next, WriteStep, ReportStep

\* Rows that were inserted keep their publication, files that exist do not vanish.
KnownKept == \A c \in Compilations : Known(c) => Known(c)' /\ pub'[c] = pub[c]
FilesKept ==
  \A p \in Publications, f \in Files : files[p][f] # "absent" => files'[p][f] # "absent"

LEMMA StepKeepsKnown ==
  ASSUME TypeInv, [Next]_vars
  PROVE  KnownKept
<1>0. result \in [Compilations -> Terminal \cup {"unused", "queued"}] /\ pub \in [Compilations -> Publications \cup {None}]
  BY DEF TypeInv, Typed, TableTyped
<1>1. ASSUME NEW k \in Clients, InsertCompilation(k)
      PROVE  KnownKept
  BY <1>0, <1>1 DEF InsertCompilation, KnownKept, Known
<1>2. ASSUME NEW i \in Calls, HandleCommit(i)
      PROVE  KnownKept
  <2>1. /\ pub' = pub
        /\ \/ result' = result
           \/ \E s \in Terminal : result' = [result EXCEPT ![calls[i].comp] = s]
    BY <1>2 DEF HandleCommit, Terminal
  <2> QED
    BY <1>0, <2>1 DEF KnownKept, Known, Terminal
<1>3. UNCHANGED table => KnownKept
  BY DEF table, KnownKept, Known
<1> QED
  BY <1>1, <1>2, <1>3, RowsChange

LEMMA StepKeepsFiles ==
  ASSUME TypeInv, [Next]_vars
  PROVE  FilesKept
<1>0. files \in [Publications -> [Files -> Contents]] /\ build \in Builds
  BY DEF TypeInv, Typed, DiskTyped
<1>1. ASSUME NEW w \in Writers, WriteFile(w)
      PROVE  FilesKept
  <2>1. build # "absent"
    BY <1>0, CompilationAssumption
  <2>2. \E v \in {build, "torn"} :
          files' = [files EXCEPT ![writer[w].pub][writer[w].next] = v]
    BY <1>1 DEF WriteFile
  <2> QED
    BY <1>0, <2>1, <2>2 DEF FilesKept
<1>2. files' = files => FilesKept
  BY DEF FilesKept
<1>3. TakeJob \/ (\E c \in Compilations : VerificationBegins(c)) => files' = files
  BY DEF TakeJob, VerificationBegins
<1> QED
  BY <1>1, <1>2, <1>3, WritersChange

LEMMA StepKeepsInFlight ==
  ASSUME FilesInv, [Next]_vars
  PROVE  InFlightKnown'
<1>0. TypeInv /\ InFlightKnown
  BY DEF FilesInv
<1>1. KnownKept
  BY <1>0, StepKeepsKnown
<1>2. /\ req \in [Clients -> Request] /\ queue \in Seq(Compilations)
      /\ \A k \in Clients : req[k].pc = "enqueue" => req[k].comp \in Compilations
      /\ \A i \in Calls : calls[i].pc # "free" => calls[i].comp \in Compilations
      /\ job.pc # "free" => job.comp \in Compilations
      /\ result \in [Compilations -> Terminal \cup {"unused", "queued"}]
      /\ pub \in [Compilations -> Publications \cup {None}]
      /\ calls \in [Calls -> Call] /\ job \in Job
  BY <1>0 DEF TypeInv, Typed, RequestsTyped, CallsTyped, JobTyped, QueueTyped, TableTyped
<1>3. \A c \in Compilations : result[c] # "unused" => result'[c] # "unused"
  BY <1>1 DEF KnownKept, Known
<1>4. \A n \in DOMAIN queue : queue[n] \in Compilations
  BY <1>2
<1>5. (\A c \in Compilations : Known(c) => pub[c] \in Publications)'
  <2>1. ASSUME NEW k \in Clients, InsertCompilation(k), NEW c \in Compilations, Known(c)'
        PROVE  pub'[c] \in Publications
    BY <1>0, <1>2, <2>1 DEF InsertCompilation, InFlightKnown, Known
  <2>2. ASSUME NEW i \in Calls, HandleCommit(i), NEW c \in Compilations, Known(c)'
        PROVE  pub'[c] \in Publications
    <3>1. (pub' = pub /\ Unchanged(calls[i].comp)) \/ UNCHANGED <<pub, result>>
      BY <2>2 DEF HandleCommit
    <3>2. \/ UNCHANGED result
          \/ \E s \in Terminal : result' = [result EXCEPT ![calls[i].comp] = s]
      BY <2>2 DEF HandleCommit, Terminal
    <3>3. Known(c)
      BY <1>2, <2>2, <3>1, <3>2 DEF Known, Unchanged
    <3> QED
      BY <1>0, <3>1, <3>3 DEF InFlightKnown, Known
  <2>3. ASSUME UNCHANGED table, NEW c \in Compilations, Known(c)'
        PROVE  pub'[c] \in Publications
    BY <1>0, <2>3 DEF table, InFlightKnown, Known
  <2> QED
    BY <2>1, <2>2, <2>3, RowsChange
<1>6. \A k \in Clients :
        /\ req'[k].pc = "insert" => req'[k].pub \in Publications
        /\ req'[k].pc = "enqueue" => result'[req'[k].comp] # "unused"
  <2>1. ASSUME NEW j \in Clients, NEW p \in Publications, CountCompilations(j, p),
               NEW k \in Clients
        PROVE  /\ req'[k].pc = "insert" => req'[k].pub \in Publications
               /\ req'[k].pc = "enqueue" => result'[req'[k].comp] # "unused"
    <3>1. req' = [req EXCEPT ![j] = [IdleReq EXCEPT !.pc = "insert", !.pub = p,
                                       !.seq = Cardinality(Rows(p)) + 1]]
      BY <2>1 DEF CountCompilations
    <3>2. k # j => req'[k] = req[k]
      BY <1>2, <3>1
    <3>3. req'[j].pc = "insert" /\ req'[j].pub = p
      BY <1>2, <3>1 DEF IdleReq
    <3> QED
      BY <1>0, <1>2, <1>3, <3>2, <3>3 DEF InFlightKnown, Known
  <2>2. ASSUME NEW j \in Clients, InsertCompilation(j), NEW k \in Clients
        PROVE  /\ req'[k].pc = "insert" => req'[k].pub \in Publications
               /\ req'[k].pc = "enqueue" => result'[req'[k].comp] # "unused"
    <3>1. k # j => req'[k] = req[k]
      BY <1>2, <2>2 DEF InsertCompilation
    <3>2. \/ req'[j] = IdleReq
          \/ \E c \in Compilations : /\ result' = [result EXCEPT ![c] = "queued"]
                                     /\ req'[j].pc = "enqueue" /\ req'[j].comp = c
      BY <1>2, <2>2 DEF InsertCompilation, Request
    <3>3. req'[j].pc # "insert" /\ (req'[j].pc = "enqueue" => result'[req'[j].comp] # "unused")
      BY <1>2, <3>2 DEF IdleReq, Known
    <3> QED
      BY <1>0, <1>2, <1>3, <3>1, <3>3 DEF InFlightKnown, Known
  <2>3. ASSUME NEW k \in Clients, req'[k] \in {req[k], IdleReq}
        PROVE  /\ req'[k].pc = "insert" => req'[k].pub \in Publications
               /\ req'[k].pc = "enqueue" => result'[req'[k].comp] # "unused"
    BY <1>0, <1>2, <1>3, <2>3 DEF InFlightKnown, Known, IdleReq
  <2>4. ASSUME NEW j \in Clients, EnqueueCompilation(j), NEW k \in Clients
        PROVE  req'[k] \in {req[k], IdleReq}
    BY <1>2, <2>4 DEF EnqueueCompilation
  <2>5. ASSUME ControlPlaneRestarts, NEW k \in Clients
        PROVE  req'[k] = IdleReq
    BY <2>5 DEF ControlPlaneRestarts
  <2>6. ASSUME \/ TakeJob \/ ReportLost \/ JobStalls \/ UNCHANGED vars
               \/ \E c \in Compilations : VerificationBegins(c)
               \/ \E w \in Writers : WriteStep(w)
               \/ \E b \in Builds : WorkerRestarts(b)
        PROVE  req' = req
    BY <2>6 DEF TakeJob, ReportLost, JobStalls, VerificationBegins, WriteStep, WriteFile,
       WriteFails, WritingEnds, WorkerRestarts, vars
  <2>7. ASSUME NEW i \in Calls, SendReport(i) \/ AnswerLost(i) \/ HandleStep(i)
        PROVE  req' = req
    BY <2>7 DEF SendReport, AnswerLost, HandleStep, HandleRead, HandleCommit, CommitConflicts
  <2> QED
    BY <2>1, <2>2, <2>3, <2>4, <2>5, <2>6, <2>7 DEF Next, RequestStep, ReportStep
<1>7. \A n \in DOMAIN queue' : result'[queue'[n]] # "unused"
  <2>1. ASSUME NEW k \in Clients, EnqueueCompilation(k)
        PROVE  \A n \in DOMAIN queue' : result'[queue'[n]] # "unused"
    <3>1. req[k].comp \in Compilations /\ result[req[k].comp] # "unused"
      BY <1>0, <1>2, <2>1 DEF EnqueueCompilation, InFlightKnown, Known
    <3>2. queue' = queue \/ queue' = Append(queue, req[k].comp)
      BY <2>1 DEF EnqueueCompilation
    <3>3. \A n \in DOMAIN queue' : queue'[n] = req[k].comp \/ (n \in DOMAIN queue /\ queue'[n] = queue[n])
      BY <1>2, <3>2
    <3> QED
      BY <1>0, <1>3, <1>4, <3>1, <3>3 DEF InFlightKnown, Known
  <2>2. ASSUME TakeJob
        PROVE  \A n \in DOMAIN queue' : result'[queue'[n]] # "unused"
    <3>1. queue # <<>> /\ queue' = Tail(queue)
      BY <2>2 DEF TakeJob
    <3>2. \A n \in DOMAIN queue' : n + 1 \in DOMAIN queue /\ queue'[n] = queue[n + 1]
      BY <1>2, <3>1
    <3> QED
      BY <1>0, <1>3, <1>4, <3>2 DEF InFlightKnown, Known
  <2>3. ASSUME job.pc # "free", queue' = <<job.comp>> \o queue
        PROVE  \A n \in DOMAIN queue' : result'[queue'[n]] # "unused"
    <3>1. \A n \in DOMAIN queue' :
            queue'[n] = job.comp \/ (n - 1 \in DOMAIN queue /\ queue'[n] = queue[n - 1])
      BY <1>2, <2>3
    <3> QED
      BY <1>0, <1>2, <1>3, <1>4, <2>3, <3>1 DEF InFlightKnown, Known
  <2>4. queue' = queue => \A n \in DOMAIN queue' : result'[queue'[n]] # "unused"
    BY <1>0, <1>3, <1>4 DEF InFlightKnown, Known
  <2> QED
    BY <2>1, <2>2, <2>3, <2>4, QueueChanges
<1>8. job'.pc # "free" => result'[job'.comp] # "unused"
  <2>1. ASSUME job'.pc # "free" => job.pc # "free" /\ job'.comp = job.comp
        PROVE  job'.pc # "free" => result'[job'.comp] # "unused"
    BY <1>0, <1>2, <1>3, <2>1 DEF InFlightKnown, Known
  <2>2. ASSUME TakeJob
        PROVE  result'[job'.comp] # "unused"
    <3>1. job'.comp = queue[1] /\ 1 \in DOMAIN queue
      BY <1>2, <2>2 DEF TakeJob
    <3> QED
      BY <1>0, <1>3, <1>4, <3>1 DEF InFlightKnown, Known
  <2>3. ASSUME \/ WritingEnds("compile") \/ WriteFails("compile")
               \/ \E i \in Calls : SendReport(i)
        PROVE  job'.pc # "free" => job.pc # "free" /\ job'.comp = job.comp
    <3>1. job.pc # "free"
      BY <1>0, <2>3 DEF WritingEnds, WriteFails, AllWritten, SendReport, TypeInv, OneThingAtATime
    <3>2. job'.comp = job.comp
      BY <1>2, <2>3 DEF WritingEnds, WriteFails, SendReport, Job
    <3> QED
      BY <3>1, <3>2
  <2>4. job' = AfterError => (job'.pc # "free" => job.pc # "free" /\ job'.comp = job.comp)
    BY <1>2 DEF AfterError, NoJob, Job
  <2>5. job' = NoJob => job'.pc = "free"
    BY DEF NoJob
  <2> QED
    BY <2>1, <2>2, <2>3, <2>4, <2>5, JobChanges
<1>9. \A i \in Calls : calls'[i].pc # "free" => result'[calls'[i].comp] # "unused"
  <2>1. ASSUME CallsGoOn, NEW i \in Calls, calls'[i].pc # "free"
        PROVE  result'[calls'[i].comp] # "unused"
    BY <1>0, <1>2, <1>3, <2>1 DEF CallsGoOn, InFlightKnown, Known
  <2>2. ASSUME NEW j \in Calls, SendReport(j), NEW i \in Calls, calls'[i].pc # "free"
        PROVE  result'[calls'[i].comp] # "unused"
    <3>1. i # j => calls'[i] = calls[i]
      BY <1>2, <2>2 DEF SendReport
    <3>2. calls'[j].comp = job.comp /\ job.pc # "free"
      BY <1>2, <2>2 DEF SendReport
    <3> QED
      BY <1>0, <1>2, <1>3, <2>2, <3>1, <3>2 DEF InFlightKnown, Known
  <2> QED
    BY <1>0, <2>1, <2>2, CallsChange
<1> QED
  BY <1>5, <1>6, <1>7, <1>8, <1>9 DEF InFlightKnown, Known

\* A known compilation's files stay whole.
LEMMA WholeStays ==
  ASSUME FilesInv, [Next]_vars, NEW c \in Compilations, Known(c), Whole(pub[c])
  PROVE  pub'[c] = pub[c] /\ \A f \in Files : files'[pub[c]][f] # "absent"
<1>1. KnownKept /\ FilesKept
  BY StepKeepsKnown, StepKeepsFiles DEF FilesInv
<1>2. pub[c] \in Publications
  BY DEF FilesInv, InFlightKnown
<1> QED
  BY <1>1, <1>2 DEF KnownKept, FilesKept, Whole

LEMMA StepKeepsWritersInOrder ==
  ASSUME FilesInv, [Next]_vars
  PROVE  WritersInOrder'
<1>0. /\ TypeInv /\ InFlightKnown /\ WritersInOrder
      /\ writer \in [Writers -> Write] /\ files \in [Publications -> [Files -> Contents]]
      /\ FileCount \in Nat \ {0} /\ build \in Builds /\ queue \in Seq(Compilations)
      /\ job \in Job /\ (job.pc # "free" => job.comp \in Compilations)
      /\ \A n \in DOMAIN queue : queue[n] \in Compilations
  BY CompilationAssumption
  DEF FilesInv, TypeInv, Typed, DiskTyped, QueueTyped, JobTyped
<1>1. KnownKept /\ FilesKept
  BY <1>0, StepKeepsKnown, StepKeepsFiles
<1> DEFINE InOrder(w) == writer'[w].pub # None =>
             \A f \in Files : f < writer'[w].next => files'[writer'[w].pub][f] # "absent"
<1>2. ASSUME NEW w \in Writers, writer'[w] = writer[w]
      PROVE  InOrder(w)
  <2>1. writer[w].pub \in Publications \cup {None}
    BY <1>0 DEF Write
  <2> QED
    BY <1>0, <1>1, <1>2, <2>1 DEF WritersInOrder, FilesKept
<1>3. ASSUME NEW w \in Writers, NEW p, writer'[w] = WriteTo(p)
      PROVE  InOrder(w)
  <2>1. writer'[w].next = 1
    BY <1>3 DEF WriteTo
  <2>2. \A f \in Files : ~(f < 1)
    BY <1>0 DEF Files
  <2> QED
    BY <2>1, <2>2
<1>4. \A w \in Writers : InOrder(w)
  <2>1. ASSUME TakeJob, NEW w \in Writers
        PROVE  InOrder(w)
    <3>1. writer'[w] = writer[w] \/ writer'[w] = WriteTo(pub[Head(queue)])
      BY <1>0, <2>1 DEF TakeJob
    <3> QED
      BY <1>2, <1>3, <3>1
  <2>2. ASSUME NEW c \in Compilations, VerificationBegins(c), NEW w \in Writers
        PROVE  InOrder(w)
    <3>1. writer'[w] = writer[w] \/ writer'[w] = WriteTo(pub[c])
      BY <1>0, <2>2 DEF VerificationBegins
    <3> QED
      BY <1>2, <1>3, <3>1
  <2>3. ASSUME NEW v \in Writers, WriteFile(v), NEW w \in Writers
        PROVE  InOrder(w)
    <3>1. CASE w # v
      <4>1. writer'[w] = writer[w]
        BY <1>0, <2>3, <3>1 DEF WriteFile
      <4> QED
        BY <1>2, <4>1
    <3>2. CASE w = v
      <4>1. /\ writer[v].pub \in Publications /\ writer[v].pub # None
            /\ writer[v].next \in Files /\ writer'[v].pub = writer[v].pub
        BY <1>0, <2>3 DEF WriteFile, Write, Files
      <4>2. CASE writer[v].open
        <5>1. /\ writer'[v].next = writer[v].next + 1
              /\ files'[writer[v].pub][writer[v].next] = build
          BY <1>0, <2>3, <4>1, <4>2 DEF WriteFile, Write
        <5>2. build # "absent"
          BY <1>0, CompilationAssumption
        <5>3. \A f \in Files : f < writer[v].next + 1 => f < writer[v].next \/ f = writer[v].next
          BY <4>1 DEF Files
        <5>4. \A f \in Files : f < writer[v].next => files'[writer[v].pub][f] # "absent"
          BY <1>0, <1>1, <4>1 DEF WritersInOrder, FilesKept
        <5> QED
          BY <3>2, <4>1, <5>1, <5>2, <5>3, <5>4
      <4>3. CASE ~writer[v].open
        <5>1. writer'[v].next = writer[v].next
          BY <1>0, <2>3, <4>3 DEF WriteFile, Write
        <5>2. \A f \in Files : f < writer[v].next => files'[writer[v].pub][f] # "absent"
          BY <1>0, <1>1, <4>1 DEF WritersInOrder, FilesKept
        <5> QED
          BY <3>2, <4>1, <5>1, <5>2
      <4> QED
        BY <4>2, <4>3
    <3> QED
      BY <3>1, <3>2
  <2>4. ASSUME NEW w \in Writers, writer'[w] \in {writer[w], NoWrite}
        PROVE  InOrder(w)
    BY <1>2, <1>3, <2>4 DEF NoWrite
  <2> QED
    BY <1>0, <2>1, <2>2, <2>3, <2>4, WritersChange
<1>5. writer'["compile"].pub # None => writer'["compile"].pub = pub'[job'.comp]
  <2> SUFFICES ASSUME writer'["compile"].pub # None
               PROVE  writer'["compile"].pub = pub'[job'.comp]
    OBVIOUS
  <2>1. CASE TakeJob
    BY <1>0, <2>1 DEF TakeJob, Writers, WriteTo, table
  <2>2. CASE ~TakeJob
    <3>1. job'.pc = "write"
      BY <1>0, StepGoesOn DEF OneThingAtATime
    <3>2. AfterError.pc # "write" /\ NoJob.pc # "write"
      BY <1>0 DEF AfterError, NoJob, Job
    <3>3. WritingEnds("compile") \/ WriteFails("compile") \/ (\E i \in Calls : SendReport(i))
             => job'.pc # "write"
      BY <1>0 DEF WritingEnds, WriteFails, SendReport, Job
    <3>4. job' = job
      BY <2>2, <3>1, <3>2, <3>3, JobChanges
    <3>5. writer'["compile"].pub = writer["compile"].pub
      <4>1. ASSUME NEW c \in Compilations, VerificationBegins(c)
            PROVE  writer'["compile"] = writer["compile"]
        BY <1>0, <4>1 DEF VerificationBegins, Writers
      <4>2. ASSUME NEW w \in Writers, WriteFile(w)
            PROVE  writer'["compile"].pub = writer["compile"].pub
        BY <1>0, <4>2 DEF WriteFile, Writers, Write
      <4>3. NoWrite.pub = None /\ "compile" \in Writers
        BY DEF NoWrite, WriteTo, Writers
      <4> QED
        BY <1>0, <2>2, <4>1, <4>2, <4>3, WritersChange
    <3>6. writer["compile"].pub = pub[job.comp] /\ job.pc # "free"
      BY <1>0, <3>1, <3>4, <3>5 DEF WritersInOrder
    <3>7. pub'[job.comp] = pub[job.comp]
      BY <1>0, <1>1, <3>6 DEF InFlightKnown, KnownKept
    <3> QED
      BY <3>4, <3>5, <3>6, <3>7
  <2> QED
    BY <2>1, <2>2
<1> QED
  BY <1>4, <1>5 DEF WritersInOrder

LEMMA StepKeepsReportsWhole ==
  ASSUME FilesInv, [Next]_vars
  PROVE  ReportsWhole'
<1>0. /\ TypeInv /\ InFlightKnown /\ WritersInOrder /\ ReportsWhole
      /\ calls \in [Calls -> Call] /\ writer \in [Writers -> Write]
      /\ FileCount \in Nat \ {0}
      /\ job \in Job /\ (job.pc # "free" => job.comp \in Compilations)
      /\ \A i \in Calls : calls[i].pc # "free" => calls[i].comp \in Compilations
  BY CompilationAssumption DEF FilesInv, TypeInv, Typed, DiskTyped, JobTyped, CallsTyped
<1>1. \A c \in Compilations : Known(c) /\ Whole(pub[c]) =>
        pub'[c] = pub[c] /\ \A f \in Files : files'[pub[c]][f] # "absent"
  BY WholeStays
<1>2. job.pc \in {"report", "awaitComplete"} =>
        pub'[job.comp] = pub[job.comp] /\ \A f \in Files : files'[pub[job.comp]][f] # "absent"
  BY <1>0, <1>1 DEF InFlightKnown, ReportsWhole
<1>3. job'.pc \in {"report", "awaitComplete"} => \A f \in Files : files'[pub'[job'.comp]][f] # "absent"
  <2> SUFFICES ASSUME job'.pc \in {"report", "awaitComplete"}
               PROVE  \A f \in Files : files'[pub'[job'.comp]][f] # "absent"
    OBVIOUS
  <2>1. CASE job'.comp = job.comp /\ job.pc \in {"report", "awaitComplete"}
    BY <1>2, <2>1 DEF Whole
  <2>2. CASE WritingEnds("compile")
    <3>1. writer["compile"].pub # None /\ writer["compile"].next = FileCount + 1
      BY <2>2 DEF WritingEnds, AllWritten
    <3>2. writer["compile"].pub = pub[job.comp] /\ job.pc = "write" /\ "compile" \in Writers
      BY <1>0, <3>1 DEF WritersInOrder, TypeInv, OneThingAtATime, Writers
    <3>3. Whole(pub[job.comp])
      BY <1>0, <3>1, <3>2 DEF WritersInOrder, Whole, Files
    <3>4. job'.comp = job.comp /\ job.comp \in Compilations /\ Known(job.comp)
      BY <1>0, <2>2, <3>2 DEF WritingEnds, Job, InFlightKnown
    <3> QED
      BY <1>1, <3>3, <3>4 DEF Whole
  <2>3. TakeJob \/ WriteFails("compile") => job'.pc \notin {"report", "awaitComplete"}
    BY <1>0 DEF TakeJob, WriteFails, Job
  <2>4. (\E i \in Calls : SendReport(i)) => job'.comp = job.comp /\ job.pc \in {"report", "awaitComplete"}
    BY <1>0 DEF SendReport, Job
  <2>5. job' = AfterError => job'.comp = job.comp /\ job.pc \in {"report", "awaitComplete"}
    BY <1>0 DEF AfterError, NoJob, Job
  <2>6. job' # NoJob
    BY DEF NoJob
  <2> QED
    BY <2>1, <2>2, <2>3, <2>4, <2>5, <2>6, JobChanges
<1>4. \A i \in Calls : calls'[i].pc # "free" /\ calls'[i].kind = "complete" =>
        \A f \in Files : files'[pub'[calls'[i].comp]][f] # "absent"
  <2>1. ASSUME NEW i \in Calls, calls'[i].pc # "free", calls'[i].kind = "complete",
               calls[i].pc # "free", calls'[i].comp = calls[i].comp, calls'[i].kind = calls[i].kind
        PROVE  \A f \in Files : files'[pub'[calls'[i].comp]][f] # "absent"
    <3>1. calls[i].comp \in Compilations /\ Known(calls[i].comp) /\ Whole(pub[calls[i].comp])
      BY <1>0, <2>1 DEF InFlightKnown, ReportsWhole
    <3> QED
      BY <1>1, <2>1, <3>1 DEF Whole
  <2>2. ASSUME NEW j \in Calls, SendReport(j), NEW i \in Calls, calls'[i].pc # "free",
               calls'[i].kind = "complete"
        PROVE  \A f \in Files : files'[pub'[calls'[i].comp]][f] # "absent"
    <3>1. i # j => calls'[i] = calls[i]
      BY <1>0, <2>2 DEF SendReport
    <3>2. i = j => job.pc = "report" /\ calls'[i].comp = job.comp
      BY <1>0, <2>2 DEF SendReport
    <3> QED
      BY <1>2, <2>1, <2>2, <3>1, <3>2 DEF Whole
  <2> QED
    BY <1>0, <2>1, <2>2, CallsChange DEF CallsGoOn
<1> QED
  BY <1>3, <1>4 DEF ReportsWhole, Whole

LEMMA StepKeepsAnnounced ==
  ASSUME FilesInv, [Next]_vars
  PROVE  AnnouncedFilesExist'
<1> SUFFICES ASSUME NEW c \in Compilations, result'[c] = "succeeded"
             PROVE  \A f \in Files : files'[pub'[c]][f] # "absent"
  BY DEF AnnouncedFilesExist
<1>0. result \in [Compilations -> Terminal \cup {"unused", "queued"}]
  BY DEF FilesInv, TypeInv, Typed, TableTyped
<1>1. CASE result[c] = "succeeded"
  <2>1. Known(c) /\ Whole(pub[c])
    BY <1>1 DEF FilesInv, AnnouncedFilesExist, Known, Whole
  <2> QED
    BY <2>1, WholeStays
<1>2. CASE result[c] # "succeeded"
  <2>1. (\E k \in Clients : InsertCompilation(k)) \/ UNCHANGED table => result'[c] # "succeeded"
    BY <1>0, <1>2 DEF InsertCompilation, table
  <2>2. PICK i \in Calls : HandleCommit(i)
    BY <2>1, RowsChange
  <2>3. calls[i].comp = c /\ calls[i].kind = "complete" /\ calls[i].pc # "free"
    BY <1>0, <1>2, <2>2 DEF HandleCommit
  <2>4. Known(c) /\ Whole(pub[c])
    BY <2>3 DEF FilesInv, InFlightKnown, ReportsWhole
  <2> QED
    BY <2>4, WholeStays
<1> QED
  BY <1>1, <1>2

LEMMA FilesInductive == Spec => []FilesInv
<1>1. Init => InFlightKnown
  BY DEF Init, InFlightKnown, Known, IdleReq, NoJob, NoCall
<1>2. Init => WritersInOrder /\ ReportsWhole /\ AnnouncedFilesExist
  BY DEF Init, WritersInOrder, ReportsWhole, AnnouncedFilesExist, NoWrite, WriteTo, NoJob,
     NoCall, Writers
<1>3. FilesInv /\ [Next]_vars =>
        InFlightKnown' /\ WritersInOrder' /\ ReportsWhole' /\ AnnouncedFilesExist'
  BY StepKeepsInFlight, StepKeepsWritersInOrder, StepKeepsReportsWhole, StepKeepsAnnounced
<1>4. FilesInv <=> TypeInv /\ InFlightKnown /\ WritersInOrder /\ ReportsWhole /\ AnnouncedFilesExist
  BY DEF FilesInv
<1> QED
  BY <1>1, <1>2, <1>3, <1>4, TypeInductive, PTL DEF Spec

(* A compilation that succeeded was written: whichever execution of its    *)
(* job reported, however often jobs are given out again and calls are      *)
(* lost, every file of its publication has been materialized by then.      *)
THEOREM AnnouncedWasWritten == Spec => []AnnouncedFilesExist
  BY FilesInductive, PTL DEF FilesInv

-----------------------------------------------------------------------------
(***************************************************************************)
(* What is served.  A Worker of one build that neither dies nor fails to   *)
(* write leaves no file torn but the ones it is writing, and writes the    *)
(* same content every time; every other fault may still be met.            *)
(***************************************************************************)
SoundWorker ==
  /\ {"disk", "crash", "upgrade"} \cap Faults = {}
  /\ \A b, d \in Builds : b = d

OpenAt(p, f) == \E w \in Writers : writer[w] = [pub |-> p, next |-> f, open |-> TRUE]

TornIsOpen ==
  \A p \in Publications, f \in Files : files[p][f] = "torn" => OpenAt(p, f)

\* A sound Worker only leaves a publication when all of it is written.
LEMMA SoundWritersChange ==
  ASSUME SoundWorker, [Next]_vars
  PROVE  \/ TakeJob
         \/ \E c \in Compilations : VerificationBegins(c)
         \/ \E w \in Writers : WriteFile(w)
         \/ \E w \in Writers : WritingEnds(w)
         \/ files' = files /\ writer' = writer
<1>1. ASSUME NEW kind \in {"disk", "crash", "upgrade"}
      PROVE  ~Fault(kind)
  BY <1>1 DEF SoundWorker, Fault
<1>2. ASSUME NEW w \in Writers, WriteFails(w)
      PROVE  FALSE
  BY <1>1, <1>2 DEF WriteFails
<1>3. ASSUME NEW b \in Builds, WorkerRestarts(b)
      PROVE  FALSE
  BY <1>1, <1>3 DEF WorkerRestarts
<1>4. ASSUME \/ JobStalls \/ ControlPlaneRestarts \/ ReportLost \/ UNCHANGED vars
             \/ \E k \in Clients : RequestStep(k)
             \/ \E k \in Clients, p \in Publications : CountCompilations(k, p)
             \/ \E i \in Calls : SendReport(i) \/ AnswerLost(i) \/ HandleStep(i)
      PROVE  files' = files /\ writer' = writer
  BY <1>4 DEF JobStalls, ControlPlaneRestarts, ReportLost, RequestStep, InsertCompilation,
     EnqueueCompilation, CountCompilations, SendReport, AnswerLost, HandleStep, HandleRead,
     HandleCommit, CommitConflicts, vars, disk
<1> QED
  BY <1>2, <1>3, <1>4 DEF Next, WriteStep, ReportStep

LEMMA StepKeepsTorn ==
  ASSUME SoundWorker, TypeInv, TornIsOpen, [Next]_vars
  PROVE  TornIsOpen'
<1>0. /\ writer \in [Writers -> Write] /\ files \in [Publications -> [Files -> Contents]]
      /\ build \in Builds /\ build # "torn" /\ FileCount \in Nat
  BY CompilationAssumption DEF TypeInv, Typed, DiskTyped
<1> SUFFICES ASSUME NEW p \in Publications, NEW f \in Files, files'[p][f] = "torn"
             PROVE  \E w \in Writers : writer'[w] = [pub |-> p, next |-> f, open |-> TRUE]
  BY DEF TornIsOpen, OpenAt
<1> DEFINE here == [pub |-> p, next |-> f, open |-> TRUE]
<1>1. p # None /\ f \in Nat /\ f <= FileCount
  BY <1>0, CompilationAssumption DEF Files
<1>2. files[p][f] = "torn" => \E w \in Writers : writer[w] = here
  BY DEF TornIsOpen, OpenAt
<1>3. ASSUME NEW v \in Writers, NEW to, writer' = [writer EXCEPT ![v] = to], files' = files,
             writer[v] # here
      PROVE  \E w \in Writers : writer'[w] = here
  BY <1>0, <1>2, <1>3
<1>4. CASE TakeJob
  <2>1. writer["compile"].pub = None
    BY <1>0, <1>4 DEF TakeJob, TypeInv, OneThingAtATime
  <2>2. writer["compile"] # here /\ "compile" \in Writers
    BY <1>1, <2>1 DEF Writers
  <2> QED
    BY <1>3, <1>4, <2>2 DEF TakeJob
<1>5. ASSUME NEW c \in Compilations, VerificationBegins(c)
      PROVE  \E w \in Writers : writer'[w] = here
  <2>1. writer["verify"] # here /\ "verify" \in Writers
    BY <1>1, <1>5 DEF VerificationBegins, NoWrite, WriteTo, Writers
  <2> QED
    BY <1>3, <1>5, <2>1 DEF VerificationBegins
<1>6. ASSUME NEW v \in Writers, WriteFile(v)
      PROVE  \E w \in Writers : writer'[w] = here
  <2>1. writer[v] \in Write /\ writer[v].pub # None
    BY <1>0, <1>6 DEF WriteFile
  <2>2. CASE writer[v].open
    <3>1. /\ files' = [files EXCEPT ![writer[v].pub][writer[v].next] = build]
          /\ \A w \in Writers : w # v => writer'[w] = writer[w]
      BY <1>0, <1>6, <2>2 DEF WriteFile
    <3>2. files[p][f] = "torn" /\ ~(writer[v].pub = p /\ writer[v].next = f)
      BY <1>0, <3>1
    <3>3. writer[v] # here
      BY <3>2
    <3> QED
      BY <1>2, <3>1, <3>2, <3>3
  <2>3. CASE ~writer[v].open
    <3>1. /\ files' = [files EXCEPT ![writer[v].pub][writer[v].next] = "torn"]
          /\ writer' = [writer EXCEPT ![v].open = TRUE]
      BY <1>6, <2>3 DEF WriteFile
    <3>2. CASE writer[v].pub = p /\ writer[v].next = f
      <4>1. writer'[v] = here
        BY <1>0, <2>1, <3>1, <3>2 DEF Write
      <4> QED
        BY <4>1
    <3>3. CASE ~(writer[v].pub = p /\ writer[v].next = f)
      <4>1. files[p][f] = "torn" /\ writer[v] # here
        BY <1>0, <3>1, <3>3
      <4> QED
        BY <1>0, <1>2, <3>1, <4>1
    <3> QED
      BY <3>2, <3>3
  <2> QED
    BY <2>2, <2>3
<1>7. ASSUME NEW v \in Writers, WritingEnds(v)
      PROVE  \E w \in Writers : writer'[w] = here
  <2>1. writer[v].next = FileCount + 1 /\ FileCount + 1 # f
    BY <1>0, <1>1, <1>7 DEF WritingEnds, AllWritten
  <2>2. writer[v] # here
    BY <2>1
  <2> QED
    BY <1>3, <1>7, <2>2 DEF WritingEnds
<1>8. CASE files' = files /\ writer' = writer
  BY <1>2, <1>8
<1> QED
  BY <1>4, <1>5, <1>6, <1>7, <1>8, SoundWritersChange

\* What is on disk, whole and of nobody's writing, is what the one build renders.
LEMMA WholeIsTheRecord ==
  ASSUME SoundWorker, FilesInv, EvidenceIffSucceeded, TornIsOpen
  PROVE  RegisteredIsOnDisk
<1> SUFFICES ASSUME NEW c \in Compilations, result[c] = "succeeded",
                    \A w \in Writers : writer[w].pub # pub[c],
                    NEW f \in Files
             PROVE  files[pub[c]][f] = artifacts[c]
  BY DEF RegisteredIsOnDisk
<1>1. pub[c] \in Publications /\ files[pub[c]][f] # "absent"
  BY DEF FilesInv, InFlightKnown, Known, AnnouncedFilesExist
<1>2. files[pub[c]][f] # "torn"
  <2>1. ASSUME OpenAt(pub[c], f)
        PROVE  FALSE
    <3>1. PICK w \in Writers : writer[w] = [pub |-> pub[c], next |-> f, open |-> TRUE]
      BY <2>1 DEF OpenAt
    <3> QED
      BY <3>1
  <2> QED
    BY <1>1, <2>1 DEF TornIsOpen
<1>3. files[pub[c]][f] \in Builds
  BY <1>1, <1>2 DEF FilesInv, TypeInv, Typed, DiskTyped, Contents
<1>4. artifacts[c] \in Builds
  BY DEF EvidenceIffSucceeded, FilesInv, TypeInv, Typed, TableTyped
<1> QED
  BY <1>3, <1>4 DEF SoundWorker

(* With a sound Worker of one build, the artifacts of a succeeded          *)
(* compilation can be served whenever nothing is writing its publication,  *)
(* whatever compilations and verifications wrote it again: a verification  *)
(* run of the same publication, a job given out again, a report that is    *)
(* lost or in conflict never leave other contents than were recorded.      *)
THEOREM SoundWorkerServesTheRecord ==
  ASSUME SoundWorker
  PROVE  Spec => []RegisteredIsOnDisk
<1>1. Init => TornIsOpen
  BY DEF Init, TornIsOpen
<1>2. TypeInv /\ TornIsOpen /\ [Next]_vars => TornIsOpen'
  BY StepKeepsTorn
<1>3. FilesInv /\ EvidenceIffSucceeded /\ TornIsOpen => RegisteredIsOnDisk
  BY WholeIsTheRecord
<1> QED
  BY <1>1, <1>2, <1>3, TypeInductive, FilesInductive, OutcomeInductive, PTL DEF Spec, OutcomeInv
=============================================================================
