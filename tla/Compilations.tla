---------------------------- MODULE Compilations ----------------------------
(***************************************************************************)
(* Compilation of a Published Revision: the append-only Compilation table  *)
(* and its terminal evidence (apps/control-plane/src/lifecycle.service.ts),*)
(* the compile queue, and the Worker that writes the generated application *)
(* and reports it (apps/compiler-worker/src/queued-compilation.ts).        *)
(*                                                                         *)
(* What a Worker build renders for a publication is a function of the      *)
(* build alone, so a file's content, its digest and a whole bundle's       *)
(* evidence are named by the build.  The generated directory is named      *)
(* after the publication: its compilations and the verification runs of    *)
(* them, which compile once more, all write the same files.                *)
(***************************************************************************)
EXTENDS Naturals, Sequences, FiniteSets

CONSTANTS
  Compilations,  \* compilation identities (cuid)
  Publications,  \* Published Revisions
  Builds,        \* builds of the Worker
  Clients,       \* concurrent POST /compilations requests
  Calls,         \* Worker calls the Control Plane can be handling at once
  None,
  FileCount,     \* files of a generated application
  Faults,        \* the kinds of fault a behaviour may meet
  MaxFaults      \* bound: how many of them

FaultKinds == {"queue", "net", "disk", "conflict", "crash", "upgrade", "restart",
               "stall", "docker"}

ASSUME CompilationAssumption ==
  /\ None \notin Compilations \cup Publications \cup Builds
  /\ {"absent", "torn"} \cap Builds = {}
  /\ IsFiniteSet(Compilations)
  /\ FileCount \in Nat \ {0}
  /\ Faults \subseteq FaultKinds
  /\ MaxFaults \in Nat

VARIABLES
  result,     \* result column: "unused" before the insert
  pub,        \* publishedRevisionId column
  sequence,   \* sequence column: unique with publishedRevisionId
  artifacts,  \* the build whose evidence the Artifact rows hold, or None
  req,        \* requests to create a compilation
  calls,      \* Worker calls being handled, each in a transaction
  queue,      \* the Redis list of the compile queue
  stalled,    \* compilations whose job was already restarted once
  job,        \* the job of the compile Worker, one at a time
  writer,     \* what the compile job and a verification run are writing
  files,      \* the generated directory of each publication
  build,      \* the build the Worker runs
  faults      \* faults met so far (bound only)

table == <<result, pub, sequence, artifacts>>
disk  == <<writer, files, build>>
vars  == <<table, req, calls, queue, stalled, job, disk, faults>>

Terminal == {"succeeded", "failed"}
Files    == 1 .. FileCount
Writers  == {"compile", "verify"}
Contents == Builds \cup {"absent", "torn"}

IdleReq == [pc |-> "idle", pub |-> None, seq |-> 0, comp |-> None]
NoCall  == [pc |-> "free", kind |-> "fail", comp |-> None, build |-> None,
            tries |-> 0, waiting |-> FALSE]
NoJob   == [pc |-> "free", comp |-> None, tries |-> 0]
WriteTo(p) == [pub |-> p, next |-> 1, open |-> FALSE]
NoWrite == WriteTo(None)

Rows(p) == {c \in Compilations : result[c] # "unused" /\ pub[c] = p}

Fault(kind) ==
  /\ kind \in Faults
  /\ faults < MaxFaults
  /\ faults' = faults + 1

(***************************************************************************)
(* createCompilation: count the publication's compilations for the next    *)
(* sequence number, insert the queued row, enqueue its job.  Nothing       *)
(* compensates for an enqueue that raises.                                 *)
(***************************************************************************)
CountCompilations(k, p) ==
  /\ req[k].pc = "idle"
  /\ req' = [req EXCEPT ![k] = [IdleReq EXCEPT !.pc = "insert", !.pub = p,
                                  !.seq = Cardinality(Rows(p)) + 1]]
  /\ UNCHANGED <<table, calls, queue, stalled, job, disk, faults>>

\* Mutant of SequenceFree: the table without @@unique([publishedRevisionId, sequence]).
SequenceAny(p, n) == TRUE

SequenceFree(p, n) == \A c \in Rows(p) : sequence[c] # n

InsertCompilation(k) ==
  /\ req[k].pc = "insert"
  /\ LET p == req[k].pub
         n == req[k].seq
     IN IF SequenceFree(p, n)
        THEN \E c \in Compilations :
               /\ result[c] = "unused"
               /\ result' = [result EXCEPT ![c] = "queued"]
               /\ pub' = [pub EXCEPT ![c] = p]
               /\ sequence' = [sequence EXCEPT ![c] = n]
               /\ req' = [req EXCEPT ![k].pc = "enqueue", ![k].comp = c]
        ELSE req' = [req EXCEPT ![k] = IdleReq] /\ UNCHANGED <<result, pub, sequence>>
  /\ UNCHANGED <<artifacts, calls, queue, stalled, job, disk, faults>>

EnqueueCompilation(k) ==
  /\ req[k].pc = "enqueue"
  /\ \/ queue' = Append(queue, req[k].comp) /\ UNCHANGED faults
     \/ Fault("queue") /\ UNCHANGED queue
  /\ req' = [req EXCEPT ![k] = IdleReq]
  /\ UNCHANGED <<table, calls, stalled, job, disk>>

(***************************************************************************)
(* The Worker: materializeGeneratedBundle writes the files of the bundle   *)
(* in order, each truncated before it is written, over whatever is there.  *)
(***************************************************************************)
TakeJob ==
  /\ job.pc = "free"
  /\ queue # <<>>
  /\ LET c == Head(queue)
     IN /\ job' = [pc |-> "write", comp |-> c, tries |-> 0]
        /\ writer' = [writer EXCEPT !["compile"] = WriteTo(pub[c])]
  /\ queue' = Tail(queue)
  /\ UNCHANGED <<table, req, calls, stalled, files, build, faults>>

\* A verification run of a succeeded compilation compiles its publication again.
VerificationBegins(c) ==
  /\ result[c] = "succeeded"
  /\ writer["verify"] = NoWrite
  /\ writer' = [writer EXCEPT !["verify"] = WriteTo(pub[c])]
  /\ UNCHANGED <<table, req, calls, queue, stalled, job, files, build, faults>>

WriteFile(w) ==
  LET p == writer[w].pub
      f == writer[w].next
  IN /\ p # None
     /\ f <= FileCount
     /\ IF writer[w].open
        THEN /\ files' = [files EXCEPT ![p][f] = build]
             /\ writer' = [writer EXCEPT ![w].next = f + 1, ![w].open = FALSE]
        ELSE /\ files' = [files EXCEPT ![p][f] = "torn"]
             /\ writer' = [writer EXCEPT ![w].open = TRUE]
     /\ UNCHANGED <<table, req, calls, queue, stalled, job, build, faults>>

\* Rendering or a write fails; what was written stays.
WriteFails(w) ==
  /\ writer[w].pub # None
  /\ writer[w].next <= FileCount
  /\ Fault("disk")
  /\ writer' = [writer EXCEPT ![w] = NoWrite]
  /\ job' = IF w = "compile" THEN [job EXCEPT !.pc = "failing"] ELSE job
  /\ UNCHANGED <<table, req, calls, queue, stalled, files, build>>

\* Mutant of AllWritten: the evidence is sent before the last file is written.
AllButOneWritten(w) == writer[w].pub # None /\ writer[w].next >= FileCount

AllWritten(w) == writer[w].pub # None /\ writer[w].next = FileCount + 1

WritingEnds(w) ==
  /\ AllWritten(w)
  /\ writer' = [writer EXCEPT ![w] = NoWrite]
  /\ job' = IF w = "compile" THEN [job EXCEPT !.pc = "report"] ELSE job
  /\ UNCHANGED <<table, req, calls, queue, stalled, files, build, faults>>

(***************************************************************************)
(* Reporting.  Completion is sent up to three times with the same          *)
(* evidence, failure once.  A call can be lost on its way, or its answer   *)
(* can: then the Control Plane goes on handling a call nobody waits for.   *)
(***************************************************************************)
ReportAttempts == 3

\* Mutant of AfterError: completion is reported once.
AfterOneError == NoJob

\* The job once its call has raised.
AfterError ==
  IF job.pc \in {"report", "awaitComplete"} /\ job.tries + 1 < ReportAttempts
  THEN [job EXCEPT !.pc = "report", !.tries = @ + 1]
  ELSE NoJob

SendReport(i) ==
  /\ job.pc \in {"report", "failing"}
  /\ calls[i].pc = "free"
  /\ LET completes == job.pc = "report"
     IN /\ calls' = [calls EXCEPT ![i] =
                       [pc |-> "read", kind |-> IF completes THEN "complete" ELSE "fail",
                        comp |-> job.comp, build |-> build, tries |-> 0, waiting |-> TRUE]]
        /\ job' = [job EXCEPT !.pc = IF completes THEN "awaitComplete" ELSE "awaitFail"]
  /\ UNCHANGED <<table, req, queue, stalled, disk, faults>>

ReportLost ==
  /\ job.pc \in {"report", "failing"}
  /\ Fault("net")
  /\ job' = AfterError
  /\ UNCHANGED <<table, req, calls, queue, stalled, disk>>

AnswerLost(i) ==
  /\ calls[i].waiting
  /\ Fault("net")
  /\ calls' = [calls EXCEPT ![i].waiting = FALSE]
  /\ job' = AfterError
  /\ UNCHANGED <<table, req, queue, stalled, disk>>

\* A call is answered, and the job goes on if it still waits for it.
Answer(i, ok) ==
  /\ calls' = [calls EXCEPT ![i] = NoCall]
  /\ job' = IF ~calls[i].waiting THEN job ELSE IF ok THEN NoJob ELSE AfterError

(***************************************************************************)
(* completeCompilation and failCompilation: one serializable transaction,  *)
(* split between what its snapshot reads and its commit.  A row another    *)
(* transaction changed in between, and any other serialization failure, is *)
(* a P2034: the transaction runs again, three times at most.               *)
(***************************************************************************)
\* The evidence is what the row already says: a repeated report.
Recorded(q) ==
  IF q.kind = "complete" THEN result[q.comp] = "succeeded" /\ artifacts[q.comp] = q.build
  ELSE result[q.comp] = "failed" /\ artifacts[q.comp] = None

HandleRead(i) ==
  /\ calls[i].pc = "read"
  /\ CASE Recorded(calls[i])                  -> Answer(i, TRUE)
       [] ~Recorded(calls[i]) /\ result[calls[i].comp] # "queued" -> Answer(i, FALSE)
       [] OTHER -> calls' = [calls EXCEPT ![i].pc = "commit"] /\ UNCHANGED job
  /\ UNCHANGED <<table, req, queue, stalled, disk, faults>>

TransactionAttempts == 3

\* Mutant of RunAgain: the attempts of a transaction are not counted right.
RunAgainOnceMore(i) ==
  IF calls[i].tries < TransactionAttempts
  THEN calls' = [calls EXCEPT ![i].pc = "read", ![i].tries = @ + 1] /\ UNCHANGED job
  ELSE Answer(i, FALSE)

RunAgain(i) ==
  IF calls[i].tries + 1 < TransactionAttempts
  THEN calls' = [calls EXCEPT ![i].pc = "read", ![i].tries = @ + 1] /\ UNCHANGED job
  ELSE Answer(i, FALSE)

\* Mutant of Unchanged: the update is not conditional on the row read.
AlwaysUnchanged(c) == TRUE

Unchanged(c) == result[c] = "queued"

\* The conditional update of the row and the Artifact rows, or nothing.
HandleCommit(i) ==
  /\ calls[i].pc = "commit"
  /\ LET q == calls[i]
         c == q.comp
     IN IF Unchanged(c)
        THEN /\ result' = [result EXCEPT ![c] =
                             IF q.kind = "complete" THEN "succeeded" ELSE "failed"]
             /\ artifacts' = [artifacts EXCEPT ![c] =
                                IF q.kind = "complete" THEN q.build ELSE @]
             /\ Answer(i, TRUE)
        ELSE RunAgain(i) /\ UNCHANGED <<result, artifacts>>
  /\ UNCHANGED <<pub, sequence, req, queue, stalled, disk, faults>>

CommitConflicts(i) ==
  /\ calls[i].pc = "commit"
  /\ Fault("conflict")
  /\ RunAgain(i)
  /\ UNCHANGED <<table, req, queue, stalled, disk>>

(***************************************************************************)
(* Restarts.  A Worker that dies leaves its job to stall, and the queue    *)
(* gives a stalled job out again, once.  It may come back as another       *)
(* build.  A Control Plane that dies leaves its transactions undone.       *)
(***************************************************************************)
\* A restart that interrupts nothing and changes no build is no event.
Interrupts == job.pc # "free" \/ writer["verify"] # NoWrite

WorkerRestarts(b) ==
  /\ IF b = build THEN Interrupts /\ Fault("crash") ELSE Fault("upgrade")
  /\ build' = b
  /\ IF job.pc # "free" /\ job.comp \notin stalled
     THEN queue' = <<job.comp>> \o queue /\ stalled' = stalled \cup {job.comp}
     ELSE UNCHANGED <<queue, stalled>>
  /\ job' = NoJob
  /\ writer' = [w \in Writers |-> NoWrite]
  /\ calls' = [i \in Calls |-> [calls[i] EXCEPT !.waiting = FALSE]]
  /\ UNCHANGED <<table, req, files>>

\* The lock of a job expires while another job keeps the Worker's only thread
\* busy: the queue gives it out again although it is still being executed.
JobStalls ==
  /\ job.pc # "free"
  /\ job.comp \notin stalled
  /\ Fault("stall")
  /\ queue' = <<job.comp>> \o queue
  /\ stalled' = stalled \cup {job.comp}
  /\ UNCHANGED <<table, req, calls, job, disk>>

ControlPlaneRestarts ==
  /\ \/ \E k \in Clients : req[k].pc # "idle"
     \/ \E i \in Calls : calls[i].pc # "free"
  /\ Fault("restart")
  /\ req' = [k \in Clients |-> IdleReq]
  /\ calls' = [i \in Calls |-> NoCall]
  /\ job' = IF \E i \in Calls : calls[i].waiting THEN AfterError ELSE job
  /\ UNCHANGED <<table, queue, stalled, disk>>

-----------------------------------------------------------------------------
Init ==
  /\ result = [c \in Compilations |-> "unused"]
  /\ pub = [c \in Compilations |-> None]
  /\ sequence = [c \in Compilations |-> 0]
  /\ artifacts = [c \in Compilations |-> None]
  /\ req = [k \in Clients |-> IdleReq]
  /\ calls = [i \in Calls |-> NoCall]
  /\ queue = <<>> /\ stalled = {}
  /\ job = NoJob
  /\ writer = [w \in Writers |-> NoWrite]
  /\ files = [p \in Publications |-> [f \in Files |-> "absent"]]
  /\ build \in Builds
  /\ faults = 0

RequestStep(k) == InsertCompilation(k) \/ EnqueueCompilation(k)
WriteStep(w)   == WriteFile(w) \/ WriteFails(w) \/ WritingEnds(w)
ReportStep     == (\E i \in Calls : SendReport(i)) \/ ReportLost
HandleStep(i)  == HandleRead(i) \/ HandleCommit(i) \/ CommitConflicts(i)

Next ==
  \/ \E k \in Clients, p \in Publications : CountCompilations(k, p)
  \/ \E k \in Clients : RequestStep(k)
  \/ TakeJob
  \/ \E c \in Compilations : VerificationBegins(c)
  \/ \E w \in Writers : WriteStep(w)
  \/ ReportStep
  \/ \E i \in Calls : AnswerLost(i) \/ HandleStep(i)
  \/ \E b \in Builds : WorkerRestarts(b)
  \/ JobStalls
  \/ ControlPlaneRestarts

Spec == Init /\ [][Next]_vars

(***************************************************************************)
(* Fairness: what has begun goes on.  The queue hands its jobs to a free   *)
(* Worker, the Worker's event loop runs, calls are handled.  Nobody is     *)
(* assumed to ask for a compilation or a verification.                     *)
(***************************************************************************)
Fairness ==
  /\ \A k \in Clients : WF_vars(RequestStep(k))
  /\ WF_vars(TakeJob)
  /\ \A w \in Writers : WF_vars(WriteStep(w))
  /\ WF_vars(ReportStep)
  /\ \A i \in Calls : WF_vars(HandleStep(i))

FairSpec == Spec /\ Fairness

TypeOK ==
  /\ result \in [Compilations -> Terminal \cup {"unused", "queued"}]
  /\ pub \in [Compilations -> Publications \cup {None}]
  /\ sequence \in [Compilations -> Nat]
  /\ artifacts \in [Compilations -> Builds \cup {None}]
  /\ req \in [Clients -> [pc : {"idle", "insert", "enqueue"}, pub : Publications \cup {None},
                          seq : Nat, comp : Compilations \cup {None}]]
  /\ calls \in [Calls -> [pc : {"free", "read", "commit"}, kind : {"complete", "fail"},
                          comp : Compilations \cup {None}, build : Builds \cup {None},
                          tries : 0 .. TransactionAttempts - 1, waiting : BOOLEAN]]
  /\ queue \in Seq(Compilations)
  /\ stalled \subseteq Compilations
  /\ job \in [pc : {"free", "write", "report", "failing", "awaitComplete", "awaitFail"},
              comp : Compilations \cup {None}, tries : 0 .. ReportAttempts - 1]
  /\ writer \in [Writers -> [pub : Publications \cup {None}, next : 1 .. FileCount + 1,
                             open : BOOLEAN]]
  /\ files \in [Publications -> [Files -> Contents]]
  /\ build \in Builds
  /\ faults \in Nat
=============================================================================
