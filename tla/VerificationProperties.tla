----------------------- MODULE VerificationProperties -----------------------
(***************************************************************************)
(* What verification is meant to guarantee, over VerificationRuns.         *)
(***************************************************************************)
EXTENDS VerificationRuns, CompilationProperties

(* The containers of a run are only ever built from the files that its     *)
(* compilation recorded, although compile jobs, another build of the       *)
(* Worker and an execution that died write the shared directory meanwhile. *)
EnvironmentRunsTheRecord ==
  \A r \in Runs : running[r] # Nothing =>
    running[r] = [f \in Files |-> artifacts[row[r].comp]]

(* A run whose evidence says that cleanup succeeded has left no container  *)
(* and no copy, wherever its start failed.  (Runs whose job was given out  *)
(* again are excepted: see README.)                                        *)
CleanupIsTrue ==
  \A r \in Runs : row[r].cleaned /\ r \notin runsStalled =>
    running[r] = Nothing /\ copies[r] = Nothing

(* A run whose job is queued or executed does not stay pending: it is      *)
(* concluded, or its job fails where the queue shows it.                   *)
RunIsConcluded ==
  \A r \in Runs :
    row[r].status = "pending" /\ (runJob.run = r \/ r \in Waiting)
      ~> Concluded(r) \/ r \in runsFailed
=============================================================================
