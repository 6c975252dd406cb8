----------------------- MODULE CompilationProperties -----------------------
(***************************************************************************)
(* What compilation is meant to guarantee, over Compilations.              *)
(***************************************************************************)
EXTENDS Compilations

(* A compilation is decided at most once and its evidence is whole: see    *)
(* CompilationOutcome.  A report that comes late, twice, or against        *)
(* another execution's report of the same job, changes nothing, and        *)
(* Artifact rows exist for exactly the succeeded compilations.             *)
Decided ==
  [c \in Compilations |->
     IF artifacts[c] # None THEN [state |-> result[c], build |-> artifacts[c]]
     ELSE [state |-> result[c]]]
Outcome == INSTANCE CompilationOutcome WITH outcome <- Decided
ImplementsOutcome == Outcome!Spec

(* The sequence numbers of a publication's compilations are 1 to n: the    *)
(* racing counts of createCompilation never leave a gap or a duplicate, so *)
(* the next compilation can always be numbered.                            *)
SequencesDense ==
  \A p \in Publications : {sequence[c] : c \in Rows(p)} = 1 .. Cardinality(Rows(p))

(* A compilation that succeeded was written: every file of its publication *)
(* has been materialized by then, whichever execution of the job reported. *)
AnnouncedFilesExist ==
  \A c \in Compilations : result[c] = "succeeded" =>
    \A f \in Files : files[pub[c]][f] # "absent"

(* While nothing is writing a publication's directory, it holds what each  *)
(* of its succeeded compilations registered, so that the artifacts can be  *)
(* served and previewed (their digests are verified on every read).        *)
RegisteredIsOnDisk ==
  \A c \in Compilations :
    result[c] = "succeeded" /\ (\A w \in Writers : writer[w].pub # pub[c]) =>
      \A f \in Files : files[pub[c]][f] = artifacts[c]

(* The files of a compilation that succeeded never come to hold what       *)
(* another build of the Worker renders for the same publication.           *)
HistoricalContentKept ==
  \A c \in Compilations : result[c] = "succeeded" =>
    \A f \in Files : files[pub[c]][f] \in {artifacts[c], "torn"}

(* A compilation whose job is queued or being executed is decided.         *)
JobIsDecided ==
  \A c \in Compilations :
    result[c] = "queued" /\ (job.comp = c \/ \E n \in DOMAIN queue : queue[n] = c)
      ~> result[c] \in Terminal
=============================================================================
