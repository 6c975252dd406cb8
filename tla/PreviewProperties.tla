------------------------- MODULE PreviewProperties -------------------------
(***************************************************************************)
(* What Local Preview is meant to guarantee, over PreviewSystem.           *)
(***************************************************************************)
EXTENDS PreviewSystem

(* The activeKey column is exactly the compilation of a run that is not    *)
(* stopped: no transition of a request, of a compensation or of the        *)
(* Worker's evidence leaves a live run without its key or a dead run with  *)
(* one.  Both halves matter: the first is what makes the unique index a    *)
(* lease, the second is what lets the next preview start.                  *)
KeyMarksLiveRun ==
  \A r \in Runs : activeKey[r] = IF status[r] \in LiveStatus THEN comp[r] ELSE None

(* At most one run of a compilation is anything but stopped, whatever      *)
(* requests raced: the read of the current run in createPreviewRun is      *)
(* stale by the time of its insert, and only the unique index decides.     *)
OneLiveRunPerCompilation ==
  \A c \in Compilations : Cardinality({r \in RowsOf(c) : status[r] # "stopped"}) <= 1

(* Once stopped evidence has been accepted the run has no containers and   *)
(* no start of it can still create any: the accepted evidence was true and *)
(* stays true, however the start and the stop interleaved in the Worker.   *)
StoppedIsQuiet ==
  \A r \in Runs : status[r] = "stopped" =>
    /\ r \notin up
    /\ \A s \in Slots : slot[s].action = "start" /\ slot[s].run = r =>
         slot[s].pc \notin {"enter", "materialize", "ports", "up", "probe"}

(* A run the user may open is served: while ready is shown the containers  *)
(* were started and nothing but a stop of this run has taken them down,    *)
(* although the Worker may die and a job be given out again.  A run whose  *)
(* job was given out while it was still executed is excepted: the second   *)
(* start replaces the copy of a run the first has reported, and can take   *)
(* its containers down.                                                    *)
ReadyIsServed ==
  \A r \in Runs \ overlapped : status[r] = "ready" => r \in up /\ r \in copies

(* A start that timed out keeps its verified copy for as long as the run   *)
(* is failed, so that a later stop can verify it (runner, retainDirectory) *)
(* with the exception of ReadyIsServed.                                    *)
TimeoutKeepsCopy ==
  \A r \in Runs \ overlapped :
    status[r] = "failed" /\ diagnostic[r] = "preview_start_timeout" => r \in copies

(* Containers exist only for a run that holds the lease of its compilation *)
(* so that a stop can always be addressed to them.                         *)
RuntimeHoldsKey == \A r \in up : activeKey[r] # None

(* The system implements one lease per compilation: see PreviewLease.      *)
Lease == INSTANCE PreviewLease WITH
  holder <- [c \in Compilations |->
               IF \E r \in Runs : activeKey[r] = c
               THEN CHOOSE r \in Runs : activeKey[r] = c ELSE None],
  live   <- up,
  ended  <- {r \in Runs : status[r] \in {"stopped", "deleted"}}
ImplementsLease == Lease!Spec

(* With no run live and no create in flight the next sequence number, the  *)
(* count of the rows plus one, is free: the compilation can be previewed.  *)
NextSequenceFree ==
  \A c \in Compilations :
    (\A r \in RowsOf(c) : status[r] = "stopped") =>
      \A r \in RowsOf(c) : sequence[r] # Cardinality(RowsOf(c)) + 1

(* Every stop that was accepted is decided, although the Worker may lose   *)
(* all it knows of starts and stops under way: the run does not stay       *)
(* stopping, unless the queue shows its stop job as failed.                *)
StopIsDecided ==
  \A r \in Runs : status[r] = "stopping" ~>
    \/ status[r] # "stopping"
    \/ [action |-> "stop", run |-> r, again |-> TRUE] \in failedJobs

(* Every stop that was accepted ends with stopped evidence.                *)
StopReleases == \A r \in Runs : status[r] = "stopping" ~> status[r] = "stopped"

(* Every start is decided: ready, failed, or taken over by a stop.         *)
StartIsDecided == \A r \in Runs : status[r] = "starting" ~> status[r] # "starting"

Queued(r, again) ==
  \E i \in DOMAIN queue : queue[i] = [action |-> "stop", run |-> r, again |-> again]

(* A start that timed out can be recovered from: a queued stop of a run    *)
(* that failed by timeout ends with stopped evidence and frees the key,    *)
(* unless the Worker died in the middle of the stop: its second execution  *)
(* cannot verify a copy that the first one removed.  A job given out while *)
(* it is executed is excepted, as in TimeoutKeepsCopy.                     *)
TimedOutStopReleases ==
  \A r \in Runs :
    /\ status[r] = "stopping" /\ diagnostic[r] = "preview_start_timeout"
    /\ Queued(r, FALSE)
    ~> \/ status[r] = "stopped" /\ activeKey[r] = None
       \/ Queued(r, TRUE)
       \/ r \in overlapped
=============================================================================
