# TLA+ specifications of the Archeform lifecycle

Archeform turns a business requirement into a running application: a
requirement becomes a Draft of an Application Graph, a Draft is published as an
immutable Published Revision, a revision is compiled into a generated
application by a Worker, and the generated application is verified in isolation
and previewed locally. A NestJS *Control Plane* owns every record in
PostgreSQL; a *Worker* takes jobs from three BullMQ queues in Redis, writes
files, drives Docker Compose, and reports evidence back over HTTP.

The code that is hard to get right is in the seams: a request that awaits
between a read and a write, a job that was queued but whose request failed, a
stop that meets its own start, evidence that comes twice or too late, a
directory that several jobs write. Those seams are what is specified here.

All paths below are relative to the repository.

## 1. Inventory

| Component | State | Operations | Why it is hard | What makes it correct | Modules |
|---|---|---|---|---|---|
| Local Preview, Control Plane (`lifecycle.service.ts`, `preview-run-queue.ts`) | `PreviewRun` rows with the nullable unique `activeKey` | create, create for local acceptance, stop, dispatch, ready/failed/stopped evidence | each request awaits four to six times; a failed enqueue is compensated by another statement | the key marks exactly the live runs; one live run per compilation; stopped is true | `PreviewControlPlane`, `PreviewLease` |
| Local Preview, Worker (`queued-preview-run.ts`, `preview-runner.ts`) | three in-memory registries, two job slots, copies under `.preview-runs`, Compose projects | start job, stop job, abort, cleanup | a stop meets its start in any of a dozen places; deadlines, cleanup that fails | a stopped run stays down; a timed-out start can still be taken down | `PreviewSystem` |
| Compilation, rows and evidence (`lifecycle.service.ts`) | `Compilation` and `Artifact` rows | create, complete, fail | racing counts, serializable transactions, repeated and contradicting reports | decided at most once, evidence whole, dense sequence numbers | `Compilations`, `CompilationOutcome` |
| Compilation, Worker (`queued-compilation.ts`, `compilation-executor.ts`, `artifact-writer.ts`, `control-plane-reporter.ts`) | the job, the shared generated directory | execute, write file by file, report with retries | lost answers, stalled jobs executed again, upgrade of the Worker | what is announced was written; every job is decided | `Compilations` |
| Verification (`verification.service.ts`, `verifier/*`) | `VerificationRun` rows, an isolated Compose project and its copy per run | create, execute (recompile, boot, probe, clean up, or run journey tests), report, approve a Draft diff | the shared directory is rewritten under it; each step of the start and of the cleanup may fail; evidence is checked and written in two statements | the environment runs what was recorded; evidence of a clean end is true; a run with a job is concluded | `VerificationRuns` (over `Compilations`) |
| Revision ledger (`lifecycle.service.ts`) | applications, Draft and Published Revision rows | create, import, append, propose, publish | every number is computed from a read outside the insert | one append-only history; a publication is of the Draft that was read | `RevisionLedger`, `DraftHistory` |
| Composition review and product composition (`composition/*.service.ts`) | review rows with a base Draft, plans, a decision | require, plan, decide or choose, apply | Draft, review and decision are read at different times | nothing undecided is applied; a product's choice stands and its application is its Draft | `DraftReviews` |
| Template edits (`template.service.ts`) | application rows and their snapshots | instantiate, open, rename, edit | edits append to Drafts that others append to, and repeat the application row's fields | a template's latest Draft always opens | `TemplateDrafts` |
| Generated Restaurant service (`restaurant-runtime.ts` and its data) | tables, sessions, orders, lines, tickets, payments, stock and its ledger, commands | thirteen commands | transactions at READ COMMITTED, keys, versions, stock | stock and payments are accounted for; an order follows the flow of its Graph | `RestaurantService`, `OrderFlow` |
| External intake: store, Candidates, evidence runs (`external-intake/src`) | one quarantine directory, a map per process | create, list, get, terminal transition, evidence run with resume | processes share the directory and may die between any two system calls | what is visible is whole; one proposal per identity, one terminal status, one chain of receipts | `IntakeStore`, `CandidateRegistry`, `CandidateTimeline` |
| Artifact reads, portfolio summary | none | read | - | digests match | not modelled: read-only |
| Verification probes, journeys and plans | that of the generated application | HTTP requests in order | - | - | a probe passes or fails, nothing else is modelled |
| Graph, compiler, capabilities, adapters, recipes | none | pure functions | - | - | not modelled: rendering and validation of data |
| External intake adapters and scans | none | pure functions and subprocesses | - | - | their results are inputs |
| Workbench | browser state | requests | - | - | an unconstrained client of the models |

How they interact: the Workbench calls the Control Plane; the Control Plane
inserts a row and then enqueues a job (two separate effects, either of which
may fail); the Worker takes the job, asks the Control Plane for a dispatch, acts
on files and containers, and calls a report handler, which applies the evidence
only when the row still is in the status it expects. Drafts, reviews and
templates all write the ledger. Compile jobs and verification jobs write one
directory per publication, and verification reads it. A generated Restaurant
runs by itself, and so does external intake.

`PROJECT.json` lists every hazard with its line and the properties that cover
it, the ones no property covers yet included.

## 2. Modules

| Module | What it is |
|---|---|
| `PreviewControlPlane` | the `PreviewRun` table, the requests split at their awaits, the report handlers |
| `PreviewSystem` | extends it with the Worker's jobs, Docker and the disk; `Spec`, fairness, `TypeOK` |
| `PreviewLease` | abstract: one lease per compilation, a runtime only under a lease |
| `Compilations` | the `Compilation` table, the compile job, its writes and its reports |
| `CompilationOutcome` | abstract: asked for once, decided at most once, never changed |
| `VerificationRuns` | extends `Compilations` with verification: `RunsSpec` is the system of both |
| `RevisionLedger` | applications, Drafts, publications; the requests of the lifecycle service |
| `DraftReviews` | extends it with composition and product reviews |
| `TemplateDrafts` | extends that with templates; `Spec` of the whole ledger |
| `DraftHistory` | abstract: two append-only sequences per application |
| `RestaurantService` | the commands of a generated Restaurant as transactions |
| `OrderFlow` | abstract: the order flow that the capability declares |
| `IntakeStore` | files of the quarantine directory, written by processes that may die |
| `CandidateRegistry` | extends it with Candidates and evidence runs |
| `CandidateTimeline` | abstract: a Candidate is created whole, and ends at most once |
| `*Properties` | the properties of a component and its refinement of the abstract module |
| `*Proofs` | theorems about it |
| `PreviewRuntimeProofs` | extends `PreviewProofs` with what is proved of jobs, containers and copies |
| `SumTheorems` | lemmas on sums over finite sets, for the stock of the Restaurant |
| `MC*` | small instances; the `.cfg` files pick sets, faults and bounds |

### Local Preview

*Rows.* `status`, `comp`, `activeKey`, `sequence` and `diagnostic` are the
columns; `"unused"` is a row before its insert and `"deleted"` one after the
compensation of a failed enqueue. `req[k]` is what a request in flight keeps in
local variables between two awaits. A database statement is one step; a unique
constraint is a guard of the insert.

*Requests.* `CreateRead` or `AcceptRead` (findUnique and findFirst),
`CountRuns`, `InsertRun`, `Enqueue`; `StopRead`, `StopTransition` (the
conditional `updateMany`), `Enqueue`. `EnqueueRaises` is the queue's `add`
throwing, before (`"queue"`) or after (`"ack"`) Redis stored the job, and is
followed by `UndoCreate` (delete), `UndoAccept` (to failed) or `UndoStop` (back to
the status read). `ControlPlaneRestart` forgets every request in flight.

*Worker.* A slot is a job under way; `slot[s].pc` names the await it has
reached. `Registered(r)` is the start `queuedPreviewStarts` has for the run,
`Active(r)` that of `activePreviewStarts`; both follow from the slots and `replaced`
(a second start replaced the first in the map), because the code enters
and leaves them with the job. `stopRequested`, `entered`, `aborted`, `preDocker`
are the fields of the objects they hold, one for each execution of a start;
`skipped` is `skippedPreviewStarts`.
`copies` and `up` are the directories and the Compose projects. A start goes
`Take`, `Dispatch`, `StartReplied`, `StartEnter`, `StartMaterialize`,
`StartPorts`, `StartProceeds` (up, then port discovery and probe),
`StartReportsReady`; `StartStageFails`, `StartCancelled` and `StartCleanup` are
every way out. A stop goes `Take`, `Dispatch`, `StopReplied` (it waits for a start
that has not entered the runtime), `StopRoute` (skipped, active or settled),
`StopSettled`, `StopVerify`, `StopDown`, `StopRemove`, `StopReportsStopped`.

*Abstracted.* URLs, digests, Compose text, the numbers of the two
ports and how each is reserved. Jobs are added without `attempts`, so BullMQ does
not retry one that failed.

*Jobs given out again.* BullMQ gives a stalled job out once more, before the jobs
that wait, and fails it the second time (`failedJobs`); the job runs the whole
handler again, with its dispatch. It comes to that in two ways. `WorkerRestart`
empties the slots and the three registries, while directories and containers stay;
the jobs that were under way are `held` until their lock expires (`LockExpires`). And
the preview Worker shares its process with the verification Worker, whose journey
tests run in `spawnSync` (`main.ts:48-77`) and keep it from renewing locks: with the
fault `"block"`, `LockLost` gives a job out while its slot goes on to execute it.
The run is then in `overlapped`. Two executions of a start can so be under way, or
of a stop. The second start replaces the first in `queuedPreviewStarts`; the runtime
takes one active start at a time and refuses another, but one that comes after
removes the directory and copies again (`StartMaterialize`). Docker commands that a
dead Worker left running are an abstraction: they are taken to end with it, so a
container that one of them still brings up is not modelled.

### Compilation

`CountCompilations`, `InsertCompilation`, `EnqueueCompilation` are
`createCompilation`; nothing compensates for its enqueue. `TakeJob`, `WriteFile`
(a file is truncated, then filled), `WriteFails` and `WritingEnds` are the
execution. `VerificationBegins` is the recompilation a verification run does:
it writes the same directory, which is named after the publication.
`SendReport`, `ReportLost`, `AnswerLost` and `AfterError` are the reporter and its
three attempts; a call whose answer was lost goes on being handled while
the next attempt is sent. `HandleRead` and `HandleCommit` are the two ends of the
serializable transaction of `completeCompilation` and `failCompilation`; a row
changed in between, or `CommitConflicts`, is the P2034 that `RunAgain` retries.
`WorkerRestarts` loses the job, which BullMQ gives out again once, and may bring
another build; `ControlPlaneRestarts` undoes what has not committed.

What a build renders for a publication is a function of the build, so a build
names the content of a file, its digest and the whole evidence.

### Verification

`row` is the `VerificationRun` table: status, compilation, and whether the
evidence says that cleanup succeeded. `asked[k]` is a `createRun` between its
insert and its enqueue; `AskForRun`, `InsertRow`, `EnqueueRun`. `runJob` is the
one job of the verification Worker (concurrency 1): `TakeRun` starts the
recompilation of `Compilations` as the writer `"verify"`; `RunWrites`,
`RunCompiled`. A V1 graph then goes through `ReadShared` (every file verified as
it is read), `CopyFiles`, `Boot`, `UndoBoot` (the start cleans up after itself),
`Probe` and `Cleanup`; a V3 graph through `RunJourneyTests` in the shared
directory itself. `SendEvidence`, `EvidenceLost`, `EvidenceAnswerLost` and
`RunErrs` are the reporter and the one failure report that follows any error.
`ReadRow` and `ConcludeRun` are the two statements of `reportEvidence`.
`RestartWorker` and `RestartControlPlane` take both parts of the process down
at once; containers and copies stay.

Invalid jobs and plans fail like a compilation that fails; ports that cannot be
reserved fail like a copy; what a probe asks is left out. A stalled job is given
out again once and fails the next time (BullMQ's default). Each behaviour is of
one workload, chosen in `RunsInit`: compilations alone, or one compilation with
runs of a V1 or a V3 graph. `faults` and `runFaults` share one bound.

### Ledger, reviews and templates

`drafts[a]` and `published[a]` are the rows in the order of their numbers,
`application` the application rows. `request[k]` is what a handler keeps between
two awaits, with the operation it goes on with. Each operation of the source is
its statements: a read of the latest Draft (`ReadLatestToAppend`,
`ReadLatestToPatch`, `FindPublished`, `CountPublished`) and an insert, which the
unique constraint may refuse. `DraftReviews` adds the two services' reviews, which
are rows of one table: the composition service updates a review by its id
(`RequestPlan`, `Decide`, `MarkApplied`), the product service conditionally
(`ChooseProductPlan`) or in a Serializable transaction (`ApplyProduct`). The product
service refuses a review it did not create; the composition service checks only the
application, so it plans, decides and applies a product's review too. A plan is
kept as who made it (`"planner"` or the alternative chosen); a planner that asks
for a clarification leaves none (`clarified`). `TemplateDrafts` adds
instantiation, opening with its expiring snapshot, the rename, which also
changes the application row, and the other edits, which have one shape. Graph
content is abstracted to format, author, base and name.

### Generated Restaurant

A command is a transaction at READ COMMITTED: `Begin...` is everything up to
its first write, with the idempotency row, the checks and what it read; the
action named after the command is its writes and commit; `Rollback` may take
any begun command. Conditional updates (`StillAtVersion`, `TableStillAt`,
`StockCovers`) are evaluated at the commit, because a blocked update is
re-evaluated when the row is free. `Begin` and `Rollback` are the wrapper
`executeCommand` with keys and replays. The orders and the stock rows that a
generated application is seeded with are left out of `Init`, which has one table with
a session and the menu with the stock of each workload.

### External intake

A process runs a list of steps: `OpenFile` and `FillFile` are the two system
calls of an exclusive write, `AcceptFile` the EEXIST branch that compares bytes,
`PassCheck` and `Raise` the rest. `CandidateRegistry` gives the lists: creation
from claim to locator, the terminal transition with its two indices, an
evidence run with its receipts and resume. A receipt is appended only after the
index and the record of the one before it were found. `Die` ends a process anywhere
and starts another over the same directory. A file is absent, torn or has one
of the contents its writer had; loss of data after a completed write and
tampering are left out. So is the lookup of a Candidate by its receipt while there
is no locator yet: it writes nothing.

## 3. What the runs show

| Run | Instance | Shows |
|---|---|---|
| `preview_faults` | 2 runs, 1 compilation, 2 requests, 2 slots, 2 faults of any kind but `ack`, `stall`, `restart` and `block`; 1.33 million states | the lease invariants, `StoppedIsQuiet`, and that the system implements `PreviewLease` |
| `preview_live` | 1 run, 1 request at a time, 2 faults of a start, of an enqueue, restarts of the Worker or expired locks; 209 000 states | `ReadyIsServed` and `TimeoutKeepsCopy`, with jobs that come again after a restart or beside their first execution; every accepted stop is decided or its job shows as failed; the stop of a run that timed out succeeds, or its job was given out again |
| `compilation_faults` | 2 compilations of 1 publication, 2 builds, 1 request, 2 calls at once, 1 verification run, 2 files, 3 faults of any kind; 1.08 million states | `ImplementsOutcome`, `AnnouncedFilesExist`, `EnvironmentRunsTheRecord`, `CleanupIsTrue` |
| `compilation_live` | 1 build, 2 requests, the faults of delivery and Docker, 2 faults; 223 000 states | `SequencesDense`, `RegisteredIsOnDisk`, `JobIsDecided`, `RunIsConcluded` |
| `ledger_races` | 1 application, 2 names, 2 requests of any kind, 1 review, 2 alternatives, Drafts up to `MaxDrafts`; 1.27 million states | `ImplementsHistory`, `AppliedProductIsItsDraft`, `NothingAppliedUndecided`, `ChoiceStands`, `TemplateDraftOpens` |
| `restaurant_service` | 2 orders, 2 sessions, 1 item, 2 clients, 2 keys, five workloads, `MaxTable` 3, `MaxItem` 1; 221 000 states | stock, reservations, payments and tickets, sessions, keys, `ImplementsFlow` |
| `intake_crashes` | 2 processes, 1 identity, 2 proposals that share a blob, 2 executions, 3 phases, two workloads; 219 000 states | `VisibleIsWhole`, `OnlyClaimantsWrite`, `KnownIsDurable`, `RunIsOneChain`, `ImplementsTimeline` |
| `preview_release`, `preview_lostack`, `preview_sequence`, `preview_undecided`, `compilation_upgrade` | the smallest instance that shows it | a sentence of the documentation or of a test that the code does not keep, see section 5 |

*Why the bounds are enough.* Every race of Local Preview is between two requests of one
compilation, or a start and a stop of one run; two runs allow a second preview to be
created while the first is deleted or stopped, and `preview_live` has one, because an
execution touches the copy, the containers and the row of its own run only; two slots
are the Worker's concurrency in `main.ts`. A compensation needs one fault and a cleanup
that fails a second one. In compilation, two compilations share a directory, two calls
are a report and its retry (or two executions), two files tell a half-written bundle
from a whole one, and the retries are at their true limits (three reports, three
transaction attempts). One verification run meets its own second execution and the
compile job; two never execute at once. In the ledger a race is between two requests of
one application, and a third Draft is what an author in between appends; in the
Restaurant between two commands of one order, table or item, with two orders that ask
for the same stock; in intake between two processes, and a third comes with every death.
A job comes at most twice, so two faults let it overlap itself and fail. A real evidence
run has seven phases, of which the first, one in the middle and the last differ. The
refutations need at most one fault. `MaxFaults`, `MaxDrafts`, `MaxTable`, `MaxItem`,
`Phases`, `MayCompile` and the sets of identities are the only bounds; queues and
sequence numbers are bounded by the identities. The workloads of the Restaurant, of
intake and of verification divide the commands into groups that meet; each is a choice
of the initial state.

*Faults left out of a passing run.* `"ack"` in `preview_faults`: an enqueue that raised
although the job was stored breaks `RuntimeHoldsKey` and has its own run. `"stall"`
there: a start becomes visible to a stop only after it has read its Compose file; a stop
that performs its dispatch and its route within that read finds nothing to abort. The
model marks that step so that a run can forbid it; with it `StoppedIsQuiet` fails, and
no document claims otherwise. `"restart"` and `"block"` there: `StoppedIsQuiet` and
`ImplementsLease` survive neither, see section 5; `preview_live` has both with what
does. In `preview_live`, restarts of the Control Plane, lost reports and Docker failing
in a stop are left out: nothing in the code recovers a job that was never queued or a
report that was lost. In `compilation_live` likewise restarts, and faults stay below the
retries.

*Deadlock* is not checked: the system rests when nothing is requested, and a
finite number of identities is eventually used up.

*Symmetry* is used in safety runs only.

*Fairness.* `WF` of every step of a request in flight, of a free slot taking a
job, of every slot and call: Node's event loops run and every Docker operation
has a deadline (`runPreviewOperation`), as has a probe and a journey test; the lock of
a job whose Worker died expires. Nothing
is assumed of people: nobody has to create, stop or verify anything. No strong
fairness is used.

Every property of a passing run has a mutant in `PROJECT.json`: a definition
preceded in its module by a plausible wrong variant, under which the run finds
the property violated. A unique index dropped, a report accepted too late, a
compensation forgotten, a cleanup that removes too much, an off-by-one of a
retry.

## 4. What is proved

For every set of runs, compilations, publications, builds, requests, calls and slots,
of orders, sessions, items, clients, keys and workloads, of processes, identities,
proposals and executions, every set of faults and any number of them, except where a
hypothesis is named; checked by TLAPS to the last leaf.

| Theorem | Statement | Argument |
|---|---|---|
| `PreviewProofs!LeaseInvariant` | `Spec => []LeaseInv` | the inductive invariant |
| `PreviewProofs!TypeCorrect` | `Spec => []TypeOK` | its first conjunct |
| `PreviewProofs!KeyFollowsStatus` | `Spec => []KeyMarksLiveRun` | its middle |
| `PreviewProofs!OneLeasePerCompilation` | `Spec => []OneLiveRunPerCompilation` | keys differ, so at most one row of a compilation holds one |
| `PreviewRuntimeProofs!OneJobInvariant` (a) | `Spec => [](LeaseInv /\ OneJobEach)` | the inductive invariant: where the jobs of a run are |
| `PreviewRuntimeProofs!ReadyRunsAreServed`, `!TimeoutsKeepTheCopy` (a) | `Spec => []` `ReadyIsServed`, `TimeoutKeepsCopy` | needs `Served` |
| `PreviewRuntimeProofs!StoppedRunsAreQuiet`, `!ContainersHoldTheKey` (s) | `Spec => []` `StoppedIsQuiet`, `RuntimeHoldsKey` | needs `Quiet` |
| `PreviewRuntimeProofs!PreviewImplementsLease` (s) | `Spec => ImplementsLease` | step simulation under all of the above and `NamedIsNew` |
| `CompilationProofs!TypeCorrect` | `Spec => []TypeOK` | needs `OneThingAtATime` |
| `CompilationProofs!DecidedOnce` | `Spec => ImplementsOutcome` | step simulation under `EvidenceIffSucceeded` |
| `CompilationProofs!DenselyNumbered` | `Spec => []SequencesDense` | needs `CountsInReach` |
| `CompilationProofs!AnnouncedWasWritten` | `Spec => []AnnouncedFilesExist` | needs how far each writer is |
| `CompilationProofs!SoundWorkerServesTheRecord` (w) | `Spec => []RegisteredIsOnDisk` | needs `TornIsOpen` |
| `VerificationProofs!VerificationImplementsCompilation` | `RunsSpec => Spec` | step simulation under `RunsTyped` |
| `VerificationProofs!RunsTypeCorrect` | `RunsSpec => []RunsTypeOK` | `RunsTyped`, with `OneReportAtATime` |
| `VerificationProofs!VerifiedIsDecidedOnce`, `!VerifiedWasWritten`, `!VerifiedIsServed` (w) | `RunsSpec =>` `ImplementsOutcome`, `[]AnnouncedFilesExist`, `[]RegisteredIsOnDisk` | the theorems of compilation, through the above |
| `VerificationProofs!EnvironmentIsTheRecord` | `RunsSpec => []EnvironmentRunsTheRecord` | needs `ReadIsTheRecord` |
| `VerificationProofs!CleanupSaysTheTruth` | `RunsSpec => []CleanupIsTrue` | needs `TrulyClean` |
| `LedgerProofs!LedgerTypeOK` | `Spec => []TypeOK` | `TypeInv` |
| `LedgerProofs!LedgerImplementsHistory` | `Spec => ImplementsHistory` | every step has one of four shapes |
| `LedgerProofs!LedgerAppliedProduct`, `!LedgerNothingAppliedUndecided`, `!LedgerTemplateDraftOpens` | `Spec => []` the property each names | from the shapes, with what requests in flight have read |
| `LedgerProofs!LedgerChoiceStands` | `Spec => ChoiceStands` | an action property, from `TypeInv`: only the composition service touches a chosen review, and leaves its mark (`Replanned`) |
| `RestaurantProofs!RestaurantInvariant` | `Spec => [](Inv /\ WorkChosen)` | the inductive invariant |
| `RestaurantProofs!RestaurantTypeOK`, `!ClosedIsEmpty`, `!CartPerKey`, `!PaidOnce` | `Spec => []` `TypeOK`, `ClosedTableIsEmpty`, `OneCartPerKey`, `PaidOnceAndCooked` | each from one conjunct of it |
| `RestaurantProofs!StockInvariant` | `Spec => []StockInv` | the inductive invariant of stock and ledger |
| `RestaurantProofs!StockIsAccounted`, `!OrdersHoldTheirLines` | `Spec => []` `StockAccounted`, `ReservationMatchesOrder` | from its sums, and from the stage of each order |
| `RestaurantProofs!ServiceFollowsFlow` | `Spec => ImplementsFlow` | every step leaves the orders alone, opens a cart or moves one order |
| `IntakeProofs!Invariant` | `Spec => []Inv` | the inductive invariant of files, plans and registries |
| `IntakeProofs!IntakeTypes`, `!VisibleStaysWhole`, `!ClaimantsWriteOnly`, `!RegistryIsDurable`, `!RunsAreChains` | `Spec => []` `TypeOK`, `VisibleIsWhole`, `OnlyClaimantsWrite`, `KnownIsDurable`, `RunIsOneChain` | what a file announces was on disk before it |
| `IntakeProofs!StoreFollowsTimeline` | `Spec => ImplementsTimeline` | only two files change what an identity shows |

*Hypotheses.* (a): `"ack" \notin Faults`, an enqueue that raises has stored nothing;
`preview_lostack` shows what follows otherwise. `OneJobEach`, `ReadyIsServed` and
`TimeoutKeepsCopy` except the runs a job of which was given out while it was executed
(`overlapped`, see section 5), and hold of all others although these exist. (s):
`SteadyWorker`, which also leaves out `"stall"`, `"restart"` and `"block"`, as
`preview_faults` does and for the reasons of sections 3 and 5. (w): `SoundWorker`, a
Worker of one build whose writes succeed and which is not killed: a write that failed or
was cut off leaves a torn file in the directory of an older success, and another build
rewrites it (`compilation_upgrade`). `compilation_live` checks that property under the
same conditions. All other theorems have no hypothesis.

*Assumptions* (evaluated by TLC in each run): `None` is none of the
identities nor of the failure codes, a build is not the content "absent" or "torn"
and in intake a torn file is none of the contents, the sets whose cardinality or sum the
code computes are finite, there is at least one file and one phase, the kinds of
fault are among those modelled; for the ledger, reviews are not authors and
`MaxDrafts` is at least 1; for the Restaurant, a workload has natural numbers; for
intake, the identity and the completed evidence run of a proposal are functions of it.

*Local Preview, the rows.* Type correctness is not inductive alone: a request writes the
row its local variables name, so `RequestsNameRuns` and `SlotsNameRuns` say
what is named where. `KeyMarksLiveRun` is not inductive either: `UndoStop` writes
back a status read some steps ago, and `StopsSawLiveRuns` says that it was a
live one; a report of a stop must find a compilation in the row
(`LiveRunsHaveCompilation`). Uniqueness of the key (`KeysDiffer`) turns the index
into a lease.

*Local Preview, the runtimes.* A report is believed because of the row's status only, so
that a run has one start and one stop has to be a property of the whole. `OneJobEach`
follows a job from the request that is to enqueue it, through the queue, to a slot or to
the lock of a Worker that died: it is in one of these places, once, and its row takes
it. It says so of the runs that are not `overlapped`: what the others do touches no run
but themselves. What a run shows is then tied to the host. `Served` speaks of what a run
*is*: its status, or, during a stop, the status that `UndoStop` may write back; it says
that a ready run is up with its copy and a timed-out one has its copy, and that only a
stop past its dispatch takes this away. `Quiet` says what a stop can rely on: a start
that may still enter the runtime untold has no stop at work, a skipped run has no start
left and nothing up, a stop that verifies, takes down or removes has no start in the
runtime, and after its `down` nothing is up. For the refinement, the holder of a
compilation is the run with its key, a run that a request is creating was never used
(`NamedIsNew`), and every step is acquire, start, take down, release or a stutter.

*Compilation.* A write that fails makes the job report failure, whichever state
the job is in, so `OneThingAtATime` says that while the compile writer is at work
the job is writing, and that at most one call is waited for, by a job that
waits. `EvidenceIffSucceeded` is the refinement's invariant:
Artifact rows exist for exactly the succeeded compilations. For density,
`CountsInReach` bounds a request's count by the number of rows plus one, so a count
that went stale collides with a number in use and never leaves a gap. For
`AnnouncedFilesExist`, a file once written is never absent again, a writer has
written every file before the one it is at (`WritersInOrder`), and a success in
flight is of a job that came to the end (`ReportsWhole`). For `RegisteredIsOnDisk`, a
torn file is the one a writer has open (`TornIsOpen`), so where no one writes,
each file is whole, and of the only build there is.

*Verification.* A step of verification is a step of `Compilations` or changes
nothing of it, provided that what is taken from the queue has a row of a
succeeded compilation: `RunsTyped` follows the run's identity from request to
row, queue, job and report. `RunsSpec => Spec` then carries the theorems over.
`ReadIsTheRecord` says of every point of an execution what has been read, and, from
`Boot` on, what the copy is, as equal to the record; a record does not change once
the compilation has succeeded, which is `ImplementsOutcome`'s invariant again.
Evidence of a clean end is true when it is made; that it stays true needs that a
job comes once. `TrulyClean` says of a run not given out again: its job is
asked for, queued or executed, in one place; before its execution ends nothing is
said of a clean end; and after it nobody touches its containers or its copy.

*Ledger.* `TypeInv` says of the tables what they hold and, in `RequestsFit`,
that what a request in flight has read is still below the end of the table it
was read from. `StepShape` reduces every action to one of four shapes: Drafts
stand, one Draft comes, a product comes with its Draft, a product's row
follows; each property is proved once per shape.

*Generated Restaurant.* The invariant is the argument for optimistic concurrency:
`RequestsFit` says that what a command in flight read of its order, of its item
or of the table (for a closing, of all active sessions) still holds as long as the
version it read is the row's. A command commits only at that version and leaves
the next one, so what the others read is kept or marked stale (`OrderCommandStep`,
`TableStep`). `ScopesDiffer` keeps two commands, committed or in flight, from
sharing scope and key, so each cart has a key of its own (`CartsCounted`).
`PaymentsFit` ties the payments and the ticket of an order to its stage; `pay`
can only find an unpaid order, whose payments are then none.

*Stock.* `StockAccounted` is a sum over a ledger that grows without bound, and
becomes inductive with `Reserved`: the rows of the ledger that name an order follow
from its stage, one reservation for each item its lines ask for once it was
submitted, one release more once it was cancelled unpaid. So the rows a submission
adds are new, and stock and ledger move by the same amount. The sums are those
of the community modules' fold, and `SumTheorems` proves what is needed of them:
the recursive function in the fold exists, a sum does not depend on the order of
its elements, and an element more adds its value. Since the library's induction
theorems take an operator as a parameter, each of these proofs takes a
smallest counterexample instead, by well-foundedness of inclusion on a finite set.

*External intake.* Files are immutable once whole (`FilesGrow`), which makes what was
found once a fact for good. `Progress` says of a process that what its plan has before
its current step is on disk. `Permitted` says of a file what has to be there before it,
and the plans have it in that order. So whoever writes a file has made what that file
announces, which `FilesFit` states file by file: a locator after the whole proposal, an
index after its receipt, a receipt after the index before it. A torn file has one writer
(`FillsFit`), the one that opened it, so nobody else can make it whole; if that process
died, it stays torn.

*Only model-checked.* Liveness (`StopIsDecided`, `TimedOutStopReleases`,
`JobIsDecided`, `RunIsConcluded`), which is beyond the prover. Every invariant and
every action property that a passing run checks is a theorem.


## 5. Where the code and its documents disagree

1. `preview_release`: a stop accepted before its start job has its dispatch
   makes the start fail with nothing copied; the stop, and each later one, then
   fails in `verifyComposeArtifact`, and the compilation cannot be previewed again.
2. `preview_lostack`: an enqueue that raised after the job was stored is
   compensated by deleting the row; its containers come up under no lease.
3. `preview_sequence`: that deletion can leave a gap, after which the count
   plus one is taken and every further create is a conflict.
4. `preview_undecided`: four failure codes of the runner are refused
   by the Control Plane with a 400, and the run stays `starting`.
5. `compilation_upgrade`: the generated directory of a publication is
   rewritten by a later build, and the artifacts of an older compilation no
   longer match their digests. The sentence it refutes (`README.md:73-74`) is a
   promise in general terms.

`PROJECT.json` quotes the sentence each run refutes.

Further disagreements met while modelling, which have no run of their own:

- A conclusion of a verification run can be replaced: `reportEvidence` checks and
  updates in two statements. The comment above `executeQueuedVerificationRun`
  (`verification-job.ts:350`) says that a repeated job reports idempotently; its
  completion time differs, so its digest does, and the report is a conflict.
- When the preview Worker restarts while a start has its containers up and the stop of
  the run is under way, both jobs are given out again. The stop has told the new
  start, which gives up and is recorded as skipped; the stop then takes the way of
  a start that never entered the runtime, reports `stopped` and takes nothing down.
- A start given out beside its first execution removes the copy that one retained when
  it timed out (`docs/superpowers/plans/2026-07-30-preview-release-hardening.md` has it
  retained for a later stop, lines 243-245), or replaces the copy of a run that has just
  been reported ready and takes its containers down; when a stop tells it to give up,
  the stop takes the first one, whose containers are up, for skipped as well.
- The evidence of a V3 run names the digest that was expected, whatever the
  recompilation produced.
- `CleanupIsTrue` fails without its exception: a Worker dies with a copy and
  containers, the job is given out again, the start fails before Docker and the
  evidence says that nothing is left.
- A verification run, a compilation or a preview whose row was inserted by a process
  that died before its enqueue stays pending.
- Two decisions on a composition review both succeed; a slow `requestPlan` can put an
  applied review back to planned. It takes a product's review too that is undecided when
  it is read: after the product was chosen and applied meanwhile, `applyProduct` refuses
  to answer with its Draft, although a test
  (`requirement-product-composition.test.ts:882`) has it reconcile a lost answer.
  `AppliedProductIsItsDraft` and `ChoiceStands` except what such a review was rewritten
  to (`Replanned`).
- A Restaurant choice that is repeated identically raises a conflict although a
  comment calls it idempotent; a product review of a template that was renamed
  afterwards cannot be reconciled.
- One torn locator makes `list` raise for every Candidate; an identical failure
  after a resumed evidence run is a sequence conflict.

## 6. Not modelled, and what is left

1. Proofs of the liveness properties. `StoppedRunsAreQuiet` for a Worker that
   restarts: it is false as it stands (section 5), but should hold of a run whose
   start and stop were not both under way at a restart, nor overlapped.
2. Probes, journeys and plans of verification, the Graph's validation, composition
   planning and the compiler are functions of data without a state of their own;
   intake's scanners and adapters start subprocesses and return data. The Workbench
   keeps no state that anything else reads.
3. Queries (artifact reads, portfolio, exports, lists and reports) change nothing.
