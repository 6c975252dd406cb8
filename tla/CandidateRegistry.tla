-------------------------- MODULE CandidateRegistry --------------------------
(***************************************************************************)
(* Candidates in the External Intake store: evidence runs (jobs.ts), and   *)
(* the creation and the one terminal transition of a Candidate             *)
(* (candidates.ts and the compare and set primitives of store.ts).         *)
(*                                                                         *)
(* A revision of a Candidate is its proposal and its status; the receipt   *)
(* that announces it has the same name.  A receipt of an evidence run is   *)
(* the run, the run it resumed from, and its number.                       *)
(***************************************************************************)
EXTENDS IntakeStore

CONSTANTS
  Identities,  \* "<id>@<version>" of Candidates
  Proposals,   \* proposals, of which an identity may have several
  IdentityOf,  \* the identity a proposal is for
  BlobOf,      \* the source and artifact blobs of a proposal
  Executions,  \* identities of evidence runs, digests of their outcome
  Completed,   \* the runs whose outcome is a stored bundle, not a block
  EvidenceOf,  \* the completed run a proposal rests on
  Phases,      \* bound: receipts of an evidence run
  Readers,     \* the processes whose registry has a verification root
  None,
  Workloads    \* bound: the sets of operations a behaviour is made of

VARIABLES
  known,       \* the entries of a registry: the latest revision it knows
  work         \* the operations of this behaviour (bound only)

vars == <<file, call, known, work>>

Terminal == {"conformance-passed", "blocked", "rejected"}
Revisions == Proposals \X ({"quarantined"} \cup Terminal)

ASSUME IntakeAssumption ==
  /\ Identities \cap Executions = {} /\ None \notin Executions \cup Revisions
  /\ IdentityOf \in [Proposals -> Identities]
  /\ Completed \subseteq Executions /\ EvidenceOf \in [Proposals -> Completed]
  /\ Readers \subseteq Processes
  /\ Phases \in Nat \ {0}
  /\ Torn \notin Proposals \cup Revisions \cup {BlobOf[c] : c \in Proposals}
                  \cup (Executions \X (Executions \cup {None}) \X (1 .. Phases))

(***************************************************************************)
(* runEvidencePipeline: the run ends in persistReceiptOutcome, which       *)
(* appends its receipts one by one; the first names the run it resumed.    *)
(***************************************************************************)
HasRun(e) == \A n \in 1 .. Phases : Readable(<<"index", e, n>>)

RunFiles(e) == {<<"receipt", <<e, None, n>>>> : n \in 1 .. Phases}
                 \cup {<<"index", e, n>> : n \in 1 .. Phases}

\* ReceiptChain.append: a receipt follows the one that this run appended before.
Receipt(e, from, n) == <<e, from, n>>

AppendSteps(e, from, n) ==
  LET r == Receipt(e, from, n)
      last == Receipt(e, from, n - 1)
  IN IF n = 1 THEN <<ReceiptRecord(r), ReceiptIndex(e, n, r)>>
     ELSE <<Check({<<<<"index", e, n - 1>>, last>>, <<<<"receipt", last>>, last>>}),
            ReceiptRecord(r), ReceiptIndex(e, n, r)>>

BeginEvidence(p, e, from) ==
  /\ from # None => HasRun(from) /\ ~(from = e /\ e \in Completed)
  /\ Begin(p, "evidence", Receipt(e, from, 1), AppendSteps(e, from, 1))
  /\ UNCHANGED <<file, known>>

AppendNext(p) ==
  LET r == call[p].subject
  IN /\ call[p].op = "evidence" /\ call[p].todo = <<>> /\ r[3] < Phases
     /\ call' = [call EXCEPT ![p].subject = Receipt(r[1], r[2], r[3] + 1),
                             ![p].todo = AppendSteps(r[1], r[2], r[3] + 1)]
     /\ UNCHANGED <<file, known>>

FinishEvidence(p) ==
  /\ Finishes(p, "evidence") /\ call[p].subject[3] = Phases
  /\ UNCHANGED <<file, known>>

(***************************************************************************)
(* create: the claim, the blobs, the record and receipt 1, then            *)
(* completeCandidateCreation reads all of it again and writes the locator. *)
(***************************************************************************)
Created(c) == <<c, "quarantined">>

Creation(c) ==
  {<<<<"claim", IdentityOf[c], 1>>, c>>, <<<<"blob", BlobOf[c]>>, BlobOf[c]>>,
   <<<<"candidate", Created(c)>>, Created(c)>>, <<<<"receipt", Created(c)>>, Created(c)>>,
   <<<<"index", IdentityOf[c], 1>>, Created(c)>>}

\* Mutant of CreateSteps: the claim is not made before the other files are written.
CreateUnclaimed(c) ==
  <<Write(<<"blob", BlobOf[c]>>, BlobOf[c]),
    Write(<<"candidate", Created(c)>>, Created(c)),
    ReceiptRecord(Created(c)), ReceiptIndex(IdentityOf[c], 1, Created(c)),
    Write(<<"claim", IdentityOf[c], 1>>, c), Check(Creation(c)),
    Write(<<"locator", IdentityOf[c]>>, Created(c))>>

\* Mutant of CreateSteps: the locator is written before the Candidate is complete.
CreateLocatedFirst(c) ==
  <<Write(<<"claim", IdentityOf[c], 1>>, c),
    Write(<<"locator", IdentityOf[c]>>, Created(c)),
    Write(<<"blob", BlobOf[c]>>, BlobOf[c]),
    Write(<<"candidate", Created(c)>>, Created(c)),
    ReceiptRecord(Created(c)), ReceiptIndex(IdentityOf[c], 1, Created(c))>>

CreateSteps(c) ==
  <<Write(<<"claim", IdentityOf[c], 1>>, c),
    Write(<<"blob", BlobOf[c]>>, BlobOf[c]),
    Write(<<"candidate", Created(c)>>, Created(c)),
    ReceiptRecord(Created(c)), ReceiptIndex(IdentityOf[c], 1, Created(c)),
    Check(Creation(c)), Write(<<"locator", IdentityOf[c]>>, Created(c))>>

BeginCreate(p, c) ==
  /\ known[p][IdentityOf[c]] = None
  /\ HasRun(EvidenceOf[c])
  /\ Begin(p, "create", Created(c), CreateSteps(c))
  /\ UNCHANGED <<file, known>>

Learns(p, revision) ==
  known' = [known EXCEPT ![p][IdentityOf[revision[1]]] = revision]

FinishCreate(p) ==
  /\ Finishes(p, "create")
  /\ Learns(p, call[p].subject)
  /\ UNCHANGED file

(***************************************************************************)
(* entry: a registry with a verification root follows the locator to the   *)
(* current receipt; one without only knows what its own calls returned.    *)
(***************************************************************************)
Located(i) ==
  /\ Readable(<<"locator", i>>)
  /\ Whole(<<"index", i, 1>>, file[<<"locator", i>>])
  /\ Exists(<<"index", i, 2>>) => Readable(<<"index", i, 2>>)

Current(i) == IF Exists(<<"index", i, 2>>) THEN file[<<"index", i, 2>>]
                                           ELSE file[<<"locator", i>>]

Finds(p, i) == IF p \in Readers THEN Located(i) ELSE known[p][i] # None
Entry(p, i) == IF p \in Readers THEN Current(i) ELSE known[p][i]

\* get, list, verify.
VerifyIdentity(p, i) ==
  /\ call[p] = Idle
  /\ Finds(p, i)
  /\ Learns(p, Entry(p, i))
  /\ UNCHANGED <<file, call>>

(***************************************************************************)
(* recordConformancePass, recordBlocked and recordRejected verify the      *)
(* entry, then read index 2, then write: the claim comes before every      *)
(* other file and decides between two transitions that both saw no index.  *)
(***************************************************************************)
Transitions(c, status) ==
  LET i == IdentityOf[c]
      r == <<c, status>>
  IN IF status = "conformance-passed"
     THEN <<Write(<<"claim", i, 2>>, r), Write(<<"evidence", c>>, c),
            Write(<<"candidate", r>>, r), ReceiptRecord(r), ReceiptIndex(i, 2, r)>>
     ELSE <<Write(<<"claim", i, 2>>, r),
            Write(<<"candidate", r>>, r), ReceiptRecord(r), ReceiptIndex(i, 2, r)>>

BeginTransition(p, i, status) ==
  /\ Finds(p, i)
  /\ \/ Entry(p, i)[2] = "quarantined"
     \/ status = "conformance-passed" /\ Entry(p, i)[2] = status
  /\ Learns(p, Entry(p, i))
  /\ Begin(p, "verified", <<Entry(p, i)[1], status>>, <<>>)
  /\ UNCHANGED file

\* commitCandidateTransition: its writes begin when there is no terminal receipt;
\* the same one is success, except to a recordTerminal whose registry reads it.
CommitTransition(p) ==
  LET r == call[p].subject
      i == IdentityOf[r[1]]
  IN /\ call[p].op = "verified"
     /\ \/ /\ ~Exists(<<"index", i, 2>>)
           /\ call' = [call EXCEPT ![p].op = "transition",
                                   ![p].todo = Transitions(r[1], r[2])]
           /\ UNCHANGED known
        \/ /\ Whole(<<"index", i, 2>>, r)
           /\ p \in Readers => r[2] = "conformance-passed"
           /\ Learns(p, r)
           /\ call' = [call EXCEPT ![p] = Idle]
     /\ UNCHANGED file

FinishTransition(p) ==
  /\ Finishes(p, "transition")
  /\ Learns(p, call[p].subject)
  /\ UNCHANGED file

\* A process dies and starts again with an empty registry.
Die(p) ==
  /\ call' = [call EXCEPT ![p] = Idle]
  /\ known' = [known EXCEPT ![p] = [i \in Identities |-> None]]
  /\ UNCHANGED file

\* The directory may hold completed runs when the processes start.
Init ==
  /\ work \in Workloads
  /\ \E done \in SUBSET Completed :
       file = [x \in UNION {RunFiles(e) : e \in done} |->
                 IF x[1] = "receipt" THEN x[2] ELSE <<x[2], None, x[3]>>]
  /\ call = [p \in Processes |-> Idle]
  /\ known = [p \in Processes |-> [i \in Identities |-> None]]

Steps(p) ==
  /\ OpenFile(p) \/ FillFile(p) \/ AcceptFile(p) \/ PassCheck(p) \/ Raise(p)
  /\ UNCHANGED known

Operations(p) ==
  \/ /\ "evidence" \in work
     /\ \E e \in Executions, from \in Executions \cup {None} : BeginEvidence(p, e, from)
  \/ AppendNext(p) \/ FinishEvidence(p)
  \/ /\ "create" \in work
     /\ \E c \in Proposals : BeginCreate(p, c)
  \/ FinishCreate(p)
  \/ \E i \in Identities :
       \/ VerifyIdentity(p, i)
       \/ \E status \in Terminal \cap work : BeginTransition(p, i, status)
  \/ CommitTransition(p)
  \/ FinishTransition(p)
  \/ Die(p)

Next ==
  /\ \E p \in Processes : Steps(p) \/ Operations(p)
  /\ UNCHANGED work

Spec == Init /\ [][Next]_vars
=============================================================================
