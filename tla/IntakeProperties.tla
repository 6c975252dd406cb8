-------------------------- MODULE IntakeProperties --------------------------
(***************************************************************************)
(* What the External Intake store guarantees to processes that share its   *)
(* directory and may die at any point of any operation.                    *)
(***************************************************************************)
EXTENDS CandidateRegistry

Kinds == {"claim", "blob", "evidence", "candidate", "receipt", "index", "locator"}

\* Every variable holds a value of its type.
TypeOK ==
  /\ \A x \in DOMAIN file : x[1] \in Kinds
  /\ \A p \in Processes :
       /\ call[p].op \in {"none", "evidence", "create", "verified", "transition"}
       /\ call[p].filling \in BOOLEAN
       /\ call[p].filling => Runs(p, "write")
  /\ known \in [Processes -> [Identities -> Revisions \cup {None}]]

\* What a reader that follows the locator of an identity finds there.
Visible(i) ==
  IF ~Readable(<<"locator", i>>) THEN None
  ELSE IF Readable(<<"index", i, 2>>) THEN file[<<"index", i, 2>>]
  ELSE file[<<"locator", i>>]

\* However creations and transitions of several processes interleave, and wherever
\* they die, an identity shows one proposal, quarantined, then at most one terminal
\* status (claimCandidateCreation and commitCandidateTransition).
Timeline == INSTANCE CandidateTimeline WITH
  current <- [i \in Identities |-> Visible(i)]
ImplementsTimeline == Timeline!Spec

\* What is visible is whole: the record and the receipt of the current revision and
\* those of its creation, its blobs, its conformance evidence and the evidence run it
\* rests on are all on disk, complete, though a process may die between two writes.
VisibleIsWhole ==
  \A i \in Identities : Visible(i) # None =>
    LET c == Visible(i)[1]
    IN /\ \A fact \in Creation(c) : Whole(fact[1], fact[2])
       /\ HasRun(EvidenceOf[c])
       /\ Whole(<<"candidate", Visible(i)>>, Visible(i))
       /\ Whole(<<"receipt", Visible(i)>>, Visible(i))
       /\ Visible(i)[2] = "conformance-passed" => Whole(<<"evidence", c>>, c)

\* Only the proposal and the status that hold the claim leave records of their own,
\* so a retry of the claimed one never meets the files of another: it can be refused
\* only by a file that a dead process left torn.
OnlyClaimantsWrite ==
  \A c \in Proposals :
    LET i == IdentityOf[c]
    IN /\ Exists(<<"candidate", Created(c)>>) => Whole(<<"claim", i, 1>>, c)
       /\ Whole(<<"claim", i, 1>>, c) =>
            \A x \in {<<"index", i, 1>>, <<"locator", i>>} :
              Readable(x) => file[x] = Created(c)
       /\ \A s \in Terminal :
            /\ Exists(<<"candidate", <<c, s>>>>) => Whole(<<"claim", i, 2>>, <<c, s>>)
            /\ Whole(<<"claim", i, 2>>, <<c, s>>) /\ Readable(<<"index", i, 2>>) =>
                 file[<<"index", i, 2>>] = <<c, s>>

\* What a registry returned is durable: the proposal it knows is the visible one, and
\* a terminal status it knows is the visible one, also in a registry that never reads
\* the directory and after the death of the process that wrote it.
KnownIsDurable ==
  \A p \in Processes, i \in Identities : known[p][i] # None =>
    /\ Visible(i) # None /\ Visible(i)[1] = known[p][i][1]
    /\ known[p][i][2] # "quarantined" => Visible(i) = known[p][i]

\* The receipts of an evidence run are one chain: numbered without a gap, each backed
\* by its record, each the successor of the one before, though the same run may be
\* persisted by two processes and resumed from different ones.
RunIsOneChain ==
  \A e \in Executions, n \in 1 .. Phases : Readable(<<"index", e, n>>) =>
    LET receipt == file[<<"index", e, n>>]
    IN /\ receipt[1] = e /\ receipt[3] = n
       /\ Whole(<<"receipt", receipt>>, receipt)
       /\ n > 1 => Whole(<<"index", e, n - 1>>, <<e, receipt[2], n - 1>>)
=============================================================================
