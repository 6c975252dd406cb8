----------------------------- MODULE IntakeStore -----------------------------
(***************************************************************************)
(* The External Intake store (packages/external-intake/src/store.ts): a    *)
(* quarantine directory of files that are written once, shared by          *)
(* processes that no lock coordinates.                                     *)
(*                                                                         *)
(* An operation is a sequence of exclusive writes and checks.  A write     *)
(* creates its file and then fills it; a process that dies in between      *)
(* leaves it torn.  Records, receipts and blobs are named by their digest, *)
(* so a path fixes its content; claims, indices and locators are not.      *)
(***************************************************************************)
EXTENDS Naturals, Sequences

CONSTANTS
  Processes,  \* processes that share the directory
  Torn        \* the content of a file that was created and not filled

VARIABLES
  file,       \* the content of every file that exists, by path
  call        \* the operation each process is in: its steps still to run

Idle == [op |-> "none", subject |-> <<>>, todo |-> <<>>, filling |-> FALSE]

Write(path, content) == [kind |-> "write", path |-> path, content |-> content]
Check(facts)         == [kind |-> "check", facts |-> facts]

Exists(path)         == path \in DOMAIN file
Whole(path, content) == Exists(path) /\ file[path] = content
Readable(path)       == Exists(path) /\ file[path] # Torn

Runs(p, kind) == call[p].todo # <<>> /\ Head(call[p].todo).kind = kind

\* Mutant of Advance: the next step finds its file already open.
AdvanceOpen(p) == call' = [call EXCEPT ![p].todo = Tail(@)]

Advance(p) == call' = [call EXCEPT ![p].todo = Tail(@), ![p].filling = FALSE]

Fills(path, content) ==
  file' = [x \in DOMAIN file \cup {path} |-> IF x = path THEN content ELSE file[x]]

(***************************************************************************)
(* writeExclusiveVerified: an existing file is accepted when it has the    *)
(* very bytes, and refused otherwise, also while another process fills it. *)
(***************************************************************************)
\* Mutant of MayOpen: flag "w" in place of "wx".
OpenAnyway(path) == TRUE

MayOpen(path) == ~Exists(path)

OpenFile(p) ==
  /\ Runs(p, "write") /\ ~call[p].filling
  /\ LET step == Head(call[p].todo)
     IN MayOpen(step.path) /\ Fills(step.path, Torn)
  /\ call' = [call EXCEPT ![p].filling = TRUE]

FillFile(p) ==
  /\ Runs(p, "write") /\ call[p].filling
  /\ LET step == Head(call[p].todo) IN Fills(step.path, step.content)
  /\ Advance(p)

\* Mutant of SameBytes: an existing file is taken for the one to be written.
AnyBytes(path, content) == Exists(path)

SameBytes(path, content) == Whole(path, content)

AcceptFile(p) ==
  /\ Runs(p, "write") /\ ~call[p].filling
  /\ LET step == Head(call[p].todo) IN SameBytes(step.path, step.content)
  /\ Advance(p)
  /\ UNCHANGED file

\* What an operation reads again before it goes on.
PassCheck(p) ==
  /\ Runs(p, "check")
  /\ \A fact \in Head(call[p].todo).facts : Whole(fact[1], fact[2])
  /\ Advance(p)
  /\ UNCHANGED file

\* A conflict, a check that fails, or any error of the file system: the operation
\* raises; a file it had opened stays torn.
Raise(p) ==
  /\ call[p] # Idle
  /\ call' = [call EXCEPT ![p] = Idle]
  /\ UNCHANGED file

Begin(p, op, subject, todo) ==
  /\ call[p] = Idle
  /\ call' = [call EXCEPT ![p] = [Idle EXCEPT !.op = op, !.subject = subject,
                                    !.todo = todo]]

Finishes(p, op) ==
  /\ call[p].op = op /\ call[p].todo = <<>>
  /\ call' = [call EXCEPT ![p] = Idle]

\* appendReceipt: the receipt record, then its place in the sequence of the job.
ReceiptRecord(receipt) == Write(<<"receipt", receipt>>, receipt)
ReceiptIndex(job, n, receipt) == Write(<<"index", job, n>>, receipt)
=============================================================================
