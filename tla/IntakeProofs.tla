----------------------------- MODULE IntakeProofs -----------------------------
(***************************************************************************)
(* Theorems about the External Intake store for any number of processes,   *)
(* identities, proposals and evidence runs, dying at any point.            *)
(*                                                                         *)
(* The argument is that of a protocol of immutable files.  A file that is  *)
(* whole stays what it is (FilesGrow); a process is at some step of the    *)
(* plan of its operation and what came before in the plan is on disk       *)
(* (Progress); so whoever writes a file has made what that file announces  *)
(* (Permitted).  What a file says then holds since it was written.         *)
(***************************************************************************)
EXTENDS IntakeProperties, SequenceTheorems, TLAPS

(***************************************************************************)
(* What is said of the files.                                              *)
(***************************************************************************)
Holds(path, content) == content # Torn /\ Whole(path, content)

Receipted(e, n, r) ==
  \E from \in Executions \cup {None} :
    /\ r = Receipt(e, from, n)
    /\ Holds(<<"receipt", r>>, r)
    /\ n > 1 => Holds(<<"index", e, n - 1>>, Receipt(e, from, n - 1))

Claims(i, c) == IdentityOf[c] = i /\ Holds(<<"claim", i, 1>>, c)

Complete(i, c) ==
  /\ IdentityOf[c] = i /\ HasRun(EvidenceOf[c])
  /\ \A fact \in Creation(c) : Holds(fact[1], fact[2])

Placed(i, c) == IdentityOf[c] = i /\ Holds(<<"locator", i>>, Created(c))

Recorded(i, c, s) ==
  /\ Holds(<<"claim", i, 2>>, <<c, s>>)
  /\ Holds(<<"candidate", <<c, s>>>>, <<c, s>>)
  /\ Holds(<<"receipt", <<c, s>>>>, <<c, s>>)
  /\ s = "conformance-passed" => Holds(<<"evidence", c>>, c)

FilesNamed == \A x : Exists(x) => x[1] \in Kinds

RunsFit ==
  \A e \in Executions, n \in 1 .. Phases : \A r :
    Holds(<<"index", e, n>>, r) => Receipted(e, n, r)

CreationsFit ==
  /\ \A c \in Proposals : Exists(<<"candidate", Created(c)>>) => Claims(IdentityOf[c], c)
  /\ \A i \in Identities : \A r : Holds(<<"index", i, 1>>, r) =>
       \E c \in Proposals : r = Created(c) /\ Claims(i, c)
  /\ \A i \in Identities : \A r : Holds(<<"locator", i>>, r) =>
       \E c \in Proposals : r = Created(c) /\ Complete(i, c)

TransitionsFit ==
  /\ \A c \in Proposals, s \in Terminal : Exists(<<"candidate", <<c, s>>>>) =>
       Holds(<<"claim", IdentityOf[c], 2>>, <<c, s>>)
  /\ \A i \in Identities : \A r : Holds(<<"index", i, 2>>, r) =>
       \E c \in Proposals, s \in Terminal :
         r = <<c, s>> /\ Placed(i, c) /\ Recorded(i, c, s)

FilesFit == FilesNamed /\ RunsFit /\ CreationsFit /\ TransitionsFit

(***************************************************************************)
(* What is said of the processes.                                          *)
(***************************************************************************)
Plan(op, r) ==
  CASE op = "evidence"   -> AppendSteps(r[1], r[2], r[3])
    [] op = "create"     -> CreateSteps(r[1])
    [] op = "transition" -> Transitions(r[1], r[2])
    [] OTHER             -> <<>>

Done(step) ==
  IF step.kind = "write" THEN Holds(step.path, step.content)
                         ELSE \A fact \in step.facts : Holds(fact[1], fact[2])

\* What is left to do is the end of the plan, and the rest is done.
Left(todo, plan) ==
  /\ \E S : todo \in Seq(S)
  /\ \E k \in 0 .. Len(plan) :
       /\ Len(todo) = Len(plan) - k
       /\ \A j \in 1 .. Len(todo) : todo[j] = plan[k + j]
       /\ \A j \in 1 .. k : Done(plan[j])

SubjectFits(op, r) ==
  /\ op \in {"none", "evidence", "create", "verified", "transition"}
  /\ op = "evidence" =>
       \E e \in Executions, from \in Executions \cup {None}, n \in 1 .. Phases :
         r = Receipt(e, from, n)
  /\ op = "create" => \E c \in Proposals : r = Created(c) /\ HasRun(EvidenceOf[c])
  /\ op \in {"verified", "transition"} =>
       \E c \in Proposals, s \in Terminal : r = <<c, s>> /\ Placed(IdentityOf[c], c)

Progress(p) ==
  \E op, r, todo, filling :
    /\ call[p] = [op |-> op, subject |-> r, todo |-> todo, filling |-> filling]
    /\ filling \in BOOLEAN /\ SubjectFits(op, r) /\ Left(todo, Plan(op, r))

\* A file that is being filled is torn, and is filled by one process.
Opened(p, path) ==
  call[p].filling /\ Runs(p, "write") /\ Head(call[p].todo).path = path

FillsFit ==
  /\ \A p \in Processes : call[p].filling => Runs(p, "write")
  /\ \A p \in Processes : \A path : Opened(p, path) => Whole(path, Torn)
  /\ \A p, q \in Processes : \A path : Opened(p, path) /\ Opened(q, path) => p = q

CallsFit ==
  /\ call = [p \in Processes |-> call[p]]
  /\ \A p \in Processes : Progress(p)
  /\ FillsFit

\* What a registry knows of an identity.
Known(i, revision) ==
  /\ Placed(i, revision[1])
  /\ revision[2] # "quarantined" => Holds(<<"index", i, 2>>, revision)

KnownFits ==
  /\ known \in [Processes -> [Identities -> Revisions \cup {None}]]
  /\ \A p \in Processes, i \in Identities, revision \in Revisions :
       known[p][i] = revision => Known(i, revision)

Inv == FilesFit /\ CallsFit /\ KnownFits

(***************************************************************************)
(* What a file announces when it is written.                               *)
(***************************************************************************)
PermittedRun(path, content) ==
  \E e \in Executions, from \in Executions \cup {None}, n \in 1 .. Phases :
    /\ content = Receipt(e, from, n)
    /\ \/ path = <<"receipt", content>>
       \/ path = <<"index", e, n>> /\ Receipted(e, n, content)

PermittedCreation(path, content) ==
  \E c \in Proposals, i \in Identities :
    /\ i = IdentityOf[c]
    /\ \/ path = <<"claim", i, 1>> /\ content = c
       \/ path = <<"blob", BlobOf[c]>> /\ content = BlobOf[c]
       \/ /\ path \in {<<"candidate", Created(c)>>, <<"receipt", Created(c)>>, <<"index", i, 1>>}
          /\ content = Created(c) /\ Claims(i, c)
       \/ path = <<"locator", i>> /\ content = Created(c) /\ Complete(i, c)

PermittedTransition(path, content) ==
  \E c \in Proposals, s \in Terminal, i \in Identities :
    /\ i = IdentityOf[c]
    /\ \/ path = <<"claim", i, 2>> /\ content = <<c, s>>
       \/ path = <<"evidence", c>> /\ content = c
       \/ /\ path \in {<<"candidate", <<c, s>>>>, <<"receipt", <<c, s>>>>}
          /\ content = <<c, s>> /\ Holds(<<"claim", i, 2>>, <<c, s>>)
       \/ /\ path = <<"index", i, 2>> /\ content = <<c, s>>
          /\ Placed(i, c) /\ Recorded(i, c, s)

Permitted(path, content) ==
  \/ PermittedRun(path, content)
  \/ PermittedCreation(path, content)
  \/ PermittedTransition(path, content)

\* A step writes at most one path, and only where nothing was whole.
FilesGrow(path, content) ==
  /\ \A x, y : Holds(x, y) => Holds(x, y)'
  /\ \A x, y : Holds(x, y)' => Holds(x, y) \/ (x = path /\ y = content)
  /\ \A x : Exists(x)' => Exists(x) \/ x = path
-----------------------------------------------------------------------------
(***************************************************************************)
(* The plans.                                                              *)
(***************************************************************************)
LEMMA PlanOfCreate ==
  ASSUME NEW c
  PROVE  /\ Len(CreateSteps(c)) = 7
         /\ CreateSteps(c)[1] = Write(<<"claim", IdentityOf[c], 1>>, c)
         /\ CreateSteps(c)[2] = Write(<<"blob", BlobOf[c]>>, BlobOf[c])
         /\ CreateSteps(c)[3] = Write(<<"candidate", Created(c)>>, Created(c))
         /\ CreateSteps(c)[4] = Write(<<"receipt", Created(c)>>, Created(c))
         /\ CreateSteps(c)[5] = Write(<<"index", IdentityOf[c], 1>>, Created(c))
         /\ CreateSteps(c)[6] = Check(Creation(c))
         /\ CreateSteps(c)[7] = Write(<<"locator", IdentityOf[c]>>, Created(c))
         /\ \E S : CreateSteps(c) \in Seq(S)
<1> DEFINE a == Write(<<"claim", IdentityOf[c], 1>>, c)
           b == Write(<<"blob", BlobOf[c]>>, BlobOf[c])
           d == Write(<<"candidate", Created(c)>>, Created(c))
           e == Write(<<"receipt", Created(c)>>, Created(c))
           f == Write(<<"index", IdentityOf[c], 1>>, Created(c))
           g == Check(Creation(c))
           h == Write(<<"locator", IdentityOf[c]>>, Created(c))
           S == {a, b, d, e, f, g, h}
           t == <<a, b, d, e, f, g, h>>
<1>1. CreateSteps(c) = t
  BY DEF CreateSteps, ReceiptRecord, ReceiptIndex
<1> HIDE DEF a, b, d, e, f, g, h
<1>2. /\ t \in Seq(S) /\ Len(t) = 7 /\ t[1] = a /\ t[2] = b /\ t[3] = d
      /\ t[4] = e /\ t[5] = f /\ t[6] = g /\ t[7] = h
  OBVIOUS
<1> HIDE DEF t, S
<1> QED
  BY <1>1, <1>2 DEF a, b, d, e, f, g, h

\* The place of the record in the plan of a transition, and in that of a receipt.
RecordOfTransition(s) == IF s = "conformance-passed" THEN 3 ELSE 2
RecordOfReceipt(n)    == IF n = 1 THEN 1 ELSE 2

LEMMA PlanOfTransition ==
  ASSUME NEW c, NEW s
  PROVE  /\ Len(Transitions(c, s)) = RecordOfTransition(s) + 2
         /\ Transitions(c, s)[1] = Write(<<"claim", IdentityOf[c], 2>>, <<c, s>>)
         /\ s = "conformance-passed" => Transitions(c, s)[2] = Write(<<"evidence", c>>, c)
         /\ Transitions(c, s)[RecordOfTransition(s)] = Write(<<"candidate", <<c, s>>>>, <<c, s>>)
         /\ Transitions(c, s)[RecordOfTransition(s) + 1] = Write(<<"receipt", <<c, s>>>>, <<c, s>>)
         /\ Transitions(c, s)[RecordOfTransition(s) + 2] = Write(<<"index", IdentityOf[c], 2>>, <<c, s>>)
         /\ \E S : Transitions(c, s) \in Seq(S)
<1> DEFINE r == <<c, s>>
           a == Write(<<"claim", IdentityOf[c], 2>>, r)
           b == Write(<<"evidence", c>>, c)
           d == Write(<<"candidate", r>>, r)
           e == Write(<<"receipt", r>>, r)
           f == Write(<<"index", IdentityOf[c], 2>>, r)
           S == {a, b, d, e, f}
           t == Transitions(c, s)
           m == RecordOfTransition(s)
<1>1. t = IF s = "conformance-passed" THEN <<a, b, d, e, f>> ELSE <<a, d, e, f>>
  BY DEF Transitions, ReceiptRecord, ReceiptIndex
<1> HIDE DEF a, b, d, e, f, t
<1>2. /\ Len(t) = m + 2 /\ t[1] = a /\ t[m] = d /\ t[m + 1] = e /\ t[m + 2] = f
      /\ s = "conformance-passed" => t[2] = b
  BY <1>1 DEF RecordOfTransition
<1>3. <<a, b, d, e, f>> \in Seq(S) /\ <<a, d, e, f>> \in Seq(S)
  OBVIOUS
<1> HIDE DEF S
<1>4. t \in Seq(S)
  BY <1>1, <1>3, Zenon
<1> HIDE DEF m
<1> QED
  BY <1>2, <1>4 DEF a, b, d, e, f, t, m

LEMMA PlanOfReceipt ==
  ASSUME NEW e, NEW from, NEW n \in Nat \ {0}
  PROVE  /\ Len(AppendSteps(e, from, n)) = RecordOfReceipt(n) + 1
         /\ n > 1 => AppendSteps(e, from, n)[1] =
              Check({<<<<"index", e, n - 1>>, Receipt(e, from, n - 1)>>,
                     <<<<"receipt", Receipt(e, from, n - 1)>>, Receipt(e, from, n - 1)>>})
         /\ AppendSteps(e, from, n)[RecordOfReceipt(n)] =
              Write(<<"receipt", Receipt(e, from, n)>>, Receipt(e, from, n))
         /\ AppendSteps(e, from, n)[RecordOfReceipt(n) + 1] =
              Write(<<"index", e, n>>, Receipt(e, from, n))
         /\ \E S : AppendSteps(e, from, n) \in Seq(S)
<1> DEFINE r == Receipt(e, from, n)
           last == Receipt(e, from, n - 1)
           a == Check({<<<<"index", e, n - 1>>, last>>, <<<<"receipt", last>>, last>>})
           b == Write(<<"receipt", r>>, r)
           d == Write(<<"index", e, n>>, r)
           S == {a, b, d}
           t == AppendSteps(e, from, n)
           m == RecordOfReceipt(n)
<1>1. t = IF n = 1 THEN <<b, d>> ELSE <<a, b, d>>
  BY DEF AppendSteps, ReceiptRecord, ReceiptIndex
<1> HIDE DEF a, b, d, t
<1>2. /\ Len(t) = m + 1 /\ t[m] = b /\ t[m + 1] = d
      /\ n > 1 => t[1] = a
  BY <1>1 DEF RecordOfReceipt
<1>3. <<b, d>> \in Seq(S) /\ <<a, b, d>> \in Seq(S)
  OBVIOUS
<1> HIDE DEF S
<1>4. t \in Seq(S)
  BY <1>1, <1>3, Zenon
<1> HIDE DEF m
<1> QED
  BY <1>2, <1>4 DEF a, b, d, t, m
-----------------------------------------------------------------------------
(***************************************************************************)
(* Who writes a file has made what it announces.                           *)
(***************************************************************************)
LEMMA Contents ==
  /\ \A c \in Proposals : c # Torn /\ BlobOf[c] # Torn /\ Created(c) # Torn
  /\ \A c \in Proposals, s \in Terminal : <<c, s>> # Torn
  /\ \A e \in Executions, from \in Executions \cup {None}, n \in 1 .. Phases :
       Receipt(e, from, n) # Torn
<1>1. \A c \in Proposals : c # Torn /\ BlobOf[c] # Torn
  BY IntakeAssumption
<1>2. \A c \in Proposals, s \in {"quarantined"} \cup Terminal : <<c, s>> # Torn
  BY IntakeAssumption DEF Revisions
<1>3. \A e \in Executions, from \in Executions \cup {None}, n \in 1 .. Phases :
        <<e, from, n>> # Torn
  BY IntakeAssumption
<1> QED
  BY <1>1, <1>2, <1>3 DEF Receipt, Created

LEMMA PermittedIsNamed ==
  ASSUME NEW path, NEW content, Permitted(path, content)
  PROVE  content # Torn /\ path[1] \in Kinds
<1>1. CASE PermittedRun(path, content)
  BY <1>1, Contents DEF PermittedRun, Kinds
<1>2. CASE PermittedCreation(path, content)
  BY <1>2, Contents DEF PermittedCreation, Kinds
<1>3. CASE PermittedTransition(path, content)
  BY <1>3, Contents DEF PermittedTransition, Kinds
<1> QED
  BY <1>1, <1>2, <1>3 DEF Permitted

LEMMA PermittedReceipt ==
  ASSUME NEW e \in Executions, NEW n \in 1 .. Phases, NEW r, Permitted(<<"index", e, n>>, r)
  PROVE  Receipted(e, n, r)
<1>1. ~PermittedCreation(<<"index", e, n>>, r)
  BY IntakeAssumption DEF PermittedCreation
<1>2. ~PermittedTransition(<<"index", e, n>>, r)
  BY IntakeAssumption DEF PermittedTransition
<1> QED
  BY <1>1, <1>2 DEF Permitted, PermittedRun

LEMMA PermittedIndex ==
  ASSUME NEW i \in Identities, NEW r
  PROVE  /\ Permitted(<<"index", i, 1>>, r) =>
              \E c \in Proposals : r = Created(c) /\ Claims(i, c)
         /\ Permitted(<<"index", i, 2>>, r) =>
              \E c \in Proposals, s \in Terminal :
                r = <<c, s>> /\ Placed(i, c) /\ Recorded(i, c, s)
         /\ Permitted(<<"locator", i>>, r) =>
              \E c \in Proposals : r = Created(c) /\ Complete(i, c)
<1>1. /\ ~PermittedRun(<<"index", i, 1>>, r) /\ ~PermittedRun(<<"index", i, 2>>, r)
      /\ ~PermittedRun(<<"locator", i>>, r)
  BY IntakeAssumption DEF PermittedRun
<1>2. /\ ~PermittedTransition(<<"index", i, 1>>, r)
      /\ ~PermittedTransition(<<"locator", i>>, r)
  BY DEF PermittedTransition
<1>3. ~PermittedCreation(<<"index", i, 2>>, r)
  BY DEF PermittedCreation
<1>4. ASSUME PermittedCreation(<<"index", i, 1>>, r)
      PROVE  \E c \in Proposals : r = Created(c) /\ Claims(i, c)
  BY <1>4 DEF PermittedCreation
<1>5. ASSUME PermittedCreation(<<"locator", i>>, r)
      PROVE  \E c \in Proposals : r = Created(c) /\ Complete(i, c)
  BY <1>5 DEF PermittedCreation
<1>6. ASSUME PermittedTransition(<<"index", i, 2>>, r)
      PROVE  \E c \in Proposals, s \in Terminal :
               r = <<c, s>> /\ Placed(i, c) /\ Recorded(i, c, s)
  BY <1>6 DEF PermittedTransition
<1> QED
  BY <1>1, <1>2, <1>3, <1>4, <1>5, <1>6 DEF Permitted

LEMMA PermittedRecord ==
  ASSUME NEW c \in Proposals, NEW s \in Terminal, NEW r
  PROVE  /\ Permitted(<<"candidate", Created(c)>>, r) => Claims(IdentityOf[c], c)
         /\ Permitted(<<"candidate", <<c, s>>>>, r) =>
              Holds(<<"claim", IdentityOf[c], 2>>, <<c, s>>)
<1>1. Created(c) = <<c, "quarantined">> /\ s # "quarantined"
  BY DEF Created, Terminal
<1>2. ~PermittedRun(<<"candidate", Created(c)>>, r) /\ ~PermittedRun(<<"candidate", <<c, s>>>>, r)
  BY DEF PermittedRun
<1>3. ~PermittedTransition(<<"candidate", Created(c)>>, r)
  BY <1>1 DEF PermittedTransition, Terminal
<1>4. ~PermittedCreation(<<"candidate", <<c, s>>>>, r)
  BY <1>1 DEF PermittedCreation, Created
<1>5. PermittedCreation(<<"candidate", Created(c)>>, r) => Claims(IdentityOf[c], c)
  BY <1>1 DEF PermittedCreation, Created
<1>6. PermittedTransition(<<"candidate", <<c, s>>>>, r) =>
        Holds(<<"claim", IdentityOf[c], 2>>, <<c, s>>)
  BY DEF PermittedTransition
<1> QED
  BY <1>2, <1>3, <1>4, <1>5, <1>6 DEF Permitted

-----------------------------------------------------------------------------
(***************************************************************************)
(* What a file says stays true.                                            *)
(***************************************************************************)
LEMMA Kept ==
  ASSUME \A x, y : Holds(x, y) => Holds(x, y)'
  PROVE  /\ \A i, c : Claims(i, c) => Claims(i, c)'
         /\ \A e : HasRun(e) => HasRun(e)'
         /\ \A i, c : Placed(i, c) => Placed(i, c)'
         /\ \A i, c, s : Recorded(i, c, s) => Recorded(i, c, s)'
         /\ \A e, n, r : Receipted(e, n, r) => Receipted(e, n, r)'
         /\ \A i, c : Complete(i, c) => Complete(i, c)'
<1>1. \A i, c : Claims(i, c) => Claims(i, c)'
  BY DEF Claims
<1>2. \A e : HasRun(e) => HasRun(e)'
  <2>1. ASSUME NEW x, Readable(x) PROVE Readable(x)'
    <3>1. Holds(x, file[x])
      BY <2>1 DEF Readable, Holds, Whole
    <3>2. PICK y : y = file[x]
      OBVIOUS
    <3>3. Holds(x, y)'
      BY <3>1, <3>2
    <3> QED
      BY <3>3 DEF Readable, Holds, Whole
  <2> QED
    BY <2>1 DEF HasRun
<1>3. \A i, c : Placed(i, c) => Placed(i, c)'
  BY DEF Placed
<1>4. \A i, c, s : Recorded(i, c, s) => Recorded(i, c, s)'
  BY DEF Recorded
<1>5. \A e, n, r : Receipted(e, n, r) => Receipted(e, n, r)'
  BY DEF Receipted
<1>6. \A i, c : Complete(i, c) => Complete(i, c)'
  BY <1>2 DEF Complete
<1> QED
  BY <1>1, <1>2, <1>3, <1>4, <1>5, <1>6

LEMMA FilesFitStep ==
  ASSUME FilesFit, NEW path, NEW content, Permitted(path, content), FilesGrow(path, content)
  PROVE  FilesFit'
<1>1. /\ \A x, y : Holds(x, y) => Holds(x, y)'
      /\ \A x, y : Holds(x, y)' => Holds(x, y) \/ (x = path /\ y = content)
      /\ \A x : Exists(x)' => Exists(x) \/ x = path
  BY DEF FilesGrow
<1>2. FilesNamed'
  BY <1>1, PermittedIsNamed DEF FilesFit, FilesNamed, Kinds
<1>3. RunsFit'
  <2> SUFFICES ASSUME NEW e \in Executions, NEW n \in 1 .. Phases, NEW r,
                      Holds(<<"index", e, n>>, r)'
               PROVE  Receipted(e, n, r)'
    BY DEF RunsFit
  <2>1. Receipted(e, n, r)
    BY <1>1, PermittedReceipt DEF FilesFit, RunsFit
  <2> QED
    BY <1>1, <2>1, Kept
<1>4. CreationsFit'
  <2>1. ASSUME NEW c \in Proposals, Exists(<<"candidate", Created(c)>>)'
        PROVE  Claims(IdentityOf[c], c)'
    <3>1. Claims(IdentityOf[c], c)
      <4>1. CASE Exists(<<"candidate", Created(c)>>)
        BY <4>1 DEF FilesFit, CreationsFit
      <4>2. CASE ~Exists(<<"candidate", Created(c)>>)
        <5>1. Permitted(<<"candidate", Created(c)>>, content)
          BY <1>1, <2>1, <4>2
        <5> QED
          BY <5>1, PermittedRecord DEF Terminal
      <4> QED
        BY <4>1, <4>2
    <3> QED
      BY <1>1, <3>1, Kept
  <2>2. ASSUME NEW i \in Identities, NEW r, Holds(<<"index", i, 1>>, r)'
        PROVE  \E c \in Proposals : r = Created(c) /\ Claims(i, c)'
    <3>1. \E c \in Proposals : r = Created(c) /\ Claims(i, c)
      <4>1. CASE Holds(<<"index", i, 1>>, r)
        BY <4>1 DEF FilesFit, CreationsFit
      <4>2. CASE ~Holds(<<"index", i, 1>>, r)
        <5>1. Permitted(<<"index", i, 1>>, r)
          BY <1>1, <2>2, <4>2
        <5> QED
          BY <5>1, PermittedIndex
      <4> QED
        BY <4>1, <4>2
    <3> QED
      BY <1>1, <3>1, Kept
  <2>3. ASSUME NEW i \in Identities, NEW r, Holds(<<"locator", i>>, r)'
        PROVE  \E c \in Proposals : r = Created(c) /\ Complete(i, c)'
    <3>1. \E c \in Proposals : r = Created(c) /\ Complete(i, c)
      <4>1. CASE Holds(<<"locator", i>>, r)
        BY <4>1 DEF FilesFit, CreationsFit
      <4>2. CASE ~Holds(<<"locator", i>>, r)
        <5>1. Permitted(<<"locator", i>>, r)
          BY <1>1, <2>3, <4>2
        <5> QED
          BY <5>1, PermittedIndex
      <4> QED
        BY <4>1, <4>2
    <3> QED
      BY <1>1, <3>1, Kept
  <2> QED
    BY <2>1, <2>2, <2>3 DEF CreationsFit
<1>5. TransitionsFit'
  <2>1. ASSUME NEW c \in Proposals, NEW s \in Terminal, Exists(<<"candidate", <<c, s>>>>)'
        PROVE  Holds(<<"claim", IdentityOf[c], 2>>, <<c, s>>)'
    <3>1. Holds(<<"claim", IdentityOf[c], 2>>, <<c, s>>)
      <4>1. CASE Exists(<<"candidate", <<c, s>>>>)
        BY <4>1 DEF FilesFit, TransitionsFit
      <4>2. CASE ~Exists(<<"candidate", <<c, s>>>>)
        <5>1. Permitted(<<"candidate", <<c, s>>>>, content)
          BY <1>1, <2>1, <4>2
        <5> QED
          BY <5>1, PermittedRecord
      <4> QED
        BY <4>1, <4>2
    <3> QED
      BY <1>1, <3>1
  <2>2. ASSUME NEW i \in Identities, NEW r, Holds(<<"index", i, 2>>, r)'
        PROVE  \E c \in Proposals, s \in Terminal :
                 r = <<c, s>> /\ Placed(i, c)' /\ Recorded(i, c, s)'
    <3>1. \E c \in Proposals, s \in Terminal :
            r = <<c, s>> /\ Placed(i, c) /\ Recorded(i, c, s)
      <4>1. CASE Holds(<<"index", i, 2>>, r)
        BY <4>1 DEF FilesFit, TransitionsFit
      <4>2. CASE ~Holds(<<"index", i, 2>>, r)
        <5>1. Permitted(<<"index", i, 2>>, r)
          BY <1>1, <2>2, <4>2
        <5> QED
          BY <5>1, PermittedIndex
      <4> QED
        BY <4>1, <4>2
    <3> QED
      BY <1>1, <3>1, Kept
  <2> QED
    BY <2>1, <2>2 DEF TransitionsFit
<1> QED
  BY <1>2, <1>3, <1>4, <1>5 DEF FilesFit

LEMMA FilesSame ==
  ASSUME UNCHANGED file
  PROVE  /\ \A x, y : Holds(x, y)' <=> Holds(x, y)
         /\ FilesFit => FilesFit'
<1>1. /\ \A x, y : Holds(x, y)' <=> Holds(x, y)
      /\ \A x : Exists(x)' <=> Exists(x)
  BY DEF Holds, Whole, Exists
<1>2. /\ \A i, c : Claims(i, c) => Claims(i, c)'
      /\ \A i, c : Placed(i, c) => Placed(i, c)'
      /\ \A i, c, s : Recorded(i, c, s) => Recorded(i, c, s)'
      /\ \A e, n, r : Receipted(e, n, r) => Receipted(e, n, r)'
      /\ \A i, c : Complete(i, c) => Complete(i, c)'
  BY <1>1, Kept
<1>3. FilesNamed => FilesNamed'
  BY <1>1 DEF FilesNamed
<1>4. RunsFit => RunsFit'
  BY <1>1, <1>2 DEF RunsFit
<1>5. CreationsFit => CreationsFit'
  BY <1>1, <1>2 DEF CreationsFit
<1>6. TransitionsFit => TransitionsFit'
  BY <1>1, <1>2 DEF TransitionsFit
<1> QED
  BY <1>1, <1>3, <1>4, <1>5, <1>6 DEF FilesFit
-----------------------------------------------------------------------------
(***************************************************************************)
(* The step of a plan that comes next.                                     *)
(***************************************************************************)
LEMMA NextOfPlan ==
  ASSUME NEW plan, NEW todo, Left(todo, plan), todo # <<>>, Len(plan) \in Nat
  PROVE  \E k \in 0 .. Len(plan) - 1 :
           /\ Len(todo) = Len(plan) - k /\ Head(todo) = plan[k + 1]
           /\ \A j \in 1 .. k : Done(plan[j])
<1>1. PICK S : todo \in Seq(S)
  BY DEF Left
<1>2. PICK k \in 0 .. Len(plan) :
        /\ Len(todo) = Len(plan) - k
        /\ \A j \in 1 .. Len(todo) : todo[j] = plan[k + j]
        /\ \A j \in 1 .. k : Done(plan[j])
  BY DEF Left
<1>3. Len(todo) \in Nat \ {0}
  BY <1>1, EmptySeq, LenProperties
<1>4. Head(todo) = todo[1]
  BY <1>1, <1>3, HeadTailProperties
<1>5. todo[1] = plan[k + 1]
  BY <1>2, <1>3
<1> QED
  BY <1>2, <1>3, <1>4, <1>5

LEMMA StepKinds ==
  ASSUME NEW path, NEW content, NEW facts
  PROVE  /\ Write(path, content).kind = "write" /\ Write(path, content).path = path
         /\ Write(path, content).content = content
         /\ Check(facts).kind = "check" /\ Check(facts).facts = facts
         /\ Done(Write(path, content)) <=> Holds(path, content)
         /\ Done(Check(facts)) <=> \A fact \in facts : Holds(fact[1], fact[2])
  BY DEF Write, Check, Done

\* Each step of a plan either writes what it may, or checks contents that files hold.
Sound(step) ==
  \/ step.kind = "write" /\ Permitted(step.path, step.content)
  \/ step.kind = "check" /\ \A fact \in step.facts : fact[2] # Torn

LEMMA SoundRun ==
  ASSUME NEW e \in Executions, NEW from \in Executions \cup {None}, NEW n \in 1 .. Phases,
         NEW plan, plan = AppendSteps(e, from, n), NEW k \in 0 .. Len(plan) - 1,
         \A j \in 1 .. k : Done(plan[j])
  PROVE  Sound(plan[k + 1])
<1>1. PICK r, last, m : /\ r = Receipt(e, from, n) /\ last = Receipt(e, from, n - 1)
                        /\ m = RecordOfReceipt(n)
  OBVIOUS
<1>2. n \in Nat \ {0}
  BY IntakeAssumption
<1>3. /\ Len(plan) = m + 1
      /\ n > 1 => plan[1] = Check({<<<<"index", e, n - 1>>, last>>, <<<<"receipt", last>>, last>>})
      /\ plan[m] = Write(<<"receipt", r>>, r)
      /\ plan[m + 1] = Write(<<"index", e, n>>, r)
  BY <1>1, <1>2, PlanOfReceipt
<1>4. m \in {1, 2} /\ (n > 1 <=> m = 2)
  BY <1>1, <1>2 DEF RecordOfReceipt
<1>5. CASE k = 0 /\ m = 2
  <2>1. n - 1 \in 1 .. Phases
    BY <1>4, <1>5, IntakeAssumption
  <2>2. last # Torn
    BY <1>1, <2>1, Contents
  <2> QED
    BY <1>3, <1>4, <1>5, <2>2, StepKinds DEF Sound
<1>6. CASE k + 1 = m
  <2>1. Permitted(<<"receipt", r>>, r)
    BY <1>1 DEF Permitted, PermittedRun
  <2>2. plan[k + 1] = Write(<<"receipt", r>>, r)
    BY <1>3, <1>4, <1>6
  <2> QED
    BY <2>1, <2>2, StepKinds DEF Sound
<1>7. CASE k = m
  <2>1. Holds(<<"receipt", r>>, r)
    BY <1>3, <1>4, <1>7, StepKinds
  <2>2. ASSUME n > 1 PROVE Holds(<<"index", e, n - 1>>, last)
    <3>1. PICK facts, at : /\ at = <<<<"index", e, n - 1>>, last>>
                           /\ facts = {at, <<<<"receipt", last>>, last>>}
      OBVIOUS
    <3>2. Done(Check(facts))
      BY <1>3, <1>4, <1>7, <2>2, <3>1
    <3>3. at \in facts /\ \A fact \in facts : Holds(fact[1], fact[2])
      BY <3>1, <3>2, StepKinds
    <3>4. Holds(at[1], at[2])
      BY <3>3
    <3> QED
      BY <3>1, <3>4
  <2>3. Receipted(e, n, r)
    BY <1>1, <2>1, <2>2 DEF Receipted
  <2>4. Permitted(<<"index", e, n>>, r)
    BY <1>1, <2>3 DEF Permitted, PermittedRun
  <2>5. plan[k + 1] = Write(<<"index", e, n>>, r)
    BY <1>3, <1>4, <1>7
  <2> QED
    BY <2>4, <2>5, StepKinds DEF Sound
<1> QED
  BY <1>3, <1>4, <1>5, <1>6, <1>7

LEMMA SoundCreation ==
  ASSUME NEW c \in Proposals, HasRun(EvidenceOf[c]),
         NEW plan, plan = CreateSteps(c), NEW k \in 0 .. Len(plan) - 1,
         \A j \in 1 .. k : Done(plan[j])
  PROVE  Sound(plan[k + 1])
<1>1. /\ Len(plan) = 7
      /\ plan[1] = Write(<<"claim", IdentityOf[c], 1>>, c)
      /\ plan[2] = Write(<<"blob", BlobOf[c]>>, BlobOf[c])
      /\ plan[3] = Write(<<"candidate", Created(c)>>, Created(c))
      /\ plan[4] = Write(<<"receipt", Created(c)>>, Created(c))
      /\ plan[5] = Write(<<"index", IdentityOf[c], 1>>, Created(c))
      /\ plan[6] = Check(Creation(c))
      /\ plan[7] = Write(<<"locator", IdentityOf[c]>>, Created(c))
  BY PlanOfCreate
<1>2. PICK i \in Identities : i = IdentityOf[c]
  BY IntakeAssumption
<1>3. k >= 1 => Claims(i, c)
  BY <1>1, <1>2, StepKinds DEF Claims
<1>4. CASE k = 0
  <2>1. Permitted(<<"claim", i, 1>>, c)
    BY <1>2 DEF Permitted, PermittedCreation
  <2> QED
    BY <1>1, <1>2, <1>4, <2>1, StepKinds DEF Sound
<1>5. CASE k = 1
  <2>1. Permitted(<<"blob", BlobOf[c]>>, BlobOf[c])
    BY <1>2 DEF Permitted, PermittedCreation
  <2> QED
    BY <1>1, <1>5, <2>1, StepKinds DEF Sound
<1>6. CASE k \in 2 .. 4
  <2>1. /\ Permitted(<<"candidate", Created(c)>>, Created(c))
        /\ Permitted(<<"receipt", Created(c)>>, Created(c))
        /\ Permitted(<<"index", i, 1>>, Created(c))
    BY <1>2, <1>3, <1>6 DEF Permitted, PermittedCreation
  <2> QED
    BY <1>1, <1>2, <1>6, <2>1, StepKinds DEF Sound
<1>7. CASE k = 5
  <2>1. \A fact \in Creation(c) : fact[2] # Torn
    BY Contents DEF Creation
  <2> QED
    BY <1>1, <1>7, <2>1, StepKinds DEF Sound
<1>8. CASE k = 6
  <2>1. Complete(i, c)
    BY <1>1, <1>2, <1>8, StepKinds DEF Complete
  <2>2. Permitted(<<"locator", i>>, Created(c))
    BY <1>2, <2>1 DEF Permitted, PermittedCreation
  <2> QED
    BY <1>1, <1>2, <1>8, <2>2, StepKinds DEF Sound
<1> QED
  BY <1>1, <1>4, <1>5, <1>6, <1>7, <1>8

LEMMA SoundTransition ==
  ASSUME NEW c \in Proposals, NEW s \in Terminal, Placed(IdentityOf[c], c),
         NEW plan, plan = Transitions(c, s), NEW k \in 0 .. Len(plan) - 1,
         \A j \in 1 .. k : Done(plan[j])
  PROVE  Sound(plan[k + 1])
<1>1. PICK r, m : r = <<c, s>> /\ m = RecordOfTransition(s)
  OBVIOUS
<1>2. /\ Len(plan) = m + 2
      /\ plan[1] = Write(<<"claim", IdentityOf[c], 2>>, r)
      /\ s = "conformance-passed" => plan[2] = Write(<<"evidence", c>>, c)
      /\ plan[m] = Write(<<"candidate", r>>, r)
      /\ plan[m + 1] = Write(<<"receipt", r>>, r)
      /\ plan[m + 2] = Write(<<"index", IdentityOf[c], 2>>, r)
  BY <1>1, PlanOfTransition
<1>3. m \in {2, 3} /\ (m = 3 <=> s = "conformance-passed")
  BY <1>1 DEF RecordOfTransition
<1>4. PICK i \in Identities : i = IdentityOf[c]
  BY IntakeAssumption
<1>5. k >= 1 => Holds(<<"claim", i, 2>>, r)
  BY <1>2, <1>4, StepKinds
<1>6. CASE k = 0
  <2>1. Permitted(<<"claim", i, 2>>, r)
    BY <1>1, <1>4 DEF Permitted, PermittedTransition
  <2> QED
    BY <1>2, <1>4, <1>6, <2>1, StepKinds DEF Sound
<1>7. CASE k = 1 /\ m = 3
  <2>1. Permitted(<<"evidence", c>>, c)
    BY <1>4 DEF Permitted, PermittedTransition
  <2> QED
    BY <1>2, <1>3, <1>7, <2>1, StepKinds DEF Sound
<1>8. CASE k + 1 \in {m, m + 1}
  <2>1. Holds(<<"claim", i, 2>>, <<c, s>>)
    BY <1>1, <1>3, <1>5, <1>8
  <2>2. Permitted(<<"candidate", r>>, r) /\ Permitted(<<"receipt", r>>, r)
    BY <1>1, <1>4, <2>1 DEF Permitted, PermittedTransition
  <2>3. plan[k + 1] \in {Write(<<"candidate", r>>, r), Write(<<"receipt", r>>, r)}
    BY <1>2, <1>3, <1>8
  <2> QED
    BY <2>3, <2>2, StepKinds DEF Sound
<1>9. CASE k = m + 1
  <2>1. /\ Holds(<<"candidate", r>>, r) /\ Holds(<<"receipt", r>>, r)
        /\ s = "conformance-passed" => Holds(<<"evidence", c>>, c)
    BY <1>2, <1>3, <1>9, StepKinds
  <2>2. Recorded(i, c, s)
    BY <1>1, <1>3, <1>5, <1>9, <2>1 DEF Recorded
  <2>3. Permitted(<<"index", i, 2>>, r)
    BY <1>1, <1>4, <2>2 DEF Permitted, PermittedTransition
  <2> QED
    BY <1>2, <1>3, <1>4, <1>9, <2>3, StepKinds DEF Sound
<1> QED
  BY <1>2, <1>3, <1>6, <1>7, <1>8, <1>9

LEMMA PlanLength ==
  ASSUME NEW op, NEW r, SubjectFits(op, r)
  PROVE  Len(Plan(op, r)) \in Nat /\ \E S : Plan(op, r) \in Seq(S)
<1>1. \E S : Plan(op, r) \in Seq(S)
  <2>1. CASE op = "evidence"
    <3>1. PICK e \in Executions, from \in Executions \cup {None}, n \in 1 .. Phases :
            r = Receipt(e, from, n)
      BY <2>1 DEF SubjectFits
    <3>2. Plan(op, r) = AppendSteps(e, from, n)
      BY <2>1, <3>1 DEF Plan, Receipt
    <3>3. n \in Nat \ {0}
      BY IntakeAssumption
    <3>4. \E S : AppendSteps(e, from, n) \in Seq(S)
      BY <3>3, PlanOfReceipt
    <3> QED
      BY <3>2, <3>4
  <2>2. CASE op = "create"
    <3>1. Plan(op, r) = CreateSteps(r[1])
      BY <2>2 DEF Plan
    <3>2. \E S : CreateSteps(r[1]) \in Seq(S)
      BY PlanOfCreate
    <3> QED
      BY <3>1, <3>2
  <2>3. CASE op = "transition"
    <3>1. Plan(op, r) = Transitions(r[1], r[2])
      BY <2>3 DEF Plan
    <3>2. \E S : Transitions(r[1], r[2]) \in Seq(S)
      BY PlanOfTransition
    <3> QED
      BY <3>1, <3>2
  <2>4. CASE op \notin {"evidence", "create", "transition"}
    <3>1. Plan(op, r) = <<>>
      BY <2>4 DEF Plan
    <3> QED
      BY <3>1, EmptySeq
  <2> QED
    BY <2>1, <2>2, <2>3, <2>4
<1>2. PICK S : Plan(op, r) \in Seq(S)
  BY <1>1
<1>3. Len(Plan(op, r)) \in Nat
  BY <1>2, LenProperties
<1> QED
  BY <1>1, <1>3

LEMMA SoundHead ==
  ASSUME NEW op, NEW r, NEW todo, SubjectFits(op, r), Left(todo, Plan(op, r)), todo # <<>>
  PROVE  Sound(Head(todo))
<1>1. PICK plan : plan = Plan(op, r)
  OBVIOUS
<1>2. Len(plan) \in Nat
  BY <1>1, PlanLength
<1>3. Left(todo, plan)
  BY <1>1
<1>4. PICK k \in 0 .. Len(plan) - 1 :
        Head(todo) = plan[k + 1] /\ \A j \in 1 .. k : Done(plan[j])
  BY <1>2, <1>3, NextOfPlan
<1>5. CASE op = "evidence"
  <2>1. PICK e \in Executions, from \in Executions \cup {None}, n \in 1 .. Phases :
          r = Receipt(e, from, n)
    BY <1>5 DEF SubjectFits
  <2>2. plan = AppendSteps(e, from, n)
    BY <1>1, <1>5, <2>1 DEF Plan, Receipt
  <2> QED
    BY <1>4, <2>2, SoundRun
<1>6. CASE op = "create"
  <2>1. PICK c \in Proposals : r = Created(c) /\ HasRun(EvidenceOf[c])
    BY <1>6 DEF SubjectFits
  <2>2. plan = CreateSteps(c)
    BY <1>1, <1>6, <2>1 DEF Plan, Created
  <2> QED
    BY <1>4, <2>1, <2>2, SoundCreation
<1>7. CASE op = "transition"
  <2>1. PICK c \in Proposals, s \in Terminal : r = <<c, s>> /\ Placed(IdentityOf[c], c)
    BY <1>7 DEF SubjectFits
  <2>2. plan = Transitions(c, s)
    BY <1>1, <1>7, <2>1 DEF Plan
  <2> QED
    BY <1>4, <2>1, <2>2, SoundTransition
<1>8. CASE op \notin {"evidence", "create", "transition"}
  <2>1. Len(plan) = 0
    BY <1>1, <1>8, EmptySeq DEF Plan
  <2> QED
    BY <1>4, <2>1
<1> QED
  BY <1>5, <1>6, <1>7, <1>8
-----------------------------------------------------------------------------
(***************************************************************************)
(* A process that goes on.                                                 *)
(***************************************************************************)
LEMMA DoneKept ==
  ASSUME \A x, y : Holds(x, y) => Holds(x, y)', NEW step, Done(step)
  PROVE  Done(step)'
  BY DEF Done

LEMMA LeftKept ==
  ASSUME \A x, y : Holds(x, y) => Holds(x, y)', NEW todo, NEW plan, Left(todo, plan)
  PROVE  Left(todo, plan)'
  BY DoneKept DEF Left

LEMMA LeftAfter ==
  ASSUME \A x, y : Holds(x, y) => Holds(x, y)', NEW todo, NEW plan, Left(todo, plan),
         Len(plan) \in Nat, todo # <<>>, NEW step, step = Head(todo), Done(step)'
  PROVE  Left(Tail(todo), plan)'
<1>1. PICK S : todo \in Seq(S)
  BY DEF Left
<1>2. PICK k \in 0 .. Len(plan) :
        /\ Len(todo) = Len(plan) - k
        /\ \A j \in 1 .. Len(todo) : todo[j] = plan[k + j]
        /\ \A j \in 1 .. k : Done(plan[j])
  BY DEF Left
<1>3. Len(todo) \in Nat \ {0}
  BY <1>1, EmptySeq, LenProperties
<1>4. PICK rest : rest = Tail(todo)
  OBVIOUS
<1>5. /\ rest \in Seq(S) /\ Len(rest) = Len(todo) - 1
      /\ \A j \in 1 .. Len(rest) : rest[j] = todo[j + 1]
      /\ step = todo[1]
  BY <1>1, <1>3, <1>4, HeadTailProperties
<1>6. k + 1 \in 0 .. Len(plan) /\ Len(rest) = Len(plan) - (k + 1)
  BY <1>2, <1>3, <1>5
<1>7. \A j \in 1 .. Len(rest) : rest[j] = plan[(k + 1) + j]
  BY <1>2, <1>3, <1>5
<1>8. plan[k + 1] = step
  BY <1>2, <1>3, <1>5
<1>9. ASSUME NEW j \in 1 .. k + 1 PROVE Done(plan[j])'
  <2>1. PICK one : one = plan[j]
    OBVIOUS
  <2>2. Done(one)'
    <3>1. CASE j = k + 1
      BY <1>8, <2>1, <3>1
    <3>2. CASE j # k + 1
      <4>1. Done(one)
        BY <1>2, <2>1, <3>2
      <4> QED
        BY <4>1, DoneKept
    <3> QED
      BY <3>1, <3>2
  <2> QED
    BY <2>1, <2>2
<1>10. Left(rest, plan)'
  BY <1>5, <1>6, <1>7, <1>9 DEF Left
<1> QED
  BY <1>4, <1>10

LEMMA SubjectKept ==
  ASSUME \A x, y : Holds(x, y) => Holds(x, y)', NEW op, NEW r, SubjectFits(op, r)
  PROVE  SubjectFits(op, r)'
<1>1. /\ \A e : HasRun(e) => HasRun(e)'
      /\ \A i, c : Placed(i, c) => Placed(i, c)'
  BY Kept
<1> QED
  BY <1>1 DEF SubjectFits

LEMMA ProgressKept ==
  ASSUME \A x, y : Holds(x, y) => Holds(x, y)', NEW p, Progress(p), call'[p] = call[p]
  PROVE  Progress(p)'
<1>1. PICK op, r, todo, filling :
        /\ call[p] = [op |-> op, subject |-> r, todo |-> todo, filling |-> filling]
        /\ filling \in BOOLEAN /\ SubjectFits(op, r) /\ Left(todo, Plan(op, r))
  BY DEF Progress
<1>2. PICK plan : plan = Plan(op, r)
  OBVIOUS
<1>3. SubjectFits(op, r)' /\ Left(todo, plan)'
  BY <1>1, <1>2, SubjectKept, LeftKept
<1> QED
  BY <1>1, <1>2, <1>3 DEF Progress

\* The step of one process leaves the others where they are.
Only(p) ==
  /\ call' = [q \in Processes |-> call'[q]]
  /\ \A q \in Processes \ {p} : call'[q] = call[q]

LEMMA CallsKept ==
  ASSUME \A x, y : Holds(x, y) => Holds(x, y)', CallsFit, NEW p \in Processes, Only(p),
         Progress(p)', call'[p].filling = FALSE,
         \A q \in Processes \ {p} : \A path : Opened(q, path) => Whole(path, Torn)'
  PROVE  CallsFit'
<1>1. ASSUME NEW q \in Processes PROVE Progress(q)'
  <2>1. CASE q = p
    BY <2>1
  <2>2. CASE q # p
    BY <2>2, ProgressKept DEF CallsFit, Only
  <2> QED
    BY <2>1, <2>2
<1>2. \A path : ~Opened(p, path)'
  BY DEF Opened
<1>3. ASSUME NEW q \in Processes \ {p}
      PROVE  /\ \A path : Opened(q, path)' <=> Opened(q, path)
             /\ call'[q].filling => Runs(q, "write")'
  <2>1. call'[q] = call[q]
    BY DEF Only
  <2> QED
    BY <2>1 DEF CallsFit, FillsFit, Opened, Runs
<1>4. FillsFit'
  <2>1. \A q \in Processes : call'[q].filling => Runs(q, "write")'
    BY <1>3
  <2>2. \A q \in Processes : \A path : Opened(q, path)' => Whole(path, Torn)'
    BY <1>2, <1>3
  <2>3. \A o, q \in Processes : \A path : Opened(o, path)' /\ Opened(q, path)' => o = q
    BY <1>2, <1>3 DEF CallsFit, FillsFit
  <2> QED
    BY <2>1, <2>2, <2>3 DEF FillsFit
<1> QED
  BY <1>1, <1>4 DEF CallsFit, Only

Call(op, r, todo, filling) == [op |-> op, subject |-> r, todo |-> todo, filling |-> filling]

LEMMA CallFields ==
  ASSUME NEW op, NEW r, NEW todo, NEW filling, NEW old, old = Call(op, r, todo, filling)
  PROVE  old.op = op /\ old.subject = r /\ old.todo = todo /\ old.filling = filling
  BY DEF Call

LEMMA CallOp ==
  ASSUME NEW op, NEW r, NEW todo, NEW filling, NEW old, old = Call(op, r, todo, filling),
         NEW value
  PROVE  [old EXCEPT !.op = value] = Call(value, r, todo, filling)
  BY DEF Call

LEMMA CallSubject ==
  ASSUME NEW op, NEW r, NEW todo, NEW filling, NEW old, old = Call(op, r, todo, filling),
         NEW value
  PROVE  [old EXCEPT !.subject = value] = Call(op, value, todo, filling)
  BY DEF Call

LEMMA CallTodo ==
  ASSUME NEW op, NEW r, NEW todo, NEW filling, NEW old, old = Call(op, r, todo, filling),
         NEW value
  PROVE  [old EXCEPT !.todo = value] = Call(op, r, value, filling)
  BY DEF Call

LEMMA CallFilling ==
  ASSUME NEW op, NEW r, NEW todo, NEW filling, NEW old, old = Call(op, r, todo, filling),
         NEW value
  PROVE  [old EXCEPT !.filling = value] = Call(op, r, todo, value)
  BY DEF Call

LEMMA CallOpens ==
  ASSUME NEW op, NEW r, NEW todo, NEW filling, NEW old, old = Call(op, r, todo, filling)
  PROVE  [old EXCEPT !.filling = TRUE] = Call(op, r, todo, TRUE)
<1>1. PICK f : f = TRUE
  OBVIOUS
<1>2. [old EXCEPT !.filling = f] = Call(op, r, todo, f)
  BY CallFilling
<1>3. [old EXCEPT !.filling = f] = [old EXCEPT !.filling = TRUE]
  BY <1>1, Zenon
<1>4. Call(op, r, todo, f) = Call(op, r, todo, TRUE)
  BY <1>1, Zenon
<1> QED
  BY <1>2, <1>3, <1>4, Zenon

LEMMA CallCloses ==
  ASSUME NEW op, NEW r, NEW todo, NEW filling, NEW old, old = Call(op, r, todo, filling)
  PROVE  [old EXCEPT !.filling = FALSE] = Call(op, r, todo, FALSE)
<1>1. PICK f : f = FALSE
  OBVIOUS
<1>2. [old EXCEPT !.filling = f] = Call(op, r, todo, f)
  BY CallFilling
<1>3. [old EXCEPT !.filling = f] = [old EXCEPT !.filling = FALSE]
  BY <1>1, Zenon
<1>4. Call(op, r, todo, f) = Call(op, r, todo, FALSE)
  BY <1>1, Zenon
<1> QED
  BY <1>2, <1>3, <1>4, Zenon

LEMMA CallOf ==
  ASSUME NEW p, Progress(p)
  PROVE  \E op, r, todo, filling :
           /\ call[p] = Call(op, r, todo, filling) /\ filling \in BOOLEAN
           /\ SubjectFits(op, r) /\ Left(todo, Plan(op, r))
  BY DEF Progress, Call

LEMMA ProgressOf ==
  ASSUME NEW p, NEW op, NEW r, NEW todo, NEW filling \in BOOLEAN,
         call'[p] = Call(op, r, todo, filling), SubjectFits(op, r)', Left(todo, Plan(op, r))'
  PROVE  Progress(p)'
<1>1. PICK plan : plan = Plan(op, r)
  OBVIOUS
<1>2. Left(todo, plan)'
  BY <1>1
<1>3. call'[p] = [op |-> op, subject |-> r, todo |-> todo, filling |-> filling]
  BY DEF Call
<1> QED
  BY <1>1, <1>2, <1>3 DEF Progress

LEMMA Advanced ==
  ASSUME \A x, y : Holds(x, y) => Holds(x, y)', CallsFit, NEW p \in Processes, Advance(p),
         call[p].todo # <<>>, NEW step, step = Head(call[p].todo), Done(step)',
         \A q \in Processes \ {p} : \A path : Opened(q, path) => Whole(path, Torn)'
  PROVE  CallsFit'
<1>1. PICK op, r, todo, filling :
        /\ call[p] = Call(op, r, todo, filling) /\ filling \in BOOLEAN
        /\ SubjectFits(op, r) /\ Left(todo, Plan(op, r))
  BY CallOf DEF CallsFit
<1>2. call[p].todo = todo
  BY <1>1, CallFields
<1>3. call'[p] = Call(op, r, Tail(todo), FALSE) /\ Only(p)
  <2>1. PICK old, value, new :
          /\ old = call[p] /\ value = Tail(todo) /\ new = [old EXCEPT !.todo = value]
    OBVIOUS
  <2>2. new = Call(op, r, value, filling)
    <3>1. old = Call(op, r, todo, filling)
      BY <1>1, <2>1
    <3>2. [old EXCEPT !.todo = value] = Call(op, r, value, filling)
      BY <3>1, CallTodo
    <3> QED
      BY <2>1, <3>2
  <2>3. [new EXCEPT !.filling = FALSE] = Call(op, r, value, FALSE)
    BY <2>2, CallCloses, Zenon
  <2> DEFINE half == [call EXCEPT ![p].todo = Tail(@)]
  <2>4. call' = [half EXCEPT ![p].filling = FALSE]
    BY DEF Advance
  <2>5. half = [q \in Processes |-> IF q = p THEN new ELSE call[q]]
    BY <1>2, <2>1 DEF CallsFit
  <2> HIDE DEF half
  <2>6. PICK last : last = [new EXCEPT !.filling = FALSE]
    OBVIOUS
  <2>7. call' = [q \in Processes |-> IF q = p THEN last ELSE call[q]]
    BY <2>4, <2>5, <2>6
  <2>8. last = Call(op, r, Tail(todo), FALSE)
    BY <2>1, <2>3, <2>6, Zenon
  <2>9. call'[p] = last /\ Only(p)
    BY <2>7 DEF Only
  <2> QED
    BY <2>8, <2>9, Zenon
<1>4. PICK plan : plan = Plan(op, r)
  OBVIOUS
<1>5. Len(plan) \in Nat
  BY <1>1, <1>4, PlanLength
<1>6. Left(Tail(todo), plan)'
  BY <1>1, <1>2, <1>4, <1>5, LeftAfter
<1>7. SubjectFits(op, r)'
  BY <1>1, SubjectKept
<1>8. Progress(p)'
  BY <1>3, <1>4, <1>6, <1>7, ProgressOf
<1>9. call'[p].filling = FALSE
  BY <1>3 DEF Call
<1> QED
  BY <1>3, <1>8, <1>9, CallsKept

LEMMA SoundStep ==
  ASSUME CallsFit, NEW p \in Processes, call[p].todo # <<>>
  PROVE  Sound(Head(call[p].todo))
<1>1. PICK op, r, todo, filling :
        /\ call[p] = Call(op, r, todo, filling)
        /\ SubjectFits(op, r) /\ Left(todo, Plan(op, r))
  BY CallOf DEF CallsFit
<1>2. call[p].todo = todo
  BY <1>1, CallFields
<1> QED
  BY <1>1, <1>2, SoundHead

LEMMA WriteStep ==
  ASSUME CallsFit, NEW p \in Processes, Runs(p, "write")
  PROVE  /\ call[p].todo # <<>> /\ Head(call[p].todo).kind = "write"
         /\ Permitted(Head(call[p].todo).path, Head(call[p].todo).content)
         /\ Head(call[p].todo).content # Torn
<1>1. call[p].todo # <<>> /\ Head(call[p].todo).kind = "write"
  BY DEF Runs
<1>2. Permitted(Head(call[p].todo).path, Head(call[p].todo).content)
  BY <1>1, SoundStep DEF Sound
<1> QED
  BY <1>1, <1>2, PermittedIsNamed
-----------------------------------------------------------------------------
(***************************************************************************)
(* The steps on files.                                                     *)
(***************************************************************************)
FilesStep ==
  /\ FilesFit' /\ CallsFit'
  /\ \A x, y : Holds(x, y) => Holds(x, y)'

LEMMA FillsGrow ==
  ASSUME NEW path, NEW content, NEW wanted, Fills(path, content), content \in {Torn, wanted},
         Exists(path) => Whole(path, Torn)
  PROVE  /\ FilesGrow(path, wanted) /\ Whole(path, content)'
         /\ \A x : x # path => (Whole(x, Torn) => Whole(x, Torn)')
<1>1. /\ \A x : Exists(x)' <=> (Exists(x) \/ x = path)
      /\ \A x : Exists(x) /\ x # path => file'[x] = file[x]
      /\ file'[path] = content
  BY DEF Fills, Exists
<1> QED
  BY <1>1 DEF FilesGrow, Holds, Whole

LEMMA OpenFileStep ==
  ASSUME FilesFit, CallsFit, NEW p \in Processes, OpenFile(p)
  PROVE  FilesStep
<1>1. PICK path, wanted : path = Head(call[p].todo).path /\ wanted = Head(call[p].todo).content
  OBVIOUS
<1>2. ~Exists(path) /\ Fills(path, Torn)
  BY <1>1 DEF OpenFile, MayOpen
<1>3. Permitted(path, wanted) /\ Runs(p, "write")
  BY <1>1, WriteStep DEF OpenFile
<1>4. /\ FilesGrow(path, wanted) /\ Whole(path, Torn)'
      /\ \A x : x # path => (Whole(x, Torn) => Whole(x, Torn)')
  BY <1>2, FillsGrow
<1>5. FilesFit'
  BY <1>3, <1>4, FilesFitStep
<1>6. \A x, y : Holds(x, y) => Holds(x, y)'
  BY <1>4 DEF FilesGrow
<1>7. PICK op, r, todo, filling :
        /\ call[p] = Call(op, r, todo, filling)
        /\ SubjectFits(op, r) /\ Left(todo, Plan(op, r))
  BY CallOf DEF CallsFit
<1>8. call'[p] = Call(op, r, todo, TRUE) /\ Only(p)
  <2>1. PICK old : old = call[p]
    OBVIOUS
  <2>2. call' = [q \in Processes |-> IF q = p THEN [old EXCEPT !.filling = TRUE] ELSE call[q]]
    BY <2>1 DEF OpenFile, CallsFit
  <2>3. [old EXCEPT !.filling = TRUE] = Call(op, r, todo, TRUE)
    BY <1>7, <2>1, CallOpens, Zenon
  <2> QED
    BY <2>2, <2>3 DEF Only
<1>9. Progress(p)'
  <2>1. PICK plan : plan = Plan(op, r)
    OBVIOUS
  <2>2. Left(todo, plan)' /\ SubjectFits(op, r)'
    BY <1>6, <1>7, <2>1, LeftKept, SubjectKept
  <2> QED
    BY <1>8, <2>1, <2>2, ProgressOf
<1>10. ASSUME NEW q \in Processes PROVE Progress(q)'
  <2>1. CASE q = p
    BY <1>9, <2>1
  <2>2. CASE q # p
    BY <1>6, <1>8, <2>2, ProgressKept DEF CallsFit, Only
  <2> QED
    BY <2>1, <2>2
<1>11. /\ Runs(p, "write")' /\ \A x : Opened(p, x)' <=> x = path
  <2>1. call[p].todo = todo /\ call'[p].todo = todo /\ call'[p].filling = TRUE
    BY <1>7, <1>8 DEF Call
  <2> QED
    BY <1>1, <1>3, <2>1 DEF Runs, Opened
<1>12. ASSUME NEW q \in Processes \ {p}
       PROVE  /\ \A x : Opened(q, x)' => Opened(q, x) /\ x # path
              /\ call'[q].filling => Runs(q, "write")'
  <2>1. call'[q] = call[q]
    BY <1>8 DEF Only
  <2>2. \A x : Opened(q, x) => Exists(x)
    BY DEF CallsFit, FillsFit, Whole
  <2>3. \A x : Opened(q, x)' => Opened(q, x)
    BY <2>1 DEF Opened, Runs
  <2>4. call'[q].filling => Runs(q, "write")'
    BY <2>1 DEF CallsFit, FillsFit, Runs
  <2> QED
    BY <1>2, <2>2, <2>3, <2>4
<1>13. FillsFit'
  <2>1. \A q \in Processes : call'[q].filling => Runs(q, "write")'
    BY <1>11, <1>12
  <2>2. \A q \in Processes : \A x : Opened(q, x)' => Whole(x, Torn)'
    BY <1>4, <1>11, <1>12 DEF CallsFit, FillsFit
  <2>3. \A o, q \in Processes : \A x : Opened(o, x)' /\ Opened(q, x)' => o = q
    BY <1>11, <1>12 DEF CallsFit, FillsFit
  <2> QED
    BY <2>1, <2>2, <2>3 DEF FillsFit
<1> QED
  BY <1>5, <1>6, <1>8, <1>10, <1>13 DEF FilesStep, CallsFit, Only

LEMMA FillFileStep ==
  ASSUME FilesFit, CallsFit, NEW p \in Processes, FillFile(p)
  PROVE  FilesStep
<1>1. PICK step, path, wanted :
        step = Head(call[p].todo) /\ path = step.path /\ wanted = step.content
  OBVIOUS
<1>2. Runs(p, "write") /\ call[p].filling /\ Fills(path, wanted) /\ Advance(p)
  BY <1>1 DEF FillFile
<1>3. /\ Permitted(path, wanted) /\ wanted # Torn /\ call[p].todo # <<>>
      /\ step.kind = "write"
  BY <1>1, <1>2, WriteStep
<1>4. Opened(p, path) /\ Whole(path, Torn)
  BY <1>1, <1>2 DEF Opened, CallsFit, FillsFit
<1>5. /\ FilesGrow(path, wanted) /\ Whole(path, wanted)'
      /\ \A x : x # path => (Whole(x, Torn) => Whole(x, Torn)')
  BY <1>2, <1>4, FillsGrow
<1>6. FilesFit'
  BY <1>3, <1>5, FilesFitStep
<1>7. \A x, y : Holds(x, y) => Holds(x, y)'
  BY <1>5 DEF FilesGrow
<1>8. Done(step)'
  BY <1>1, <1>3, <1>5 DEF Done, Holds
<1>9. \A q \in Processes \ {p} : \A x : Opened(q, x) => Whole(x, Torn)'
  BY <1>4, <1>5 DEF CallsFit, FillsFit
<1>10. CallsFit'
  BY <1>1, <1>2, <1>3, <1>7, <1>8, <1>9, Advanced
<1> QED
  BY <1>6, <1>7, <1>10 DEF FilesStep

LEMMA SameFiles ==
  ASSUME FilesFit, CallsFit, UNCHANGED file
  PROVE  /\ FilesFit' /\ \A x, y : Holds(x, y) => Holds(x, y)'
         /\ \A q \in Processes : \A x : Opened(q, x) => Whole(x, Torn)'
<1>1. FilesFit' /\ \A x, y : Holds(x, y) => Holds(x, y)'
  BY FilesSame
<1>2. \A q \in Processes : \A x : Opened(q, x) => Whole(x, Torn)'
  BY DEF CallsFit, FillsFit, Whole, Exists
<1> QED
  BY <1>1, <1>2

LEMMA AcceptFileStep ==
  ASSUME FilesFit, CallsFit, NEW p \in Processes, AcceptFile(p)
  PROVE  FilesStep
<1>1. PICK step : step = Head(call[p].todo)
  OBVIOUS
<1>2. /\ Runs(p, "write") /\ Whole(step.path, step.content) /\ Advance(p) /\ UNCHANGED file
  BY <1>1 DEF AcceptFile, SameBytes
<1>3. step.content # Torn /\ call[p].todo # <<>> /\ step.kind = "write"
  BY <1>1, <1>2, WriteStep
<1>4. Done(step)
  BY <1>2, <1>3 DEF Done, Holds
<1>5. /\ FilesFit' /\ \A x, y : Holds(x, y) => Holds(x, y)'
      /\ \A q \in Processes : \A x : Opened(q, x) => Whole(x, Torn)'
  BY <1>2, SameFiles
<1>6. Done(step)'
  BY <1>4, <1>5, DoneKept
<1>7. CallsFit'
  BY <1>1, <1>2, <1>3, <1>5, <1>6, Advanced
<1> QED
  BY <1>5, <1>7 DEF FilesStep

LEMMA PassCheckStep ==
  ASSUME FilesFit, CallsFit, NEW p \in Processes, PassCheck(p)
  PROVE  FilesStep
<1>1. PICK step : step = Head(call[p].todo)
  OBVIOUS
<1>2. /\ step.kind = "check" /\ call[p].todo # <<>> /\ Advance(p) /\ UNCHANGED file
      /\ \A fact \in step.facts : Whole(fact[1], fact[2])
  BY <1>1 DEF PassCheck, Runs
<1>3. \A fact \in step.facts : fact[2] # Torn
  BY <1>1, <1>2, SoundStep DEF Sound
<1>4. Done(step)
  BY <1>2, <1>3 DEF Done, Holds
<1>5. /\ FilesFit' /\ \A x, y : Holds(x, y) => Holds(x, y)'
      /\ \A q \in Processes : \A x : Opened(q, x) => Whole(x, Torn)'
  BY <1>2, SameFiles
<1>6. Done(step)'
  BY <1>4, <1>5, DoneKept
<1>7. CallsFit'
  BY <1>1, <1>2, <1>5, <1>6, Advanced
<1> QED
  BY <1>5, <1>7 DEF FilesStep

LEMMA WholePlan ==
  ASSUME NEW plan, Len(plan) \in Nat, \E S : plan \in Seq(S)
  PROVE  Left(plan, plan)
<1>1. \A j \in 1 .. Len(plan) : plan[j] = plan[0 + j]
  OBVIOUS
<1>2. 0 \in 0 .. Len(plan) /\ Len(plan) = Len(plan) - 0
  OBVIOUS
<1>3. \A j \in 1 .. 0 : Done(plan[j])
  OBVIOUS
<1> QED
  BY <1>1, <1>2, <1>3 DEF Left

LEMMA SetsCall ==
  ASSUME FilesFit, CallsFit, UNCHANGED file, NEW p \in Processes, NEW op, NEW r, NEW todo,
         NEW new, new = Call(op, r, todo, FALSE), call' = [call EXCEPT ![p] = new],
         SubjectFits(op, r), todo = Plan(op, r)
  PROVE  FilesStep
<1>1. /\ FilesFit' /\ \A x, y : Holds(x, y) => Holds(x, y)'
      /\ \A q \in Processes : \A x : Opened(q, x) => Whole(x, Torn)'
  BY SameFiles
<1>2. call'[p] = new /\ Only(p)
  BY DEF CallsFit, Only
<1>3. PICK plan : plan = Plan(op, r)
  OBVIOUS
<1>4. Left(plan, plan)
  BY <1>3, PlanLength, WholePlan
<1>5. Left(plan, plan)' /\ SubjectFits(op, r)'
  BY <1>1, <1>4, LeftKept, SubjectKept
<1>6. call'[p] = Call(op, r, plan, FALSE)
  BY <1>2, <1>3, Zenon
<1>7. Progress(p)'
  BY <1>3, <1>5, <1>6, ProgressOf, Zenon
<1>8. call'[p].filling = FALSE
  BY <1>6 DEF Call
<1>9. CallsFit'
  BY <1>1, <1>2, <1>7, <1>8, CallsKept
<1> QED
  BY <1>1, <1>9 DEF FilesStep

LEMMA IdleCall == Idle = Call("none", <<>>, <<>>, FALSE)
  BY DEF Idle, Call

LEMMA EndsStep ==
  ASSUME FilesFit, CallsFit, UNCHANGED file, NEW p \in Processes,
         call' = [call EXCEPT ![p] = Idle]
  PROVE  FilesStep
<1>1. PICK op, r, todo : op = "none" /\ r = <<>> /\ todo = <<>>
  OBVIOUS
<1>2. Idle = Call(op, r, todo, FALSE)
  BY <1>1, IdleCall, Zenon
<1>3. SubjectFits(op, r) /\ todo = Plan(op, r)
  BY <1>1 DEF SubjectFits, Plan
<1> QED
  BY <1>2, <1>3, SetsCall, Zenon

LEMMA BeginStep ==
  ASSUME FilesFit, CallsFit, UNCHANGED file, NEW p \in Processes, NEW op, NEW r, NEW todo,
         Begin(p, op, r, todo), SubjectFits(op, r), todo = Plan(op, r)
  PROVE  FilesStep
<1>1. PICK none, empty, no, idle : /\ none = "none" /\ empty = <<>> /\ no = FALSE
                                   /\ idle = Idle
  OBVIOUS
<1>2. PICK one : one = [idle EXCEPT !.op = op]
  OBVIOUS
<1>3. PICK two : two = [one EXCEPT !.subject = r]
  OBVIOUS
<1>4. PICK new : new = [two EXCEPT !.todo = todo]
  OBVIOUS
<1>5. call' = [call EXCEPT ![p] = new]
  BY <1>1, <1>2, <1>3, <1>4, Zenon DEF Begin
<1>6. idle = Call(none, empty, empty, no)
  BY <1>1, IdleCall, Zenon
<1>7. [idle EXCEPT !.op = op] = Call(op, empty, empty, no)
  BY <1>6, CallOp
<1>8. one = Call(op, empty, empty, no)
  BY <1>2, <1>7, Zenon
<1>9. [one EXCEPT !.subject = r] = Call(op, r, empty, no)
  BY <1>8, CallSubject
<1>10. two = Call(op, r, empty, no)
  BY <1>3, <1>9, Zenon
<1>11. [two EXCEPT !.todo = todo] = Call(op, r, todo, no)
  BY <1>10, CallTodo
<1>12. new = Call(op, r, todo, FALSE)
  BY <1>1, <1>4, <1>11, Zenon
<1> QED
  BY <1>5, <1>12, SetsCall, Zenon

LEMMA Finished ==
  ASSUME CallsFit, NEW p \in Processes, call[p].todo = <<>>, NEW op, op = call[p].op,
         NEW r, r = call[p].subject
  PROVE  /\ call[p] = Call(op, r, <<>>, FALSE) /\ SubjectFits(op, r)
         /\ \A j \in 1 .. Len(Plan(op, r)) : Done(Plan(op, r)[j])
<1>1. PICK o, s, todo, filling :
        /\ call[p] = Call(o, s, todo, filling) /\ filling \in BOOLEAN
        /\ SubjectFits(o, s) /\ Left(todo, Plan(o, s))
  BY CallOf DEF CallsFit
<1>2. o = op /\ s = r /\ todo = <<>> /\ filling = call[p].filling
  BY <1>1, CallFields
<1>3. filling = FALSE
  BY <1>1, <1>2 DEF CallsFit, FillsFit, Runs
<1>4. call[p] = Call(op, r, <<>>, FALSE)
  BY <1>1, <1>2, <1>3, Zenon
<1>5. SubjectFits(op, r)
  BY <1>1, <1>2
<1>6. \A j \in 1 .. Len(Plan(op, r)) : Done(Plan(op, r)[j])
  <2>1. PICK plan : plan = Plan(op, r)
    OBVIOUS
  <2>2. Len(plan) \in Nat
    BY <1>5, <2>1, PlanLength
  <2>3. Left(<<>>, plan)
    BY <1>1, <1>2, <2>1
  <2>4. Len(<<>>) = 0
    BY EmptySeq
  <2>5. \A j \in 1 .. Len(plan) : Done(plan[j])
    BY <2>2, <2>3, <2>4 DEF Left
  <2> QED
    BY <2>1, <2>5
<1> QED
  BY <1>4, <1>5, <1>6
-----------------------------------------------------------------------------
(***************************************************************************)
(* The registry of a process.                                              *)
(***************************************************************************)
LEMMA KnownKept ==
  ASSUME \A x, y : Holds(x, y) => Holds(x, y)', KnownFits, UNCHANGED known
  PROVE  KnownFits'
<1>1. ASSUME NEW i, NEW revision, Known(i, revision) PROVE Known(i, revision)'
  BY <1>1 DEF Known, Placed
<1> QED
  BY <1>1 DEF KnownFits

LEMMA LearnStep ==
  ASSUME \A x, y : Holds(x, y) => Holds(x, y)', KnownFits, NEW p \in Processes,
         NEW revision \in Revisions, Learns(p, revision),
         NEW i, i = IdentityOf[revision[1]], Known(i, revision)
  PROVE  KnownFits'
<1>1. i \in Identities
  BY IntakeAssumption DEF Revisions
<1>2. known' = [known EXCEPT ![p][i] = revision]
  BY DEF Learns
<1>3. known' \in [Processes -> [Identities -> Revisions \cup {None}]]
  BY <1>1, <1>2 DEF KnownFits
<1>4. ASSUME NEW q \in Processes, NEW j \in Identities, NEW s \in Revisions, known'[q][j] = s
      PROVE  Known(j, s)'
  <2>1. Known(j, s)
    <3>1. CASE q = p /\ j = i
      <4>1. s = revision
        BY <1>1, <1>2, <1>4, <3>1 DEF KnownFits
      <4> QED
        BY <3>1, <4>1
    <3>2. CASE ~(q = p /\ j = i)
      <4>1. known[q][j] = s
        BY <1>1, <1>2, <1>4, <3>2 DEF KnownFits
      <4> QED
        BY <4>1 DEF KnownFits
    <3> QED
      BY <3>1, <3>2
  <2> QED
    BY <2>1 DEF Known, Placed
<1> QED
  BY <1>3, <1>4 DEF KnownFits

LEMMA ReadIs ==
  ASSUME NEW x, Readable(x), NEW y, y = file[x]
  PROVE  Holds(x, y)
  BY DEF Readable, Holds, Whole

LEMMA EntryIsKnown ==
  ASSUME FilesFit, KnownFits, NEW p \in Processes, NEW i \in Identities, Finds(p, i),
         NEW entry, entry = Entry(p, i)
  PROVE  /\ entry \in Revisions /\ IdentityOf[entry[1]] = i /\ Known(i, entry)
<1>1. CASE p \notin Readers
  <2>1. entry = known[p][i] /\ entry # None
    BY <1>1 DEF Finds, Entry
  <2>2. entry \in Revisions
    BY <2>1 DEF KnownFits
  <2>3. Known(i, entry)
    BY <2>1, <2>2 DEF KnownFits
  <2> QED
    BY <2>2, <2>3 DEF Known, Placed
<1>2. CASE p \in Readers
  <2>1. Located(i) /\ entry = Current(i)
    BY <1>2 DEF Finds, Entry
  <2>2. CASE Exists(<<"index", i, 2>>)
    <3>1. Holds(<<"index", i, 2>>, entry)
      BY <2>1, <2>2, ReadIs DEF Located, Current
    <3>2. PICK c \in Proposals, s \in Terminal : entry = <<c, s>> /\ Placed(i, c)
      BY <3>1 DEF FilesFit, TransitionsFit
    <3> QED
      BY <3>1, <3>2 DEF Known, Revisions, Placed
  <2>3. CASE ~Exists(<<"index", i, 2>>)
    <3>1. Holds(<<"locator", i>>, entry)
      BY <2>1, <2>3, ReadIs DEF Located, Current
    <3>2. PICK c \in Proposals : entry = Created(c) /\ Complete(i, c)
      BY <3>1 DEF FilesFit, CreationsFit
    <3>3. Placed(i, c)
      BY <3>1, <3>2 DEF Placed, Complete
    <3> QED
      BY <3>2, <3>3 DEF Known, Revisions, Placed, Created
  <2> QED
    BY <2>2, <2>3
<1> QED
  BY <1>1, <1>2

-----------------------------------------------------------------------------
(***************************************************************************)
(* The operations.                                                         *)
(***************************************************************************)
LEMMA KeepsInv ==
  ASSUME KnownFits, FilesStep, UNCHANGED known
  PROVE  Inv'
  BY KnownKept DEF FilesStep, Inv

LEMMA BeginEvidenceStep ==
  ASSUME Inv, NEW p \in Processes, NEW e \in Executions, NEW from \in Executions \cup {None},
         BeginEvidence(p, e, from)
  PROVE  Inv'
<1>1. PICK op, r, todo : op = "evidence" /\ r = Receipt(e, from, 1) /\ todo = AppendSteps(e, from, 1)
  OBVIOUS
<1>2. Begin(p, op, r, todo) /\ UNCHANGED <<file, known>>
  BY <1>1, Zenon DEF BeginEvidence
<1>3. 1 \in 1 .. Phases
  BY IntakeAssumption
<1>4. SubjectFits(op, r)
  BY <1>1, <1>3 DEF SubjectFits
<1>5. todo = Plan(op, r)
  BY <1>1 DEF Plan, Receipt
<1>6. FilesStep
  BY <1>2, <1>4, <1>5, BeginStep DEF Inv
<1> QED
  BY <1>2, <1>6, KeepsInv DEF Inv

LEMMA AppendNextStep ==
  ASSUME Inv, NEW p \in Processes, AppendNext(p)
  PROVE  Inv'
<1>1. PICK op, old, s : op = "evidence" /\ old = call[p] /\ s = old.subject
  OBVIOUS
<1>2. old.op = op /\ old.todo = <<>> /\ s[3] < Phases /\ UNCHANGED <<file, known>>
  BY <1>1 DEF AppendNext
<1>3. old = Call(op, s, <<>>, FALSE) /\ SubjectFits(op, s)
  BY <1>1, <1>2, Finished DEF Inv
<1>4. PICK e \in Executions, from \in Executions \cup {None}, n \in 1 .. Phases :
        s = Receipt(e, from, n)
  BY <1>1, <1>3 DEF SubjectFits
<1>5. s[1] = e /\ s[2] = from /\ s[3] = n /\ n + 1 \in 1 .. Phases
  BY <1>2, <1>4, IntakeAssumption DEF Receipt
<1>6. PICK r, todo : r = Receipt(e, from, n + 1) /\ todo = AppendSteps(e, from, n + 1)
  OBVIOUS
<1>7. PICK half : half = [old EXCEPT !.subject = r]
  OBVIOUS
<1>8. PICK new : new = [half EXCEPT !.todo = todo]
  OBVIOUS
<1>9. call' = [call EXCEPT ![p] = new]
  <2>1. call' = [call EXCEPT ![p].subject = r, ![p].todo = todo]
    BY <1>1, <1>5, <1>6 DEF AppendNext
  <2> DEFINE mid == [call EXCEPT ![p].subject = r]
  <2>2. call' = [mid EXCEPT ![p].todo = todo]
    BY <2>1
  <2>3. mid = [q \in Processes |-> IF q = p THEN half ELSE call[q]]
    BY <1>1, <1>7 DEF Inv, CallsFit
  <2> HIDE DEF mid
  <2>4. call' = [q \in Processes |-> IF q = p THEN new ELSE call[q]]
    BY <1>8, <2>2, <2>3
  <2> QED
    BY <2>4 DEF Inv, CallsFit
<1>10. PICK empty, no : empty = <<>> /\ no = FALSE
  OBVIOUS
<1>11. old = Call(op, s, empty, no)
  BY <1>3, <1>10, Zenon
<1>12. half = Call(op, r, empty, no)
  <2>1. [old EXCEPT !.subject = r] = Call(op, r, empty, no)
    BY <1>11, CallSubject
  <2> QED
    BY <1>7, <2>1, Zenon
<1>13. [half EXCEPT !.todo = todo] = Call(op, r, todo, no)
  BY <1>12, CallTodo
<1>14. new = Call(op, r, todo, FALSE)
  BY <1>8, <1>10, <1>13, Zenon
<1>15. SubjectFits(op, r)
  BY <1>1, <1>5, <1>6 DEF SubjectFits
<1>16. todo = Plan(op, r)
  BY <1>1, <1>6 DEF Plan, Receipt
<1>17. FilesStep
  BY <1>2, <1>9, <1>14, <1>15, <1>16, SetsCall, Zenon DEF Inv
<1> QED
  BY <1>2, <1>17, KeepsInv DEF Inv

LEMMA BeginCreateStep ==
  ASSUME Inv, NEW p \in Processes, NEW c \in Proposals, BeginCreate(p, c)
  PROVE  Inv'
<1>1. PICK op, r, todo : op = "create" /\ r = Created(c) /\ todo = CreateSteps(c)
  OBVIOUS
<1>2. Begin(p, op, r, todo) /\ HasRun(EvidenceOf[c]) /\ UNCHANGED <<file, known>>
  BY <1>1, Zenon DEF BeginCreate
<1>3. SubjectFits(op, r)
  BY <1>1, <1>2 DEF SubjectFits
<1>4. todo = Plan(op, r)
  BY <1>1 DEF Plan, Created
<1>5. FilesStep
  BY <1>2, <1>3, <1>4, BeginStep DEF Inv
<1> QED
  BY <1>2, <1>5, KeepsInv DEF Inv

LEMMA FinishCreateStep ==
  ASSUME Inv, NEW p \in Processes, FinishCreate(p)
  PROVE  Inv'
<1>1. PICK op, r : op = "create" /\ r = call[p].subject
  OBVIOUS
<1>2. /\ call[p].op = op /\ call[p].todo = <<>> /\ call' = [call EXCEPT ![p] = Idle]
      /\ UNCHANGED file /\ Learns(p, r)
  BY <1>1 DEF FinishCreate, Finishes
<1>3. SubjectFits(op, r) /\ \A j \in 1 .. Len(Plan(op, r)) : Done(Plan(op, r)[j])
  BY <1>1, <1>2, Finished DEF Inv
<1>4. PICK c \in Proposals : r = Created(c)
  BY <1>1, <1>3 DEF SubjectFits
<1>5. Plan(op, r) = CreateSteps(c)
  BY <1>1, <1>4 DEF Plan, Created
<1>6. Done(Write(<<"locator", IdentityOf[c]>>, Created(c)))
  <2>1. PICK plan : plan = CreateSteps(c)
    OBVIOUS
  <2>2. Len(plan) = 7 /\ plan[7] = Write(<<"locator", IdentityOf[c]>>, Created(c))
    BY <2>1, PlanOfCreate
  <2>3. 7 \in 1 .. Len(plan)
    BY <2>2
  <2> QED
    BY <1>3, <1>5, <2>1, <2>2, <2>3
<1>7. Placed(IdentityOf[c], c)
  BY <1>6, StepKinds DEF Placed
<1>8. r \in Revisions /\ Known(IdentityOf[r[1]], r)
  BY <1>4, <1>7 DEF Known, Created, Revisions
<1>9. FilesStep
  BY <1>2, EndsStep DEF Inv
<1>10. KnownFits'
  BY <1>2, <1>8, <1>9, LearnStep DEF FilesStep, Inv
<1> QED
  BY <1>9, <1>10 DEF FilesStep, Inv

LEMMA VerifyIdentityStep ==
  ASSUME Inv, NEW p \in Processes, NEW i \in Identities, VerifyIdentity(p, i)
  PROVE  Inv'
<1>1. PICK entry : entry = Entry(p, i)
  OBVIOUS
<1>2. Finds(p, i) /\ Learns(p, entry) /\ UNCHANGED <<file, call>>
  BY <1>1 DEF VerifyIdentity
<1>3. entry \in Revisions /\ IdentityOf[entry[1]] = i /\ Known(i, entry)
  BY <1>1, <1>2, EntryIsKnown DEF Inv
<1>4. FilesFit' /\ \A x, y : Holds(x, y) => Holds(x, y)'
  BY <1>2, SameFiles DEF Inv
<1>5. KnownFits'
  BY <1>2, <1>3, <1>4, LearnStep DEF Inv
<1>6. CallsFit'
  <2>1. \A q \in Processes : Progress(q)'
    BY <1>2, <1>4, ProgressKept DEF Inv, CallsFit
  <2>2. FillsFit'
    BY <1>2 DEF Inv, CallsFit, FillsFit, Opened, Runs, Whole, Exists
  <2> QED
    BY <1>2, <2>1, <2>2 DEF Inv, CallsFit
<1> QED
  BY <1>4, <1>5, <1>6 DEF Inv

LEMMA BeginTransitionStep ==
  ASSUME Inv, NEW p \in Processes, NEW i \in Identities, NEW status \in Terminal,
         BeginTransition(p, i, status)
  PROVE  Inv'
<1>1. PICK entry, op, r, todo :
        entry = Entry(p, i) /\ op = "verified" /\ r = <<entry[1], status>> /\ todo = <<>>
  OBVIOUS
<1>2. Finds(p, i) /\ Learns(p, entry) /\ Begin(p, op, r, todo) /\ UNCHANGED file
  BY <1>1, Zenon DEF BeginTransition
<1>3. entry \in Revisions /\ IdentityOf[entry[1]] = i /\ Known(i, entry)
  BY <1>1, <1>2, EntryIsKnown DEF Inv
<1>4. SubjectFits(op, r)
  <2>1. entry[1] \in Proposals /\ Placed(i, entry[1])
    BY <1>3 DEF Revisions, Known
  <2> QED
    BY <1>1, <1>3, <2>1 DEF SubjectFits
<1>5. todo = Plan(op, r)
  BY <1>1 DEF Plan
<1>6. FilesStep
  BY <1>2, <1>4, <1>5, BeginStep DEF Inv
<1>7. KnownFits'
  BY <1>2, <1>3, <1>6, LearnStep DEF FilesStep, Inv
<1> QED
  BY <1>6, <1>7 DEF FilesStep, Inv

LEMMA CommitTransitionStep ==
  ASSUME Inv, NEW p \in Processes, CommitTransition(p)
  PROVE  Inv'
<1>1. PICK verified, old, r : verified = "verified" /\ old = call[p] /\ r = old.subject
  OBVIOUS
<1>2. old.op = verified /\ UNCHANGED file
  BY <1>1 DEF CommitTransition
<1>3. old.todo = <<>>
  <2>1. PICK op, s, todo, filling :
          /\ old = Call(op, s, todo, filling)
          /\ SubjectFits(op, s) /\ Left(todo, Plan(op, s))
    BY <1>1, CallOf DEF Inv, CallsFit
  <2>2. op = verified /\ old.todo = todo
    BY <1>2, <2>1, CallFields
  <2>3. Plan(op, s) = <<>>
    BY <1>1, <2>2 DEF Plan
  <2>4. Left(todo, <<>>)
    BY <2>1, <2>3
  <2>5. PICK S : todo \in Seq(S)
    BY <2>4 DEF Left
  <2>6. Len(todo) = 0
    BY <2>4, EmptySeq DEF Left
  <2> QED
    BY <2>2, <2>5, <2>6, EmptySeq
<1>4. old = Call(verified, r, <<>>, FALSE) /\ SubjectFits(verified, r)
  BY <1>1, <1>2, <1>3, Finished DEF Inv
<1>5. PICK c \in Proposals, s \in Terminal : r = <<c, s>> /\ Placed(IdentityOf[c], c)
  BY <1>1, <1>4 DEF SubjectFits
<1>6. CASE /\ call' = [call EXCEPT ![p].op = "transition", ![p].todo = Transitions(r[1], r[2])]
           /\ UNCHANGED known
  <2>1. PICK op, todo : op = "transition" /\ todo = Transitions(r[1], r[2])
    OBVIOUS
  <2>2. PICK half : half = [old EXCEPT !.op = op]
    OBVIOUS
  <2>3. PICK new : new = [half EXCEPT !.todo = todo]
    OBVIOUS
  <2>4. call' = [call EXCEPT ![p] = new]
    <3>1. call' = [call EXCEPT ![p].op = op, ![p].todo = todo]
      BY <1>6, <2>1
    <3> DEFINE mid == [call EXCEPT ![p].op = op]
    <3>2. call' = [mid EXCEPT ![p].todo = todo]
      BY <3>1
    <3>3. mid = [q \in Processes |-> IF q = p THEN half ELSE call[q]]
      BY <1>1, <2>2 DEF Inv, CallsFit
    <3> HIDE DEF mid
    <3>4. call' = [q \in Processes |-> IF q = p THEN new ELSE call[q]]
      BY <2>3, <3>2, <3>3
    <3> QED
      BY <3>4 DEF Inv, CallsFit
  <2>5. PICK empty, no : empty = <<>> /\ no = FALSE
    OBVIOUS
  <2>6. old = Call(verified, r, empty, no)
    BY <1>4, <2>5, Zenon
  <2>7. half = Call(op, r, empty, no)
    <3>1. [old EXCEPT !.op = op] = Call(op, r, empty, no)
      BY <2>6, CallOp
    <3> QED
      BY <2>2, <3>1, Zenon
  <2>8. [half EXCEPT !.todo = todo] = Call(op, r, todo, no)
    BY <2>7, CallTodo
  <2>9. new = Call(op, r, todo, FALSE)
    BY <2>3, <2>5, <2>8, Zenon
  <2>10. SubjectFits(op, r)
    BY <1>5, <2>1 DEF SubjectFits
  <2>11. todo = Plan(op, r)
    BY <2>1 DEF Plan
  <2>12. FilesStep
    BY <1>2, <2>4, <2>9, <2>10, <2>11, SetsCall, Zenon DEF Inv
  <2> QED
    BY <1>6, <2>12, KeepsInv DEF Inv
<1>7. CASE /\ Whole(<<"index", IdentityOf[r[1]], 2>>, r) /\ Learns(p, r)
           /\ call' = [call EXCEPT ![p] = Idle]
  <2>1. r \in Revisions /\ r # Torn
    BY <1>5, Contents DEF Revisions
  <2>2. Known(IdentityOf[r[1]], r)
    BY <1>5, <1>7, <2>1 DEF Known, Holds
  <2>3. FilesStep
    BY <1>2, <1>7, EndsStep DEF Inv
  <2>4. KnownFits'
    BY <1>7, <2>1, <2>2, <2>3, LearnStep DEF FilesStep, Inv
  <2> QED
    BY <2>3, <2>4 DEF FilesStep, Inv
<1>8. \/ /\ call' = [call EXCEPT ![p].op = "transition", ![p].todo = Transitions(r[1], r[2])]
         /\ UNCHANGED known
      \/ /\ Whole(<<"index", IdentityOf[r[1]], 2>>, r) /\ Learns(p, r)
         /\ call' = [call EXCEPT ![p] = Idle]
  BY <1>1, Zenon DEF CommitTransition
<1> QED
  BY <1>6, <1>7, <1>8

LEMMA FinishTransitionStep ==
  ASSUME Inv, NEW p \in Processes, FinishTransition(p)
  PROVE  Inv'
<1>1. PICK op, r : op = "transition" /\ r = call[p].subject
  OBVIOUS
<1>2. /\ call[p].op = op /\ call[p].todo = <<>> /\ call' = [call EXCEPT ![p] = Idle]
      /\ UNCHANGED file /\ Learns(p, r)
  BY <1>1 DEF FinishTransition, Finishes
<1>3. SubjectFits(op, r) /\ \A j \in 1 .. Len(Plan(op, r)) : Done(Plan(op, r)[j])
  BY <1>1, <1>2, Finished DEF Inv
<1>4. PICK c \in Proposals, s \in Terminal : r = <<c, s>> /\ Placed(IdentityOf[c], c)
  BY <1>1, <1>3 DEF SubjectFits
<1>5. Plan(op, r) = Transitions(c, s)
  BY <1>1, <1>4 DEF Plan
<1>6. Done(Write(<<"index", IdentityOf[c], 2>>, r))
  <2>1. PICK plan, m : plan = Transitions(c, s) /\ m = RecordOfTransition(s)
    OBVIOUS
  <2>2. Len(plan) = m + 2 /\ plan[m + 2] = Write(<<"index", IdentityOf[c], 2>>, r)
    BY <1>4, <2>1, PlanOfTransition
  <2>3. m + 2 \in 1 .. Len(plan)
    BY <2>1, <2>2 DEF RecordOfTransition
  <2> QED
    BY <1>3, <1>5, <2>1, <2>2, <2>3
<1>7. Holds(<<"index", IdentityOf[c], 2>>, r)
  BY <1>6, StepKinds
<1>8. r \in Revisions /\ Known(IdentityOf[r[1]], r)
  BY <1>4, <1>7 DEF Known, Revisions
<1>9. FilesStep
  BY <1>2, EndsStep DEF Inv
<1>10. KnownFits'
  BY <1>2, <1>8, <1>9, LearnStep DEF FilesStep, Inv
<1> QED
  BY <1>9, <1>10 DEF FilesStep, Inv

LEMMA DieStep ==
  ASSUME Inv, NEW p \in Processes, Die(p)
  PROVE  Inv'
<1>1. /\ call' = [call EXCEPT ![p] = Idle] /\ UNCHANGED file
      /\ known' = [known EXCEPT ![p] = [i \in Identities |-> None]]
  BY DEF Die
<1>2. FilesStep
  BY <1>1, EndsStep DEF Inv
<1>3. KnownFits'
  <2>1. known' \in [Processes -> [Identities -> Revisions \cup {None}]]
    BY <1>1 DEF Inv, KnownFits
  <2>2. ASSUME NEW q \in Processes, NEW i \in Identities, NEW revision \in Revisions,
               known'[q][i] = revision
        PROVE  Known(i, revision)'
    <3>1. known[q][i] = revision
      BY <1>1, <2>2, IntakeAssumption DEF Inv, KnownFits
    <3>2. Known(i, revision)
      BY <3>1 DEF Inv, KnownFits
    <3> QED
      BY <1>2, <3>2 DEF FilesStep, Known, Placed
  <2> QED
    BY <2>1, <2>2 DEF KnownFits
<1> QED
  BY <1>2, <1>3 DEF FilesStep, Inv
-----------------------------------------------------------------------------
LEMMA InvStep ==
  ASSUME Inv, [Next]_vars
  PROVE  Inv'
<1>1. ASSUME NEW p \in Processes, Steps(p) PROVE Inv'
  <2>1. UNCHANGED known /\ FilesFit /\ CallsFit /\ KnownFits
    BY <1>1 DEF Steps, Inv
  <2>2. CASE OpenFile(p)
    BY <2>1, <2>2, OpenFileStep, KeepsInv
  <2>3. CASE FillFile(p)
    BY <2>1, <2>3, FillFileStep, KeepsInv
  <2>4. CASE AcceptFile(p)
    BY <2>1, <2>4, AcceptFileStep, KeepsInv
  <2>5. CASE PassCheck(p)
    BY <2>1, <2>5, PassCheckStep, KeepsInv
  <2>6. CASE Raise(p)
    <3>1. FilesStep
      BY <2>1, <2>6, EndsStep DEF Raise
    <3> QED
      BY <2>1, <3>1, KeepsInv
  <2> QED
    BY <1>1, <2>2, <2>3, <2>4, <2>5, <2>6 DEF Steps
<1>2. ASSUME NEW p \in Processes, FinishEvidence(p) PROVE Inv'
  <2>1. FilesStep /\ UNCHANGED known
    BY <1>2, EndsStep DEF FinishEvidence, Finishes, Inv
  <2> QED
    BY <2>1, KeepsInv DEF Inv
<1>3. ASSUME NEW p \in Processes, Operations(p) PROVE Inv'
  BY <1>2, <1>3, BeginEvidenceStep, AppendNextStep, BeginCreateStep, FinishCreateStep,
     VerifyIdentityStep, BeginTransitionStep, CommitTransitionStep, FinishTransitionStep,
     DieStep DEF Operations
<1>4. CASE UNCHANGED vars
  <2>1. UNCHANGED <<file, call, known>>
    BY <1>4 DEF vars
  <2>2. FilesFit' /\ \A x, y : Holds(x, y) => Holds(x, y)'
    BY <2>1, SameFiles DEF Inv
  <2>3. CallsFit'
    <3>1. \A q \in Processes : Progress(q)'
      BY <2>1, <2>2, ProgressKept DEF Inv, CallsFit
    <3>2. FillsFit'
      BY <2>1 DEF Inv, CallsFit, FillsFit, Opened, Runs, Whole, Exists
    <3> QED
      BY <2>1, <3>1, <3>2 DEF Inv, CallsFit
  <2>4. KnownFits'
    BY <2>1, <2>2, KnownKept DEF Inv
  <2> QED
    BY <2>2, <2>3, <2>4 DEF Inv
<1> QED
  BY <1>1, <1>3, <1>4 DEF Next

\* The files of completed runs that are there at the start hold their receipts.
LEMMA InitialFiles ==
  ASSUME Init
  PROVE  FilesFit
<1>1. PICK done \in SUBSET Completed :
        file = [x \in UNION {RunFiles(e) : e \in done} |->
                  IF x[1] = "receipt" THEN x[2] ELSE <<x[2], None, x[3]>>]
  BY DEF Init
<1>2. ASSUME NEW x, Exists(x)
      PROVE  \E e \in done, n \in 1 .. Phases :
               \/ x = <<"receipt", <<e, None, n>>>> /\ file[x] = <<e, None, n>>
               \/ x = <<"index", e, n>> /\ file[x] = <<e, None, n>>
  <2>1. PICK e \in done : x \in RunFiles(e)
    BY <1>1, <1>2 DEF Exists
  <2>2. PICK n \in 1 .. Phases : x \in {<<"receipt", <<e, None, n>>>>, <<"index", e, n>>}
    BY <2>1 DEF RunFiles
  <2>3. file[x] = IF x[1] = "receipt" THEN x[2] ELSE <<x[2], None, x[3]>>
    BY <1>1, <1>2 DEF Exists
  <2>4. file[x] = <<e, None, n>>
    BY <2>2, <2>3
  <2> QED
    BY <2>2, <2>4
<1>3. ASSUME NEW e \in done, NEW n \in 1 .. Phases
      PROVE  /\ Holds(<<"receipt", <<e, None, n>>>>, <<e, None, n>>)
             /\ Holds(<<"index", e, n>>, <<e, None, n>>)
  <2>1. PICK r : r = <<e, None, n>>
    OBVIOUS
  <2>2. PICK x, y : x = <<"receipt", r>> /\ y = <<"index", e, n>>
    OBVIOUS
  <2>3. x \in RunFiles(e) /\ y \in RunFiles(e)
    BY <2>1, <2>2 DEF RunFiles
  <2>4. Exists(x) /\ Exists(y)
    BY <1>1, <2>3 DEF Exists
  <2>5. file[x] = r /\ file[y] = r
    BY <1>1, <2>1, <2>2, <2>4 DEF Exists
  <2>6. e \in Executions
    BY IntakeAssumption
  <2>7. r # Torn
    BY <2>1, <2>6, Contents DEF Receipt
  <2> QED
    BY <2>1, <2>2, <2>4, <2>5, <2>7 DEF Holds, Whole
<1>4. FilesNamed
  BY <1>2 DEF FilesNamed, Kinds
<1>5. RunsFit
  <2> SUFFICES ASSUME NEW e \in Executions, NEW n \in 1 .. Phases, NEW r,
                      Holds(<<"index", e, n>>, r)
               PROVE  Receipted(e, n, r)
    BY DEF RunsFit
  <2>1. e \in done /\ r = <<e, None, n>>
    <3>1. PICK x : x = <<"index", e, n>>
      OBVIOUS
    <3>2. Exists(x) /\ file[x] = r
      BY <3>1 DEF Holds, Whole
    <3> QED
      BY <1>2, <3>1, <3>2
  <2>2. Holds(<<"receipt", r>>, r)
    BY <1>3, <2>1
  <2>3. n > 1 => Holds(<<"index", e, n - 1>>, <<e, None, n - 1>>)
    <3>1. n > 1 => n - 1 \in 1 .. Phases
      BY IntakeAssumption
    <3> QED
      BY <1>3, <2>1, <3>1
  <2> QED
    BY <2>1, <2>2, <2>3 DEF Receipted, Receipt
<1>6. ASSUME NEW i \in Identities
      PROVE  /\ ~Exists(<<"index", i, 1>>) /\ ~Exists(<<"index", i, 2>>)
             /\ ~Exists(<<"locator", i>>)
  <2>1. i \notin done
    BY IntakeAssumption
  <2>2. ~Exists(<<"index", i, 1>>)
    BY <1>2, <2>1
  <2>3. ~Exists(<<"index", i, 2>>)
    BY <1>2, <2>1
  <2>4. ~Exists(<<"locator", i>>)
    BY <1>2
  <2> QED
    BY <2>2, <2>3, <2>4
<1>7. \A r : ~Exists(<<"candidate", r>>)
  BY <1>2
<1>8. CreationsFit
  BY <1>6, <1>7 DEF CreationsFit, Holds, Whole
<1>9. TransitionsFit
  BY <1>6, <1>7 DEF TransitionsFit, Holds, Whole
<1> QED
  BY <1>4, <1>5, <1>8, <1>9 DEF FilesFit

LEMMA InitInv ==
  ASSUME Init
  PROVE  Inv
<1>1. CallsFit
  <2>1. ASSUME NEW p \in Processes PROVE Progress(p) /\ call[p].filling = FALSE
    <3>1. PICK op, r, todo : op = "none" /\ r = <<>> /\ todo = <<>>
      OBVIOUS
    <3>2. call[p] = [op |-> op, subject |-> r, todo |-> todo, filling |-> FALSE]
      BY <3>1 DEF Init, Idle
    <3>3. SubjectFits(op, r)
      BY <3>1 DEF SubjectFits
    <3>4. PICK plan : plan = Plan(op, r)
      OBVIOUS
    <3>5. plan = <<>>
      BY <3>1, <3>4 DEF Plan
    <3>6. Left(todo, plan)
      BY <3>1, <3>3, <3>4, <3>5, PlanLength, WholePlan
    <3>7. Progress(p)
      BY <3>2, <3>3, <3>4, <3>6 DEF Progress
    <3> QED
      BY <3>2, <3>7
  <2>2. FillsFit
    BY <2>1 DEF FillsFit, Opened
  <2>3. call = [p \in Processes |-> call[p]]
    BY DEF Init
  <2> QED
    BY <2>1, <2>2, <2>3 DEF CallsFit
<1>2. KnownFits
  <2>1. known \in [Processes -> [Identities -> Revisions \cup {None}]]
    BY DEF Init
  <2>2. \A p \in Processes, i \in Identities : known[p][i] \notin Revisions
    BY IntakeAssumption DEF Init
  <2> QED
    BY <2>1, <2>2 DEF KnownFits
<1> QED
  BY <1>1, <1>2, InitialFiles DEF Inv

\* The files hold what they announce, each process is at a step of its plan whose
\* earlier steps are done, and a registry knows what is on disk.
THEOREM Invariant == Spec => []Inv
<1>1. Init => Inv
  BY InitInv
<1>2. Inv /\ [Next]_vars => Inv'
  BY InvStep
<1> QED
  BY <1>1, <1>2, PTL DEF Spec

-----------------------------------------------------------------------------
(***************************************************************************)
(* The properties.                                                         *)
(***************************************************************************)
LEMMA TypesHold ==
  ASSUME Inv
  PROVE  TypeOK
<1>1. \A x \in DOMAIN file : x[1] \in Kinds
  BY DEF Inv, FilesFit, FilesNamed, Exists
<1>2. ASSUME NEW p \in Processes
      PROVE  /\ call[p].op \in {"none", "evidence", "create", "verified", "transition"}
             /\ call[p].filling \in BOOLEAN
  <2>1. PICK op, r, todo, filling :
          /\ call[p] = Call(op, r, todo, filling) /\ filling \in BOOLEAN /\ SubjectFits(op, r)
    BY CallOf DEF Inv, CallsFit
  <2>2. call[p].op = op /\ call[p].filling = filling
    BY <2>1, CallFields
  <2> QED
    BY <2>1, <2>2 DEF SubjectFits
<1>3. \A p \in Processes : call[p].filling => Runs(p, "write")
  BY DEF Inv, CallsFit, FillsFit
<1> QED
  BY <1>1, <1>2, <1>3 DEF TypeOK, Inv, KnownFits

LEMMA VisibleFile ==
  FilesFit =>
    /\ \A i \in Identities : \A r : Holds(<<"index", i, 2>>, r) => Visible(i) = r
    /\ \A i \in Identities : \A r : Holds(<<"locator", i>>, r) =>
         Visible(i) = r \/ Holds(<<"index", i, 2>>, Visible(i))
    /\ \A i \in Identities : (\A r : ~Holds(<<"locator", i>>, r)) => Visible(i) = None
<1> SUFFICES ASSUME FilesFit, NEW i \in Identities
             PROVE  /\ \A r : Holds(<<"index", i, 2>>, r) => Visible(i) = r
                    /\ \A r : Holds(<<"locator", i>>, r) =>
                         Visible(i) = r \/ Holds(<<"index", i, 2>>, Visible(i))
                    /\ (\A r : ~Holds(<<"locator", i>>, r)) => Visible(i) = None
  OBVIOUS
<1>1. ASSUME NEW x, NEW r, Holds(x, r) PROVE Readable(x) /\ file[x] = r
  BY <1>1 DEF Holds, Whole, Readable
<1>2. ASSUME NEW r, Holds(<<"index", i, 2>>, r) PROVE Visible(i) = r
  <2>1. PICK c \in Proposals : Holds(<<"locator", i>>, Created(c))
    BY <1>2 DEF FilesFit, TransitionsFit, Placed
  <2> QED
    BY <1>1, <1>2, <2>1 DEF Visible
<1>3. ASSUME NEW r, Holds(<<"locator", i>>, r)
      PROVE  Visible(i) = r \/ Holds(<<"index", i, 2>>, Visible(i))
  <2>1. CASE Readable(<<"index", i, 2>>)
    BY <1>1, <1>3, <2>1, ReadIs DEF Visible
  <2>2. CASE ~Readable(<<"index", i, 2>>)
    BY <1>1, <1>3, <2>2 DEF Visible
  <2> QED
    BY <2>1, <2>2
<1>4. ASSUME \A r : ~Holds(<<"locator", i>>, r) PROVE Visible(i) = None
  BY <1>4, ReadIs DEF Visible
<1> QED
  BY <1>2, <1>3, <1>4

LEMMA OneContent ==
  ASSUME NEW x, NEW y, NEW z, Holds(x, y), Holds(x, z)
  PROVE  y = z
  BY DEF Holds, Whole

LEMMA VisibleIs ==
  ASSUME Inv, NEW i \in Identities, NEW v, v = Visible(i), v # None
  PROVE  \E c \in Proposals :
           /\ Complete(i, c) /\ Placed(i, c) /\ v[1] = c
           /\ v = Created(c) \/ \E s \in Terminal : v = <<c, s>> /\ Recorded(i, c, s)
<1>1. PICK l : Holds(<<"locator", i>>, l)
  BY VisibleFile DEF Inv
<1>2. PICK c \in Proposals : l = Created(c) /\ Complete(i, c)
  BY <1>1 DEF Inv, FilesFit, CreationsFit
<1>3. Placed(i, c)
  BY <1>1, <1>2 DEF Placed, Complete
<1>4. CASE v = l
  BY <1>2, <1>3, <1>4 DEF Created
<1>5. CASE v # l
  <2>1. Holds(<<"index", i, 2>>, v)
    BY <1>1, <1>5, VisibleFile DEF Inv
  <2>2. PICK d \in Proposals, s \in Terminal :
          v = <<d, s>> /\ Placed(i, d) /\ Recorded(i, d, s)
    BY <2>1 DEF Inv, FilesFit, TransitionsFit
  <2>3. Created(d) = Created(c)
    BY <1>1, <1>2, <2>2, OneContent DEF Placed
  <2>4. d = c
    BY <2>3 DEF Created
  <2> QED
    BY <1>2, <1>3, <2>2, <2>4
<1> QED
  BY <1>4, <1>5

LEMMA VisibleHolds ==
  ASSUME Inv
  PROVE  VisibleIsWhole
<1> SUFFICES ASSUME NEW i \in Identities, NEW v, v = Visible(i), v # None
             PROVE  /\ \A fact \in Creation(v[1]) : Whole(fact[1], fact[2])
                    /\ HasRun(EvidenceOf[v[1]])
                    /\ Whole(<<"candidate", v>>, v)
                    /\ Whole(<<"receipt", v>>, v)
                    /\ v[2] = "conformance-passed" => Whole(<<"evidence", v[1]>>, v[1])
  BY Zenon DEF VisibleIsWhole
<1>1. PICK c \in Proposals :
        /\ Complete(i, c) /\ v[1] = c
        /\ v = Created(c) \/ \E s \in Terminal : v = <<c, s>> /\ Recorded(i, c, s)
  BY VisibleIs
<1>2. HasRun(EvidenceOf[c]) /\ \A fact \in Creation(c) : Whole(fact[1], fact[2])
  BY <1>1 DEF Complete, Holds
<1>3. CASE v = Created(c)
  <2>1. PICK one, two : one = <<<<"candidate", v>>, v>> /\ two = <<<<"receipt", v>>, v>>
    OBVIOUS
  <2>2. one \in Creation(c) /\ two \in Creation(c)
    BY <1>3, <2>1 DEF Creation
  <2>3. Whole(one[1], one[2]) /\ Whole(two[1], two[2])
    BY <1>2, <2>2
  <2>4. Whole(<<"candidate", v>>, v) /\ Whole(<<"receipt", v>>, v)
    BY <2>1, <2>3
  <2>5. v[2] # "conformance-passed"
    BY <1>3 DEF Created
  <2> QED
    BY <1>1, <1>2, <2>4, <2>5
<1>4. CASE \E s \in Terminal : v = <<c, s>> /\ Recorded(i, c, s)
  <2>1. PICK s \in Terminal : v = <<c, s>> /\ Recorded(i, c, s)
    BY <1>4
  <2> QED
    BY <1>1, <1>2, <2>1 DEF Recorded, Holds
<1> QED
  BY <1>1, <1>3, <1>4

LEMMA ClaimantsHold ==
  ASSUME Inv
  PROVE  OnlyClaimantsWrite
<1> SUFFICES ASSUME NEW c \in Proposals, NEW i, i = IdentityOf[c]
             PROVE  /\ Exists(<<"candidate", Created(c)>>) => Whole(<<"claim", i, 1>>, c)
                    /\ Whole(<<"claim", i, 1>>, c) =>
                         \A x \in {<<"index", i, 1>>, <<"locator", i>>} :
                           Readable(x) => file[x] = Created(c)
                    /\ \A s \in Terminal :
                         /\ Exists(<<"candidate", <<c, s>>>>) => Whole(<<"claim", i, 2>>, <<c, s>>)
                         /\ Whole(<<"claim", i, 2>>, <<c, s>>) /\ Readable(<<"index", i, 2>>) =>
                              file[<<"index", i, 2>>] = <<c, s>>
  BY Zenon DEF OnlyClaimantsWrite
<1>1. i \in Identities
  BY IntakeAssumption
<1>2. Exists(<<"candidate", Created(c)>>) => Whole(<<"claim", i, 1>>, c)
  BY DEF Inv, FilesFit, CreationsFit, Claims, Holds
<1>3. ASSUME Whole(<<"claim", i, 1>>, c), Readable(<<"index", i, 1>>)
      PROVE  file[<<"index", i, 1>>] = Created(c)
  <2>1. PICK r : r = file[<<"index", i, 1>>] /\ Holds(<<"index", i, 1>>, r)
    BY <1>3, ReadIs
  <2>2. PICK d \in Proposals : r = Created(d) /\ Claims(i, d)
    BY <1>1, <2>1 DEF Inv, FilesFit, CreationsFit
  <2>3. d = c
    BY <1>3, <2>2 DEF Claims, Holds, Whole
  <2> QED
    BY <2>1, <2>2, <2>3
<1>4. ASSUME Whole(<<"claim", i, 1>>, c), Readable(<<"locator", i>>)
      PROVE  file[<<"locator", i>>] = Created(c)
  <2>1. PICK r : r = file[<<"locator", i>>] /\ Holds(<<"locator", i>>, r)
    BY <1>4, ReadIs
  <2>2. PICK d \in Proposals : r = Created(d) /\ Complete(i, d)
    BY <1>1, <2>1 DEF Inv, FilesFit, CreationsFit
  <2>3. PICK fact : fact = <<<<"claim", IdentityOf[d], 1>>, d>>
    OBVIOUS
  <2>4. fact \in Creation(d)
    BY <2>3 DEF Creation
  <2>5. Holds(fact[1], fact[2])
    BY <2>2, <2>4 DEF Complete
  <2>6. Holds(<<"claim", i, 1>>, d)
    BY <2>2, <2>3, <2>5 DEF Complete
  <2>7. d = c
    BY <1>4, <2>6 DEF Holds, Whole
  <2> QED
    BY <2>1, <2>2, <2>7
<1>5. ASSUME NEW s \in Terminal
      PROVE  /\ Exists(<<"candidate", <<c, s>>>>) => Whole(<<"claim", i, 2>>, <<c, s>>)
             /\ Whole(<<"claim", i, 2>>, <<c, s>>) /\ Readable(<<"index", i, 2>>) =>
                  file[<<"index", i, 2>>] = <<c, s>>
  <2>1. Exists(<<"candidate", <<c, s>>>>) => Whole(<<"claim", i, 2>>, <<c, s>>)
    BY DEF Inv, FilesFit, TransitionsFit, Holds
  <2>2. ASSUME Whole(<<"claim", i, 2>>, <<c, s>>), Readable(<<"index", i, 2>>)
        PROVE  file[<<"index", i, 2>>] = <<c, s>>
    <3>1. PICK r : r = file[<<"index", i, 2>>] /\ Holds(<<"index", i, 2>>, r)
      BY <2>2, ReadIs
    <3>2. PICK d \in Proposals, t \in Terminal : r = <<d, t>> /\ Recorded(i, d, t)
      BY <1>1, <3>1 DEF Inv, FilesFit, TransitionsFit
    <3>3. <<d, t>> = <<c, s>>
      BY <2>2, <3>2 DEF Recorded, Holds, Whole
    <3> QED
      BY <3>1, <3>2, <3>3
  <2> QED
    BY <2>1, <2>2
<1> QED
  BY <1>2, <1>3, <1>4, <1>5

LEMMA DurableHolds ==
  ASSUME Inv
  PROVE  KnownIsDurable
<1> SUFFICES ASSUME NEW p \in Processes, NEW i \in Identities, NEW r, r = known[p][i], r # None
             PROVE  /\ Visible(i) # None /\ Visible(i)[1] = r[1]
                    /\ r[2] # "quarantined" => Visible(i) = r
  BY DEF KnownIsDurable
<1>1. r \in Revisions /\ Known(i, r)
  BY DEF Inv, KnownFits
<1>2. PICK c \in Proposals : c = r[1] /\ Placed(i, c)
  BY <1>1 DEF Known, Revisions
<1>3. Holds(<<"locator", i>>, Created(c))
  BY <1>2 DEF Placed
<1>4. Visible(i) # None /\ Visible(i)[1] = c
  <2>1. CASE Visible(i) = Created(c)
    BY <1>2, <2>1, IntakeAssumption DEF Created, Revisions
  <2>2. CASE Holds(<<"index", i, 2>>, Visible(i))
    <3>1. PICK v : v = Visible(i)
      OBVIOUS
    <3>2. PICK d \in Proposals, s \in Terminal : v = <<d, s>> /\ Placed(i, d)
      BY <2>2, <3>1 DEF Inv, FilesFit, TransitionsFit
    <3>3. Created(d) = Created(c)
      BY <1>3, <3>2, OneContent DEF Placed
    <3>4. d = c /\ v # None
      BY <3>2, <3>3, IntakeAssumption DEF Created, Revisions
    <3> QED
      BY <3>1, <3>2, <3>4
  <2> QED
    BY <1>3, <2>1, <2>2, VisibleFile DEF Inv
<1>5. r[2] # "quarantined" => Visible(i) = r
  BY <1>1, VisibleFile DEF Inv, Known
<1> QED
  BY <1>2, <1>4, <1>5

LEMMA ChainHolds ==
  ASSUME Inv
  PROVE  RunIsOneChain
<1> SUFFICES ASSUME NEW e \in Executions, NEW n \in 1 .. Phases, Readable(<<"index", e, n>>),
                    NEW r, r = file[<<"index", e, n>>]
             PROVE  /\ r[1] = e /\ r[3] = n
                    /\ Whole(<<"receipt", r>>, r)
                    /\ n > 1 => Whole(<<"index", e, n - 1>>, <<e, r[2], n - 1>>)
  BY DEF RunIsOneChain
<1>1. Receipted(e, n, r)
  BY ReadIs DEF Inv, FilesFit, RunsFit
<1> QED
  BY <1>1 DEF Receipted, Receipt, Holds

\* What is visible is whole, although a process may die between two writes.
THEOREM VisibleStaysWhole == Spec => []VisibleIsWhole
  BY Invariant, VisibleHolds, PTL

\* Only the holder of a claim leaves records of its own, indices and locators.
THEOREM ClaimantsWriteOnly == Spec => []OnlyClaimantsWrite
  BY Invariant, ClaimantsHold, PTL

\* What a registry returned is on disk, whoever dies.
THEOREM RegistryIsDurable == Spec => []KnownIsDurable
  BY Invariant, DurableHolds, PTL

\* The receipts of an evidence run are one chain.
THEOREM RunsAreChains == Spec => []RunIsOneChain
  BY Invariant, ChainHolds, PTL

\* Every variable holds a value of its type.
THEOREM IntakeTypes == Spec => []TypeOK
  BY Invariant, TypesHold, PTL

-----------------------------------------------------------------------------
(***************************************************************************)
(* The store implements the timeline of Candidates.                        *)
(***************************************************************************)
LEMMA FileChange ==
  ASSUME Inv, [Next]_vars
  PROVE  \/ UNCHANGED file
         \/ \E path, wanted : Permitted(path, wanted) /\ FilesGrow(path, wanted)
<1>1. ASSUME NEW p \in Processes, OpenFile(p) \/ FillFile(p)
      PROVE  \E path, wanted : Permitted(path, wanted) /\ FilesGrow(path, wanted)
  <2>1. PICK path, wanted :
          path = Head(call[p].todo).path /\ wanted = Head(call[p].todo).content
    OBVIOUS
  <2>2. Permitted(path, wanted)
    BY <1>1, <2>1, WriteStep DEF OpenFile, FillFile, Inv
  <2>3. CASE OpenFile(p)
    <3>1. ~Exists(path) /\ Fills(path, Torn)
      BY <2>1, <2>3 DEF OpenFile, MayOpen
    <3> QED
      BY <2>2, <3>1, FillsGrow
  <2>4. CASE FillFile(p)
    <3>1. Fills(path, wanted) /\ Opened(p, path)
      BY <2>1, <2>4 DEF FillFile, Opened
    <3>2. Whole(path, Torn)
      BY <3>1 DEF Inv, CallsFit, FillsFit
    <3> QED
      BY <2>2, <3>1, <3>2, FillsGrow
  <2> QED
    BY <1>1, <2>3, <2>4
<1>2. ASSUME NEW p \in Processes, Steps(p), ~OpenFile(p), ~FillFile(p)
      PROVE  UNCHANGED file
  BY <1>2 DEF Steps, AcceptFile, PassCheck, Raise
<1>3. ASSUME NEW p \in Processes, Operations(p)
      PROVE  UNCHANGED file
  BY <1>3 DEF Operations, BeginEvidence, AppendNext, FinishEvidence, BeginCreate, FinishCreate,
     VerifyIdentity, BeginTransition, CommitTransition, FinishTransition, Die
<1>4. CASE UNCHANGED vars
  BY <1>4 DEF vars
<1> QED
  BY <1>1, <1>2, <1>3, <1>4 DEF Next

\* One identity takes its first revision, or its terminal one; the others stay.
Appears(i, c)    == Visible(i) = None /\ Visible(i)' = Created(c)
Settles(i, c, s) == Visible(i) = Created(c) /\ Visible(i)' = <<c, s>>

VisibleFits ==
  /\ \A i \in Identities : \A r : Holds(<<"index", i, 2>>, r) => Visible(i) = r
  /\ \A i \in Identities : \A r : Holds(<<"locator", i>>, r) =>
       Visible(i) = r \/ \E v : v = Visible(i) /\ Holds(<<"index", i, 2>>, v)
  /\ \A i \in Identities : (\A r : ~Holds(<<"locator", i>>, r)) => Visible(i) = None

LEMMA VisibleFileAfter ==
  FilesFit' =>
    /\ \A i \in Identities : \A r : Holds(<<"index", i, 2>>, r)' => Visible(i)' = r
    /\ \A i \in Identities : \A r : Holds(<<"locator", i>>, r)' =>
         Visible(i)' = r \/ \E v : v = Visible(i)' /\ Holds(<<"index", i, 2>>, v)'
    /\ \A i \in Identities : (\A r : ~Holds(<<"locator", i>>, r)') => Visible(i)' = None
<1>1. FilesFit => VisibleFits
  BY VisibleFile DEF VisibleFits
<1>2. FilesFit' => VisibleFits'
  BY <1>1, PTL
<1> QED
  BY <1>2 DEF VisibleFits

LEMMA VisibleSame ==
  ASSUME FilesFit, FilesFit', NEW i \in Identities,
         \A x \in {<<"locator", i>>, <<"index", i, 2>>} : \A y : Holds(x, y)' <=> Holds(x, y)
  PROVE  Visible(i)' = Visible(i)
<1>1. CASE \E r : Holds(<<"index", i, 2>>, r)
  <2>1. PICK r : Holds(<<"index", i, 2>>, r)
    BY <1>1
  <2>2. Holds(<<"index", i, 2>>, r)'
    BY <2>1
  <2> QED
    BY <2>1, <2>2, VisibleFile, VisibleFileAfter
<1>2. CASE ~\E r : Holds(<<"index", i, 2>>, r)
  <2>1. \A r : ~Holds(<<"index", i, 2>>, r) /\ ~Holds(<<"index", i, 2>>, r)'
    BY <1>2
  <2>2. CASE \E r : Holds(<<"locator", i>>, r)
    <3>1. PICK r : Holds(<<"locator", i>>, r)
      BY <2>2
    <3>2. Holds(<<"locator", i>>, r)'
      BY <3>1
    <3>3. Visible(i) = r
      BY <2>1, <3>1, VisibleFile
    <3>4. Visible(i)' = r
      BY <2>1, <3>2, VisibleFileAfter
    <3> QED
      BY <3>3, <3>4
  <2>3. CASE ~\E r : Holds(<<"locator", i>>, r)
    <3>1. \A r : ~Holds(<<"locator", i>>, r) /\ ~Holds(<<"locator", i>>, r)'
      BY <2>3
    <3> QED
      BY <3>1, VisibleFile, VisibleFileAfter
  <2> QED
    BY <2>2, <2>3
<1> QED
  BY <1>1, <1>2

LEMMA VisibleChange ==
  ASSUME FilesFit, FilesFit', NEW path, NEW wanted, Permitted(path, wanted),
         FilesGrow(path, wanted), NEW i \in Identities,
         path \in {<<"locator", i>>, <<"index", i, 2>>}
  PROVE  \/ Visible(i)' = Visible(i)
         \/ \E c \in Proposals : Appears(i, c) \/ \E s \in Terminal : Settles(i, c, s)
<1>1. /\ \A x, y : Holds(x, y) => Holds(x, y)'
      /\ \A x, y : Holds(x, y)' => Holds(x, y) \/ (x = path /\ y = wanted)
  BY DEF FilesGrow
<1>2. CASE Holds(path, wanted)' => Holds(path, wanted)
  <2>1. \A x, y : Holds(x, y)' <=> Holds(x, y)
    BY <1>1, <1>2
  <2> QED
    BY <2>1, VisibleSame
<1>3. CASE Holds(path, wanted)' /\ ~Holds(path, wanted) /\ path = <<"locator", i>>
  <2>1. PICK c \in Proposals : wanted = Created(c) /\ Complete(i, c)
    BY <1>3, PermittedIndex
  <2>2. \A r : ~Holds(path, r)
    <3>1. ASSUME NEW r, Holds(path, r) PROVE FALSE
      <4>1. Holds(path, r)'
        BY <1>1, <3>1
      <4>2. r = wanted
        BY <1>3, <4>1 DEF Holds, Whole
      <4> QED
        BY <1>3, <3>1, <4>2
    <3> QED
      BY <3>1
  <2>3. Visible(i) = None
    BY <1>3, <2>2, VisibleFile
  <2>4. \A r : ~Holds(<<"index", i, 2>>, r)'
    <3>1. ASSUME NEW r, Holds(<<"index", i, 2>>, r) PROVE FALSE
      <4>1. PICK d \in Proposals : Holds(<<"locator", i>>, Created(d))
        BY <3>1 DEF FilesFit, TransitionsFit, Placed
      <4> QED
        BY <1>3, <2>2, <4>1
    <3>2. path # <<"index", i, 2>>
      BY <1>3
    <3> QED
      BY <1>1, <3>1, <3>2
  <2>5. Visible(i)' = wanted
    BY <1>3, <2>4, VisibleFileAfter
  <2> QED
    BY <2>1, <2>3, <2>5 DEF Appears
<1>4. CASE Holds(path, wanted)' /\ ~Holds(path, wanted) /\ path = <<"index", i, 2>>
  <2>1. PICK c \in Proposals, s \in Terminal : wanted = <<c, s>> /\ Placed(i, c)
    BY <1>4, PermittedIndex
  <2>2. \A r : ~Holds(path, r)
    <3>1. ASSUME NEW r, Holds(path, r) PROVE FALSE
      <4>1. Holds(path, r)'
        BY <1>1, <3>1
      <4>2. r = wanted
        BY <1>4, <4>1 DEF Holds, Whole
      <4> QED
        BY <1>4, <3>1, <4>2
    <3> QED
      BY <3>1
  <2>3. Visible(i) = Created(c)
    BY <1>4, <2>1, <2>2, VisibleFile DEF Placed
  <2>4. Visible(i)' = wanted
    BY <1>4, VisibleFileAfter
  <2> QED
    BY <2>1, <2>3, <2>4 DEF Settles
<1> QED
  BY <1>2, <1>3, <1>4

LEMMA TimelineStep ==
  ASSUME Inv, Inv', [Next]_vars
  PROVE  [Timeline!Next]_[i \in Identities |-> Visible(i)]
<1> DEFINE current == [i \in Identities |-> Visible(i)]
<1>1. CASE \A i \in Identities : Visible(i)' = Visible(i)
  <2>1. current' = current
    BY <1>1
  <2> QED
    BY <2>1
<1>2. CASE \E j \in Identities : Visible(j)' # Visible(j)
  <2>1. PICK j \in Identities : Visible(j)' # Visible(j)
    BY <1>2
  <2>2. PICK path, wanted : Permitted(path, wanted) /\ FilesGrow(path, wanted)
    <3>1. ~UNCHANGED file
      BY <2>1 DEF Visible, Readable, Exists
    <3> QED
      BY <3>1, FileChange
  <2>3. ASSUME NEW i \in Identities, path \notin {<<"locator", i>>, <<"index", i, 2>>}
        PROVE  Visible(i)' = Visible(i)
    <3>1. \A x \in {<<"locator", i>>, <<"index", i, 2>>} : \A y : Holds(x, y)' <=> Holds(x, y)
      BY <2>2, <2>3 DEF FilesGrow
    <3> QED
      BY <3>1, VisibleSame DEF Inv
  <2>4. path \in {<<"locator", j>>, <<"index", j, 2>>}
    BY <2>1, <2>3
  <2>5. \A i \in Identities : i # j => Visible(i)' = Visible(i)
    BY <2>3, <2>4
  <2>6. PICK c \in Proposals : Appears(j, c) \/ \E s \in Terminal : Settles(j, c, s)
    BY <2>1, <2>2, <2>4, VisibleChange DEF Inv
  <2>7. ASSUME NEW v, v = Visible(j)' PROVE current' = [current EXCEPT ![j] = v]
    BY <2>5, <2>7
  <2>8. CASE Appears(j, c)
    <3>1. current' = [current EXCEPT ![j] = <<c, "quarantined">>]
      BY <2>7, <2>8 DEF Appears, Created
    <3>2. current[j] = None
      BY <2>8 DEF Appears
    <3>3. Timeline!Quarantine(j, c)
      BY <3>1, <3>2 DEF Timeline!Quarantine
    <3> QED
      BY <3>3 DEF Timeline!Next
  <2>9. CASE \E s \in Terminal : Settles(j, c, s)
    <3>1. PICK s \in Terminal : Settles(j, c, s)
      BY <2>9
    <3>2. current' = [current EXCEPT ![j] = <<c, s>>]
      BY <2>7, <3>1 DEF Settles
    <3>3. current[j] = <<c, "quarantined">>
      BY <3>1 DEF Settles, Created
    <3>4. Timeline!Decide(j, c, s)
      BY <3>2, <3>3 DEF Timeline!Decide
    <3> QED
      BY <3>4 DEF Timeline!Next
  <2> QED
    BY <2>6, <2>8, <2>9
<1> QED
  BY <1>1, <1>2

\* What the files show of each identity follows the timeline: nothing, one proposal
\* quarantined, then at most one terminal status (claimCandidateCreation,
\* commitCandidateTransition), with any number of processes that die anywhere.
THEOREM StoreFollowsTimeline == Spec => ImplementsTimeline
<1>1. Init => Timeline!Init
  <2> SUFFICES ASSUME Init PROVE Timeline!Init
    OBVIOUS
  <2>1. FilesFit
    BY InitialFiles
  <2>2. ASSUME NEW i \in Identities PROVE Visible(i) = None
    <3>1. ~Exists(<<"locator", i>>)
      BY DEF Init, RunFiles, Exists
    <3> QED
      BY <3>1 DEF Visible, Readable
  <2> QED
    BY <2>2 DEF Timeline!Init
<1>2. Inv /\ Inv' /\ [Next]_vars => [Timeline!Next]_[i \in Identities |-> Visible(i)]
  BY TimelineStep
<1> QED
  BY <1>1, <1>2, Invariant, PTL DEF Spec, ImplementsTimeline, Timeline!Spec
=============================================================================
