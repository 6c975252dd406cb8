--------------------------- MODULE RevisionLedger ---------------------------
(***************************************************************************)
(* The revision ledger of the Control Plane: the Draft and Published       *)
(* Revisions of each application, and the handlers that append to it       *)
(* (apps/control-plane/src/lifecycle.service.ts, and approveDraftDiff of   *)
(* verification/verification.service.ts).                                  *)
(*                                                                         *)
(* A revision number is computed from a row read earlier, outside any      *)
(* lock; the unique constraints of the two tables decide between writers.  *)
(* A Graph is abstracted to its format and the name in its metadata, a     *)
(* row to that, to what produced it and to the Draft it was computed from. *)
(***************************************************************************)
EXTENDS Naturals, FiniteSets

CONSTANTS
  Applications,  \* keys of applications, unique in the one workspace
  Names,         \* application names
  Clients,       \* concurrent requests
  Reviews,       \* identities of composition reviews
  None,
  MaxDrafts      \* bound: Drafts of an application

ASSUME LedgerAssumption ==
  /\ IsFiniteSet(Applications)
  /\ None \notin Applications \cup Reviews \cup Names
  /\ Reviews \cap {"client", "proposal", "diff", "template", "review"} = {}
  /\ MaxDrafts \in Nat \ {0}

VARIABLES
  drafts,     \* DraftRevision rows of an application, by revisionNumber
  published,  \* PublishedRevision rows: the Draft published, by revisionNumber
  app,        \* the ApplicationGraph row: its name and templateOrigin
  req         \* the requests being handled

Formats == {"v1", "v3"}
Authors == {"client", "proposal", "diff", "template", "review"} \cup Reviews

\* The largest of a set of revision numbers, 0 when there is none.
Largest(S) == CHOOSE n \in S \cup {0} : \A m \in S : m <= n

Newest(a)  == Largest(DOMAIN drafts[a])
Exists(a)  == DOMAIN drafts[a] # {}
Latest(a)  == drafts[a][Newest(a)]

Idle == [pc |-> "idle", app |-> None, num |-> 0, next |-> 0,
         review |-> None, choice |-> None]

Row(base, by, format, name) ==
  [base |-> base, by |-> by, format |-> format, name |-> name]

With(rows, n, row) == [m \in DOMAIN rows \cup {n} |-> IF m = n THEN row ELSE rows[m]]

\* Mutant of NumberFree: the table without @@unique([applicationGraphId, revisionNumber]).
NumberAny(rows, n) == TRUE

NumberFree(rows, n) == n \notin DOMAIN rows

(***************************************************************************)
(* One insert of a Draft row: P2002 when its number is taken.              *)
(***************************************************************************)
InsertDraft(a, n, row) ==
  /\ NumberFree(drafts[a], n)
  /\ drafts' = [drafts EXCEPT ![a] = With(@, n, row)]

Begin(k, pc, a, n) ==
  /\ req[k] = Idle
  /\ req' = [req EXCEPT ![k] = [Idle EXCEPT !.pc = pc, !.app = a, !.num = n]]

Finish(k) == req' = [req EXCEPT ![k] = Idle]

\* The application row and its Draft 1 are one nested create; the unique
\* (workspaceId, key) refuses a key that exists.
InsertApplication(a, name, origin, row) ==
  /\ ~Exists(a)
  /\ drafts' = [drafts EXCEPT ![a] = With(@, 1, row)]
  /\ app' = [app EXCEPT ![a] = [name |-> name, origin |-> origin]]

\* createLocalApplicationGraph, which importPublishedGraph also ends in.
CreateLocalApplicationGraph(k, a, name) ==
  /\ req[k] = Idle
  /\ InsertApplication(a, name, FALSE, Row(0, "client", "v1", name))
  /\ UNCHANGED <<published, req>>

(***************************************************************************)
(* appendDraftRevision: the client sends a whole V1 Graph, computed from   *)
(* no particular Draft; its name need not be the application's.            *)
(***************************************************************************)
ReadLatestToAppend(k, a) ==
  /\ Exists(a) /\ Newest(a) < MaxDrafts
  /\ Begin(k, "append", a, Newest(a))
  /\ UNCHANGED <<drafts, published, app>>

AppendDraftRevision(k) ==
  /\ req[k].pc = "append"
  /\ \/ \E name \in Names :
          InsertDraft(req[k].app, req[k].num + 1, Row(0, "client", "v1", name))
     \/ /\ ~NumberFree(drafts[req[k].app], req[k].num + 1)
        /\ UNCHANGED drafts
  /\ Finish(k)
  /\ UNCHANGED <<published, app>>

(***************************************************************************)
(* proposeDraftRevision asks the provider for a diff of the latest Draft   *)
(* and appends the patched Graph; approveDraftDiff, of a verification run  *)
(* of a publication, patches it with the diff the client sends.  A diff    *)
(* the provider or the client gets wrong is refused and appends nothing.   *)
(***************************************************************************)
ReadLatestToPatch(k, a, by) ==
  /\ Exists(a) /\ Newest(a) < MaxDrafts
  /\ by = "diff" => DOMAIN published[a] # {}
  /\ Latest(a).format = "v1"
  /\ Begin(k, by, a, Newest(a))
  /\ UNCHANGED <<drafts, published, app>>

AppendPatched(k) ==
  /\ req[k].pc \in {"proposal", "diff"}
  /\ LET a == req[k].app
         n == req[k].num
     IN \/ InsertDraft(a, n + 1, Row(n, req[k].pc, "v1", drafts[a][n].name))
        \/ UNCHANGED drafts
  /\ Finish(k)
  /\ UNCHANGED <<published, app>>

(***************************************************************************)
(* publishDraft and publishDraftV3: a READ COMMITTED transaction that      *)
(* looks for a publication of the Draft, counts the application's          *)
(* publications and inserts the next; two unique constraints guard it.     *)
(***************************************************************************)
Sources(rows) == {rows[n] : n \in DOMAIN rows}

FindPublished(k, a, d) ==
  /\ d \in DOMAIN drafts[a]
  /\ d \notin Sources(published[a])
  /\ Begin(k, "count", a, d)
  /\ UNCHANGED <<drafts, published, app>>

\* Mutant of CountPublished: the next number is the count.
CountPublishedAsNumber(k) ==
  /\ req[k].pc = "count"
  /\ req' = [req EXCEPT ![k] =
       [@ EXCEPT !.pc = "publish", !.next = Cardinality(DOMAIN published[req[k].app])]]
  /\ UNCHANGED <<drafts, published, app>>

CountPublished(k) ==
  /\ req[k].pc = "count"
  /\ req' = [req EXCEPT ![k] =
       [@ EXCEPT !.pc = "publish", !.next = Cardinality(DOMAIN published[req[k].app]) + 1]]
  /\ UNCHANGED <<drafts, published, app>>

SourceFree(rows, d) == d \notin Sources(rows)

InsertPublished(k) ==
  /\ req[k].pc = "publish"
  /\ LET rows == published[req[k].app]
         n == req[k].next
         d == req[k].num
     IN IF NumberFree(rows, n) /\ SourceFree(rows, d)
        THEN published' = [published EXCEPT ![req[k].app] = With(@, n, d)]
        ELSE UNCHANGED published
  /\ Finish(k)
  /\ UNCHANGED <<drafts, app>>

LedgerInit ==
  /\ drafts = [a \in Applications |-> <<>>]
  /\ published = [a \in Applications |-> <<>>]
  /\ app = [a \in Applications |-> [name |-> None, origin |-> FALSE]]
  /\ req = [k \in Clients |-> Idle]

LedgerNext ==
  \/ \E k \in Clients, a \in Applications :
       \/ \E name \in Names : CreateLocalApplicationGraph(k, a, name)
       \/ ReadLatestToAppend(k, a)
       \/ \E by \in {"proposal", "diff"} : ReadLatestToPatch(k, a, by)
       \/ \E d \in DOMAIN drafts[a] : FindPublished(k, a, d)
  \/ \E k \in Clients :
       \/ AppendDraftRevision(k)
       \/ AppendPatched(k)
       \/ CountPublished(k)
       \/ InsertPublished(k)
=============================================================================
