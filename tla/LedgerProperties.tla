-------------------------- MODULE LedgerProperties --------------------------
(***************************************************************************)
(* What the revision ledger, its reviews and its template edits guarantee. *)
(***************************************************************************)
EXTENDS TemplateDrafts

Rows == [base : 0 .. MaxDrafts, by : Authors, format : Formats, name : Names]

Pcs == {"idle", "append", "proposal", "diff", "count", "publish", "require", "plan",
        "planned", "decide", "apply", "reread", "applied", "mark", "choose", "chosen"}

\* Every variable holds a value of its type.
TypeOK ==
  /\ \A a \in Applications :
       /\ DOMAIN drafts[a] \subseteq 1 .. MaxDrafts
       /\ \A n \in DOMAIN drafts[a] : drafts[a][n] \in Rows
       /\ DOMAIN published[a] \subseteq Nat \ {0}
       /\ Sources(published[a]) \subseteq DOMAIN drafts[a]
  /\ app \in [Applications -> [name : Names \cup {None}, origin : BOOLEAN]]
  /\ req \in [Clients -> [pc : Pcs, app : Applications \cup {None}, num : Nat, next : Nat,
                          review : Reviews \cup {None},
                          choice : Decisions \cup Alternatives \cup {None}]]
  /\ review \in [Reviews -> [kind : {"none", "composition", "product", "restaurant"},
                             app : Applications \cup {None}, base : Nat,
                             vague : BOOLEAN, clarified : BOOLEAN,
                             plan : Alternatives \cup {None, "planner"},
                             status : {"none", "planning", "clarification_required",
                                       "planned", "applied"} \cup Decisions,
                             decision : Decisions \cup Alternatives \cup {None}]]
  /\ snapshot \in [Applications -> 0 .. MaxDrafts]

\* The tables of the ledger implement one history of Drafts and publications:
\* whatever the interleaving of the reads and the inserts, a number is never
\* skipped or reused, and no proposal, verification diff, product application or
\* template edit silently undoes a revision appended since its base was read.
\* A client sends a whole Graph, and a composition review checks that the Draft
\* has not moved before appendDraftRevision reads it again: both are free.
History == INSTANCE DraftHistory WITH
  history <- drafts, releases <- published,
  Drafts <- Rows, Free <- {"client", "review"}
ImplementsHistory == History!Spec

\* A product review that the composition service has planned or decided: it
\* accepts a review that is still undecided and updates it by its id alone.
Replanned(r) ==
  \/ review[r].plan = "planner"
  \/ review[r].clarified
  \/ review[r].decision \in Decisions

\* A product review whose plan was chosen and that is applied has produced the
\* Draft after its base, which reconstructAppliedProduct looks up by number
\* alone; a review produces no other Draft, so it is applied once; and as long
\* as the composition service has not rewritten it, it then is applied.
AppliedProductIsItsDraft ==
  \A r \in Reviews : IsProduct(r) =>
    LET rows == drafts[review[r].app]
    IN /\ review[r].status = "applied" /\ review[r].decision \in Alternatives =>
            review[r].base + 1 \in DOMAIN rows /\ rows[review[r].base + 1].by = r
       /\ \A n \in DOMAIN rows : rows[n].by = r =>
            /\ n = review[r].base + 1 /\ review[r].decision # None
            /\ Replanned(r) \/ review[r].status = "applied"

\* A Draft that the composition service applied is never unreviewed: a review of
\* that application, bound to the Draft it was computed from, holds a decision
\* of that service, in whatever order the reads and updates of requests ran.
NothingAppliedUndecided ==
  \A a \in Applications : \A n \in DOMAIN drafts[a] :
    drafts[a][n].by = "review" =>
      \E r \in Reviews : /\ review[r].app = a
                         /\ review[r].base = drafts[a][n].base
                         /\ review[r].decision \in Decisions

\* A template application whose latest Draft is a V3 Graph can be opened and
\* edited: the Draft and the application row agree on the name and the origin,
\* across renames, restaurant products and everything else that writes either.
TemplateDraftOpens ==
  \A a \in Applications :
    Exists(a) /\ Latest(a).format = "v3" => Identified(a, Latest(a))

\* The choice of a product plan stands: no concurrent choice replaces the plan or
\* the decision, and unless the composition service rewrites the review it never
\* leaves approved but for applied (chooseProductPlan's updateMany).
ChoiceStands ==
  [][\A r \in Reviews : IsProduct(r) /\ review[r].decision \in Alternatives =>
       /\ review'[r].decision \in {review[r].decision} \cup Decisions
       /\ ~Replanned(r)' => /\ review'[r].plan = review[r].plan
                            /\ review'[r].status \in {review[r].status, "applied"}]_vars
=============================================================================
