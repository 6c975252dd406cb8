---------------------------- MODULE DraftReviews ----------------------------
(***************************************************************************)
(* Composition reviews of a Draft: the governed cycle of                   *)
(* composition/composition.service.ts, whose statements run one by one,    *)
(* and the product journey of composition/product-composition.service.ts,  *)
(* whose creation and application are transactions.                        *)
(*                                                                         *)
(* One table holds the reviews of both services.  The product service      *)
(* refuses a review it did not create; the composition service takes any   *)
(* review of the application, a product's too.                             *)
(*                                                                         *)
(* A plan and its diff are kept as where they come from: the composition   *)
(* planner, or an alternative chosen.  The planner is a function of the    *)
(* requirement and the Draft; vague says that it asks for a clarification. *)
(***************************************************************************)
EXTENDS RevisionLedger

CONSTANTS
  Alternatives   \* keys of the plan alternatives of a product review

VARIABLES
  review         \* CompositionReview rows

Decisions == {"approved", "rejected"}

ASSUME ReviewAssumption ==
  /\ None \notin Alternatives \cup Decisions \cup {"planner"}
  /\ Alternatives \cap (Decisions \cup {"planner"}) = {}

NoReview == [kind |-> "none", app |-> None, base |-> 0, vague |-> FALSE,
             plan |-> None, clarified |-> FALSE, status |-> "none", decision |-> None]

BeginReview(k, pc, r, n) ==
  /\ req[k] = Idle
  /\ req' = [req EXCEPT ![k] = [Idle EXCEPT !.pc = pc, !.app = review[r].app,
                                  !.review = r, !.num = n]]

Step(k, pc) == req' = [req EXCEPT ![k].pc = pc]

\* The Draft must not have moved since the review was created.
Unmoved(r) == Newest(review[r].app) = review[r].base

(***************************************************************************)
(* createRequirement binds a new review to the latest V1 Draft.            *)
(***************************************************************************)
ReadLatestForReview(k, r, a) ==
  /\ review[r] = NoReview
  /\ Exists(a) /\ Latest(a).format = "v1"
  /\ req[k] = Idle
  /\ req' = [req EXCEPT ![k] = [Idle EXCEPT !.pc = "require", !.app = a,
                                  !.review = r, !.num = Newest(a)]]
  /\ UNCHANGED <<drafts, published, app, review>>

CreateRequirement(k) ==
  /\ req[k].pc = "require"
  /\ review[req[k].review] = NoReview
  /\ \E vague \in BOOLEAN :
       review' = [review EXCEPT ![req[k].review] =
         [NoReview EXCEPT !.kind = "composition", !.app = req[k].app,
                          !.base = req[k].num, !.vague = vague, !.status = "planning"]]
  /\ Finish(k)
  /\ UNCHANGED <<drafts, published, app>>

(***************************************************************************)
(* requestPlan: returns a stored plan or clarification; otherwise plans    *)
(* against the review's Draft and updates the row by its id alone.  A      *)
(* product review has neither until a plan is chosen.                      *)
(***************************************************************************)
ReadReviewToPlan(k, r) ==
  /\ review[r].kind # "none"
  /\ review[r].plan = None /\ ~review[r].clarified
  /\ BeginReview(k, "plan", r, 0)
  /\ UNCHANGED <<drafts, published, app, review>>

CheckDraftToPlan(k) ==
  /\ req[k].pc = "plan"
  /\ IF Unmoved(req[k].review) THEN Step(k, "planned") ELSE Finish(k)
  /\ UNCHANGED <<drafts, published, app, review>>

RequestPlan(k) ==
  /\ req[k].pc = "planned"
  /\ LET r == req[k].review
     IN review' = [review EXCEPT ![r] =
       IF review[r].vague
       THEN [@ EXCEPT !.clarified = TRUE, !.status = "clarification_required"]
       ELSE [@ EXCEPT !.plan = "planner", !.status = "planned"]]
  /\ Finish(k)
  /\ UNCHANGED <<drafts, published, app>>

(***************************************************************************)
(* decide: checks the row it read, whose plan and diff the decision names  *)
(* by their checksums, then updates it by its id alone.                    *)
(***************************************************************************)
ReadReviewToDecide(k, r, decision) ==
  /\ review[r].plan = "planner"
  /\ review[r].decision = None
  /\ review[r].status = "planned"
  /\ req[k] = Idle
  /\ req' = [req EXCEPT ![k] = [Idle EXCEPT !.pc = "decide", !.app = review[r].app,
                                  !.review = r, !.choice = decision]]
  /\ UNCHANGED <<drafts, published, app, review>>

Decide(k) ==
  /\ req[k].pc = "decide"
  /\ review' = [review EXCEPT ![req[k].review] =
       [@ EXCEPT !.decision = req[k].choice, !.status = req[k].choice]]
  /\ Finish(k)
  /\ UNCHANGED <<drafts, published, app>>

(***************************************************************************)
(* apply: the status, the plan and diff that the decision approves, the    *)
(* Draft, then appendDraftRevision, which reads the latest Draft again,    *)
(* then the status once more.  A chosen plan is refused: the diff stored   *)
(* with it is not its proposed operations, or is none.                     *)
(***************************************************************************)
\* Mutant of ReadReviewToApply: any planned review is applied.
ReadAnyReviewToApply(k, r) ==
  /\ review[r].plan = "planner"
  /\ BeginReview(k, "apply", r, 0)
  /\ UNCHANGED <<drafts, published, app, review>>

ReadReviewToApply(k, r) ==
  /\ review[r].status = "approved"
  /\ review[r].plan = "planner" /\ review[r].decision = "approved"
  /\ BeginReview(k, "apply", r, 0)
  /\ UNCHANGED <<drafts, published, app, review>>

CheckDraftToApply(k) ==
  /\ req[k].pc = "apply"
  /\ IF Unmoved(req[k].review) THEN Step(k, "reread") ELSE Finish(k)
  /\ UNCHANGED <<drafts, published, app, review>>

ReadLatestToApply(k) ==
  /\ req[k].pc = "reread"
  /\ Newest(req[k].app) < MaxDrafts
  /\ req' = [req EXCEPT ![k] = [@ EXCEPT !.pc = "applied", !.num = Newest(req[k].app)]]
  /\ UNCHANGED <<drafts, published, app, review>>

AppendApplied(k) ==
  /\ req[k].pc = "applied"
  /\ LET r == req[k].review
         a == req[k].app
     IN IF NumberFree(drafts[a], req[k].num + 1)
        THEN /\ InsertDraft(a, req[k].num + 1,
                  Row(review[r].base, "review", "v1", drafts[a][review[r].base].name))
             /\ Step(k, "mark")
        ELSE Finish(k) /\ UNCHANGED drafts
  /\ UNCHANGED <<published, app, review>>

MarkApplied(k) ==
  /\ req[k].pc = "mark"
  /\ review' = [review EXCEPT ![req[k].review].status = "applied"]
  /\ Finish(k)
  /\ UNCHANGED <<drafts, published, app>>

(***************************************************************************)
(* createProductRequirement: the application, its blank Draft 1 and a      *)
(* planned review in one transaction.  An identity or key that is taken    *)
(* is reconciled or refused and writes nothing.                            *)
(***************************************************************************)
CreateProductRequirement(k, r, a, name, kind) ==
  /\ req[k] = Idle
  /\ review[r] = NoReview
  /\ InsertApplication(a, name, FALSE, Row(0, "client", "v1", name))
  /\ \E vague \in BOOLEAN :
       review' = [review EXCEPT ![r] =
         [NoReview EXCEPT !.kind = kind, !.app = a, !.base = 1,
                          !.vague = vague, !.status = "planned"]]
  /\ UNCHANGED <<published, req>>

IsProduct(r) == review[r].kind \in {"product", "restaurant"}

(***************************************************************************)
(* chooseProductPlan and chooseRestaurantProductPlan: read the review and  *)
(* the Draft, then update the row only where it is still undecided.        *)
(***************************************************************************)
ReadReviewToChoose(k, r, alternative) ==
  /\ IsProduct(r)
  /\ review[r].decision = None
  /\ review[r].status = "planned"
  /\ req[k] = Idle
  /\ req' = [req EXCEPT ![k] = [Idle EXCEPT !.pc = "choose", !.app = review[r].app,
                                  !.review = r, !.choice = alternative]]
  /\ UNCHANGED <<drafts, published, app, review>>

CheckDraftToChoose(k) ==
  /\ req[k].pc = "choose"
  /\ IF Unmoved(req[k].review) THEN Step(k, "chosen") ELSE Finish(k)
  /\ UNCHANGED <<drafts, published, app, review>>

\* Mutant of Undecided: updateMany by the id alone.
AlwaysUndecided(r) == TRUE

Undecided(r) == review[r].status = "planned" /\ review[r].decision = None

ChooseProductPlan(k) ==
  /\ req[k].pc = "chosen"
  /\ LET r == req[k].review
     IN review' = IF Undecided(r)
                  THEN [review EXCEPT ![r] =
                         [@ EXCEPT !.plan = req[k].choice, !.decision = req[k].choice,
                                   !.status = "approved"]]
                  ELSE review
  /\ Finish(k)
  /\ UNCHANGED <<drafts, published, app>>

(***************************************************************************)
(* applyProduct: one SERIALIZABLE transaction, at most twice.  An applied  *)
(* review answers with the Draft after its base and writes nothing.  The   *)
(* diff is composed again and has to be the stored one, but for the        *)
(* Restaurant, whose Draft depends on the application alone.               *)
(***************************************************************************)
Composable(r) ==
  \/ review[r].plan \in Alternatives
  \/ review[r].kind = "restaurant" /\ review[r].plan = "planner"

\* Mutant of ApplyProduct: the next Draft follows the latest, not the review's base.
ApplyProductToLatest(k, r) ==
  /\ req[k] = Idle
  /\ IsProduct(r) /\ Composable(r)
  /\ review[r].status = "approved"
  /\ Newest(review[r].app) < MaxDrafts
  /\ LET a == review[r].app
         format == IF review[r].kind = "restaurant" THEN "v3" ELSE "v1"
     IN /\ InsertDraft(a, Newest(a) + 1, Row(review[r].base, r, format, app[a].name))
        /\ app' = IF format = "v3" THEN [app EXCEPT ![a].origin = TRUE] ELSE app
  /\ review' = [review EXCEPT ![r].status = "applied"]
  /\ UNCHANGED <<published, req>>

ApplyProduct(k, r) ==
  /\ req[k] = Idle
  /\ IsProduct(r) /\ Composable(r)
  /\ review[r].status = "approved"
  /\ Unmoved(r)
  /\ Newest(review[r].app) < MaxDrafts
  /\ LET a == review[r].app
         format == IF review[r].kind = "restaurant" THEN "v3" ELSE "v1"
     IN /\ InsertDraft(a, review[r].base + 1, Row(review[r].base, r, format, app[a].name))
        /\ app' = IF format = "v3" THEN [app EXCEPT ![a].origin = TRUE] ELSE app
  /\ review' = [review EXCEPT ![r].status = "applied"]
  /\ UNCHANGED <<published, req>>

ReviewNext ==
  \/ \E k \in Clients, r \in Reviews :
       \/ \E a \in Applications :
            \/ ReadLatestForReview(k, r, a)
            \/ \E name \in Names, kind \in {"product", "restaurant"} :
                 CreateProductRequirement(k, r, a, name, kind)
       \/ ReadReviewToPlan(k, r)
       \/ \E decision \in Decisions : ReadReviewToDecide(k, r, decision)
       \/ ReadReviewToApply(k, r)
       \/ \E alternative \in Alternatives : ReadReviewToChoose(k, r, alternative)
       \/ ApplyProduct(k, r)
  \/ \E k \in Clients :
       \/ CreateRequirement(k)
       \/ CheckDraftToPlan(k)
       \/ RequestPlan(k)
       \/ Decide(k)
       \/ CheckDraftToApply(k)
       \/ ReadLatestToApply(k)
       \/ AppendApplied(k)
       \/ MarkApplied(k)
       \/ CheckDraftToChoose(k)
       \/ ChooseProductPlan(k)
=============================================================================
