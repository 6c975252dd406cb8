---------------------------- MODULE LedgerProofs ----------------------------
(***************************************************************************)
(* Theorems about the revision ledger for any sets of applications, names, *)
(* requests, reviews and plan alternatives and any number of Drafts.       *)
(*                                                                         *)
(* The inductive invariant says that the two tables are sequences, that    *)
(* what a request has read of them is still below their ends, and that a   *)
(* request handling a review agrees with the review's immutable fields.    *)
(***************************************************************************)
EXTENDS LedgerProperties, FiniteSetTheorems, SequenceTheorems, TLAPS

(***************************************************************************)
(* The strengthening.                                                      *)
(***************************************************************************)
Request == [pc : Pcs, app : Applications \cup {None}, num : Nat, next : Nat,
            review : Reviews \cup {None},
            choice : Decisions \cup Alternatives \cup {None}]

Review == [kind : {"none", "composition", "product", "restaurant"},
           app : Applications \cup {None}, base : Nat,
           vague : BOOLEAN, clarified : BOOLEAN,
           plan : Alternatives \cup {None, "planner"},
           status : {"none", "planning", "clarification_required",
                     "planned", "applied"} \cup Decisions,
           decision : Decisions \cup Alternatives \cup {None}]

LedgerTyped ==
  /\ drafts \in [Applications -> Seq(Rows)]
  /\ \A a \in Applications : Len(drafts[a]) <= MaxDrafts
  /\ published \in [Applications -> Seq(Nat)]
  /\ \A a \in Applications : \A i \in 1 .. Len(published[a]) :
       published[a][i] \in 1 .. Len(drafts[a])
  /\ app \in [Applications -> [name : Names \cup {None}, origin : BOOLEAN]]
  /\ \A a \in Applications : Len(drafts[a]) # 0 => app[a].name \in Names
  /\ snapshot \in [Applications -> 0 .. MaxDrafts]

OfReview == {"plan", "planned", "decide", "apply", "reread", "applied", "mark",
             "choose", "chosen"}

\* What a request q holds is true of the Drafts d, publications p and reviews v.
Fits(q, d, p, v) ==
  /\ q.pc \in {"append", "proposal", "diff", "count", "publish", "require"} =>
       q.app \in Applications /\ q.num \in 1 .. Len(d[q.app])
  /\ q.pc \in {"append", "proposal", "diff", "applied"} => q.num < MaxDrafts
  /\ q.pc = "publish" => q.next \in 1 .. Len(p[q.app]) + 1
  /\ q.pc = "require" => q.review \in Reviews
  /\ q.pc \in OfReview =>
       q.app \in Applications /\ q.review \in Reviews /\ q.app = v[q.review].app
  /\ q.pc = "applied" => q.num \in 1 .. Len(d[q.app])
  /\ q.pc \in {"plan", "planned", "decide", "apply", "reread", "applied", "mark"} =>
       v[q.review].kind # "none"
  /\ q.pc \in {"apply", "reread", "applied", "mark"} => v[q.review].decision \in Decisions
  /\ q.pc = "decide" => q.choice \in Decisions
  /\ q.pc \in {"choose", "chosen"} =>
       v[q.review].kind \in {"product", "restaurant"} /\ q.choice \in Alternatives

RequestsFit ==
  /\ req \in [Clients -> Request]
  /\ \A k \in Clients : Fits(req[k], drafts, published, review)

\* A review w is of a Draft among d; one that is decided on names the decision.
\* Only a review that exists has a plan.
Bound(w, d) ==
  /\ w.kind # "none" => w.app \in Applications /\ w.base \in 1 .. Len(d[w.app])
  /\ w.status \in {"approved", "rejected", "applied"} => w.decision # None
  /\ w.plan # None => w.kind # "none"

ReviewsFit ==
  /\ review \in [Reviews -> Review]
  /\ \A r \in Reviews : Bound(review[r], drafts)

TypeInv == LedgerTyped /\ RequestsFit /\ ReviewsFit

(***************************************************************************)
(* What every step preserves: no table gets shorter, and a review keeps    *)
(* its kind, application and base, and a decision once it has one.         *)
(***************************************************************************)
Longer(d, e) == \A a \in Applications : Len(d[a]) <= Len(e[a])

Kept(v, w) ==
  \A r \in Reviews : v[r].kind # "none" =>
    /\ w[r].kind = v[r].kind
    /\ w[r].app = v[r].app
    /\ w[r].base = v[r].base
    /\ v[r].decision # None => w[r].decision # None
    /\ v[r].decision \in Decisions => w[r].decision \in Decisions

-----------------------------------------------------------------------------
(***************************************************************************)
(* Tables as sequences.                                                    *)
(***************************************************************************)
LEMMA LargestOfSequence ==
  ASSUME NEW S, NEW s \in Seq(S)
  PROVE  Largest(DOMAIN s) = Len(s)
<1>1. DOMAIN s = 1 .. Len(s) /\ Len(s) \in Nat
  BY LenProperties
<1>2. /\ Len(s) \in DOMAIN s \cup {0}
      /\ \A m \in DOMAIN s : m <= Len(s)
  BY <1>1
<1>3. ASSUME NEW n \in DOMAIN s \cup {0}, \A m \in DOMAIN s : m <= n
      PROVE  n = Len(s)
  <2>1. CASE Len(s) = 0
    BY <1>1, <1>3, <2>1
  <2>2. CASE Len(s) # 0
    <3>1. Len(s) \in DOMAIN s
      BY <1>1, <2>2
    <3> QED
      BY <1>1, <1>3, <3>1
  <2> QED
    BY <2>1, <2>2
<1> QED
  BY <1>2, <1>3 DEF Largest

\* An insert at the number after the last appends to the sequence.
LEMMA InsertAppends ==
  ASSUME NEW S, NEW s \in Seq(S), NEW row \in S
  PROVE  With(s, Len(s) + 1, row) = Append(s, row)
<1> DEFINE t == With(s, Len(s) + 1, row)
<1>1. DOMAIN s = 1 .. Len(s) /\ Len(s) \in Nat
  BY LenProperties
<1>2. t \in [1 .. Len(s) + 1 -> S]
  BY <1>1 DEF With
<1>3. t \in Seq(S)
  BY <1>1, <1>2, SeqDef
<1>4. Len(t) = Len(s) + 1
  BY <1>1, <1>2, <1>3, LenProperties
<1>5. Append(s, row) \in Seq(S) /\ Len(Append(s, row)) = Len(s) + 1
  OBVIOUS
<1>6. \A i \in 1 .. Len(t) : t[i] = Append(s, row)[i]
  BY <1>1, <1>4 DEF With
<1> QED
  BY <1>3, <1>4, <1>5, <1>6, SeqEqual

\* An insert that succeeds at most one past the end is right past the end.
LEMMA FreeNumberIsNext ==
  ASSUME NEW S, NEW s \in Seq(S), NEW n \in 1 .. Len(s) + 1, NumberFree(s, n)
  PROVE  n = Len(s) + 1
  BY LenProperties DEF NumberFree

LEMMA NewestIsLength ==
  ASSUME LedgerTyped, NEW a \in Applications
  PROVE  /\ Newest(a) = Len(drafts[a])
         /\ Len(drafts[a]) \in Nat
         /\ DOMAIN drafts[a] = 1 .. Len(drafts[a])
         /\ Exists(a) <=> Len(drafts[a]) # 0
<1>1. drafts[a] \in Seq(Rows)
  BY DEF LedgerTyped
<1>2. Newest(a) = Len(drafts[a])
  BY <1>1, LargestOfSequence DEF Newest
<1>3. DOMAIN drafts[a] = 1 .. Len(drafts[a]) /\ Len(drafts[a]) \in Nat
  BY <1>1, LenProperties
<1> QED
  BY <1>2, <1>3 DEF Exists

LEMMA LatestIsARow ==
  ASSUME LedgerTyped, NEW a \in Applications, Exists(a)
  PROVE  Latest(a) \in Rows /\ Latest(a) = drafts[a][Len(drafts[a])]
<1>1. drafts[a] \in Seq(Rows)
  BY DEF LedgerTyped
<1> QED
  BY <1>1, NewestIsLength, ElementOfSeq DEF Latest

-----------------------------------------------------------------------------
(***************************************************************************)
(* Requests and reviews while the tables grow.                             *)
(***************************************************************************)
LEMMA FitStays ==
  ASSUME NEW q, NEW d, NEW e, NEW p, NEW o, NEW v, NEW w,
         d \in [Applications -> Seq(Rows)], e \in [Applications -> Seq(Rows)],
         p \in [Applications -> Seq(Nat)], o \in [Applications -> Seq(Nat)],
         Longer(d, e), Longer(p, o), Kept(v, w), q \in Request, Fits(q, d, p, v)
  PROVE  Fits(q, e, o, w)
<1>1. \A a \in Applications : /\ Len(d[a]) \in Nat /\ Len(e[a]) \in Nat
                              /\ Len(p[a]) \in Nat /\ Len(o[a]) \in Nat
                              /\ Len(d[a]) <= Len(e[a]) /\ Len(p[a]) <= Len(o[a])
  BY DEF Longer
<1>2. q.pc \in {"append", "proposal", "diff", "count", "publish", "require"} =>
        q.app \in Applications /\ q.num \in 1 .. Len(e[q.app])
  BY <1>1 DEF Fits, Request
<1>3. q.pc = "publish" => q.next \in 1 .. Len(o[q.app]) + 1
  BY <1>1 DEF Fits, Request
<1>4. q.pc = "applied" => q.num \in 1 .. Len(e[q.app])
  BY <1>1 DEF Fits, Request, OfReview
<1>5. q.pc \in OfReview =>
        /\ q.app \in Applications /\ q.review \in Reviews /\ q.app = w[q.review].app
        /\ w[q.review].kind = v[q.review].kind
        /\ v[q.review].decision \in Decisions => w[q.review].decision \in Decisions
  <2>1. SUFFICES ASSUME q.pc \in OfReview
                 PROVE  /\ q.app \in Applications /\ q.review \in Reviews
                        /\ q.app = w[q.review].app
                        /\ w[q.review].kind = v[q.review].kind
                        /\ v[q.review].decision \in Decisions =>
                             w[q.review].decision \in Decisions
    OBVIOUS
  <2>2. q.review \in Reviews /\ v[q.review].kind # "none"
    BY <2>1 DEF Fits, OfReview
  <2> QED
    BY <2>1, <2>2 DEF Fits, Kept
<1> QED
  BY <1>2, <1>3, <1>4, <1>5 DEF Fits, OfReview

LEMMA BoundStays ==
  ASSUME NEW w, NEW d, NEW e, w \in Review, Bound(w, d), Longer(d, e),
         d \in [Applications -> Seq(Rows)], e \in [Applications -> Seq(Rows)]
  PROVE  Bound(w, e)
<1>1. \A a \in Applications : Len(d[a]) \in Nat /\ Len(e[a]) \in Nat /\ Len(d[a]) <= Len(e[a])
  BY DEF Longer
<1> QED
  BY <1>1 DEF Bound, Review

LEMMA LongerItself ==
  ASSUME NEW S, NEW d \in [Applications -> Seq(S)]
  PROVE  Longer(d, d)
  BY DEF Longer

LEMMA KeptItself == \A v : Kept(v, v)
  BY DEF Kept

LEMMA IdleFits ==
  /\ Idle \in Request
  /\ \A d, p, v : Fits(Idle, d, p, v)
  BY DEF Idle, Request, Pcs, Fits, OfReview

\* The requests after a step that moves at most one of them.
LEMMA RequestsMove ==
  ASSUME RequestsFit, LedgerTyped, LedgerTyped', NEW k \in Clients, NEW q \in Request,
         Longer(drafts, drafts'), Longer(published, published'), Kept(review, review'),
         Fits(q, drafts', published', review'), req' = [req EXCEPT ![k] = q]
  PROVE  RequestsFit'
<1>1. req' \in [Clients -> Request]
  BY DEF RequestsFit
<1>2. ASSUME NEW j \in Clients
      PROVE  Fits(req'[j], drafts', published', review')
  <2>1. CASE j = k
    BY <2>1 DEF RequestsFit
  <2>2. CASE j # k
    <3>1. req'[j] = req[j] /\ req[j] \in Request
      BY <2>2 DEF RequestsFit
    <3>2. Fits(req[j], drafts, published, review)
      BY DEF RequestsFit
    <3>3. Fits(req[j], drafts', published', review')
      BY <3>1, <3>2, FitStays DEF LedgerTyped
    <3> QED
      BY <3>1, <3>3
  <2> QED
    BY <2>1, <2>2
<1> QED
  BY <1>1, <1>2 DEF RequestsFit

LEMMA RequestsStay ==
  ASSUME RequestsFit, LedgerTyped, LedgerTyped', req' = req,
         Longer(drafts, drafts'), Longer(published, published'), Kept(review, review')
  PROVE  RequestsFit'
<1>1. ASSUME NEW j \in Clients
      PROVE  Fits(req[j], drafts', published', review')
  <2>1. Fits(req[j], drafts, published, review) /\ req[j] \in Request
    BY DEF RequestsFit
  <2> QED
    BY <2>1, FitStays DEF LedgerTyped
<1> QED
  BY <1>1 DEF RequestsFit

LEMMA ReviewsStay ==
  ASSUME ReviewsFit, LedgerTyped, LedgerTyped', review' = review, Longer(drafts, drafts')
  PROVE  ReviewsFit'
<1>1. ASSUME NEW r \in Reviews
      PROVE  Bound(review[r], drafts')
  <2>1. Bound(review[r], drafts) /\ review[r] \in Review
    BY DEF ReviewsFit
  <2> QED
    BY <2>1, BoundStays DEF LedgerTyped
<1> QED
  BY <1>1 DEF ReviewsFit

\* The reviews after a step that writes one of them.
LEMMA ReviewWritten ==
  ASSUME ReviewsFit, LedgerTyped, LedgerTyped', Longer(drafts, drafts'),
         NEW r \in Reviews, NEW w \in Review, review' = [review EXCEPT ![r] = w],
         Bound(w, drafts')
  PROVE  ReviewsFit'
<1>1. review' \in [Reviews -> Review]
  BY DEF ReviewsFit
<1>2. ASSUME NEW s \in Reviews
      PROVE  Bound(review'[s], drafts')
  <2>1. CASE s = r
    BY <2>1 DEF ReviewsFit
  <2>2. CASE s # r
    <3>1. review'[s] = review[s] /\ Bound(review[s], drafts) /\ review[s] \in Review
      BY <2>2 DEF ReviewsFit
    <3>2. Bound(review[s], drafts')
      BY <3>1, BoundStays DEF LedgerTyped
    <3> QED
      BY <3>1, <3>2
  <2> QED
    BY <2>1, <2>2
<1> QED
  BY <1>1, <1>2 DEF ReviewsFit

-----------------------------------------------------------------------------
(***************************************************************************)
(* The shapes of a step.                                                   *)
(***************************************************************************)
\* A step that only moves a request.
LEMMA RequestMoves ==
  ASSUME TypeInv, NEW k \in Clients, NEW q \in Request,
         Fits(q, drafts, published, review), req' = [req EXCEPT ![k] = q],
         UNCHANGED <<drafts, published, app, review, snapshot>>
  PROVE  TypeInv'
<1>1. LedgerTyped'
  BY DEF TypeInv, LedgerTyped
<1>2. Longer(drafts, drafts') /\ Longer(published, published') /\ Kept(review, review')
  BY LongerItself, KeptItself DEF TypeInv, LedgerTyped
<1>3. RequestsFit'
  BY <1>1, <1>2, RequestsMove DEF TypeInv
<1>4. ReviewsFit'
  BY <1>1, <1>2, ReviewsStay DEF TypeInv
<1> QED
  BY <1>1, <1>3, <1>4 DEF TypeInv

\* One more Draft of an application that keeps its row, or of a new one.
LEMMA DraftAppended ==
  ASSUME LedgerTyped, NEW a \in Applications, NEW row \in Rows,
         NEW n \in 1 .. Len(drafts[a]) + 1, n <= MaxDrafts, InsertDraft(a, n, row),
         app' \in [Applications -> [name : Names \cup {None}, origin : BOOLEAN]],
         \A b \in Applications : b # a => app'[b].name = app[b].name,
         app'[a].name \in Names,
         snapshot' \in [Applications -> 0 .. MaxDrafts], UNCHANGED published
  PROVE  /\ LedgerTyped'
         /\ n = Len(drafts[a]) + 1
         /\ drafts' = [drafts EXCEPT ![a] = Append(@, row)]
         /\ Len(drafts'[a]) = Len(drafts[a]) + 1
         /\ drafts'[a][Len(drafts'[a])] = row
         /\ Longer(drafts, drafts') /\ Longer(published, published')
<1>1. drafts[a] \in Seq(Rows) /\ Len(drafts[a]) \in Nat
  BY DEF LedgerTyped
<1>2. n = Len(drafts[a]) + 1
  BY <1>1, FreeNumberIsNext DEF InsertDraft
<1>3. With(drafts[a], n, row) = Append(drafts[a], row)
  BY <1>1, <1>2, InsertAppends
<1>4. drafts' = [drafts EXCEPT ![a] = Append(drafts[a], row)]
  BY <1>3 DEF InsertDraft
<1>5. /\ Append(drafts[a], row) \in Seq(Rows)
      /\ Len(Append(drafts[a], row)) = Len(drafts[a]) + 1
      /\ Append(drafts[a], row)[Len(drafts[a]) + 1] = row
  BY <1>1
<1>6. /\ drafts' \in [Applications -> Seq(Rows)]
      /\ drafts'[a] = Append(drafts[a], row)
      /\ \A b \in Applications : b # a => drafts'[b] = drafts[b]
  BY <1>4, <1>5 DEF LedgerTyped
<1>7. ASSUME NEW b \in Applications
      PROVE  Len(drafts[b]) \in Nat /\ Len(drafts'[b]) \in Nat /\ Len(drafts[b]) <= Len(drafts'[b])
  <2>1. Len(drafts[b]) \in Nat
    BY DEF LedgerTyped
  <2>2. CASE b = a
    BY <1>1, <1>5, <1>6, <2>2
  <2>3. CASE b # a
    BY <1>6, <2>1, <2>3
  <2> QED
    BY <2>2, <2>3
<1>8. \A b \in Applications : Len(drafts'[b]) <= MaxDrafts
  BY <1>2, <1>5, <1>6 DEF LedgerTyped
<1>9. \A b \in Applications : \A i \in 1 .. Len(published[b]) :
        published[b][i] \in 1 .. Len(drafts'[b])
  <2>1. TAKE b \in Applications
  <2>2. TAKE i \in 1 .. Len(published[b])
  <2>3. published[b][i] \in 1 .. Len(drafts[b])
    BY DEF LedgerTyped
  <2> QED
    BY <1>7, <2>3
<1>10. \A b \in Applications : Len(drafts'[b]) # 0 => app'[b].name \in Names
  BY <1>6 DEF LedgerTyped
<1>11. LedgerTyped'
  BY <1>6, <1>8, <1>9, <1>10 DEF LedgerTyped
<1> QED
  BY <1>2, <1>4, <1>5, <1>6, <1>7, <1>11, LongerItself DEF Longer, LedgerTyped

\* The same, of an application whose row stays and has a name.
LEMMA NextDraft ==
  ASSUME LedgerTyped, NEW a \in Applications, NEW row \in Rows,
         NEW n \in 1 .. Len(drafts[a]), n < MaxDrafts, InsertDraft(a, n + 1, row),
         UNCHANGED <<published, app, snapshot>>
  PROVE  /\ LedgerTyped'
         /\ n = Len(drafts[a])
         /\ drafts' = [drafts EXCEPT ![a] = Append(@, row)]
         /\ Len(drafts'[a]) = Len(drafts[a]) + 1
         /\ drafts'[a][Len(drafts'[a])] = row
         /\ Longer(drafts, drafts') /\ Longer(published, published')
<1>1. Len(drafts[a]) \in Nat /\ Len(drafts[a]) # 0
  BY DEF LedgerTyped
<1>2. n + 1 \in 1 .. Len(drafts[a]) + 1 /\ n + 1 <= MaxDrafts
  BY <1>1, LedgerAssumption
<1>3. app'[a].name \in Names
  BY <1>1 DEF LedgerTyped
<1>4. n + 1 = Len(drafts[a]) + 1
  BY <1>2, <1>3, DraftAppended DEF LedgerTyped
<1>5. n = Len(drafts[a])
  BY <1>1, <1>4
<1> QED
  BY <1>2, <1>3, <1>5, DraftAppended DEF LedgerTyped

-----------------------------------------------------------------------------
(***************************************************************************)
(* The steps that only read: a request moves on with what it has read.     *)
(***************************************************************************)
LEMMA LatestRead ==
  ASSUME TypeInv, NEW k \in Clients, NEW a \in Applications,
         NEW pc \in {"append", "proposal", "diff"}, Exists(a), Newest(a) < MaxDrafts,
         Begin(k, pc, a, Newest(a)), UNCHANGED <<drafts, published, app, review, snapshot>>
  PROVE  TypeInv'
<1> DEFINE q == [Idle EXCEPT !.pc = pc, !.app = a, !.num = Newest(a)]
<1>1. Newest(a) \in 1 .. Len(drafts[a]) /\ Newest(a) \in Nat
  BY NewestIsLength DEF TypeInv
<1>2. q.pc = pc /\ q.app = a /\ q.num = Newest(a)
  BY DEF Idle
<1>3. q \in Request
  BY <1>1 DEF Idle, Request, Pcs
<1>4. req' = [req EXCEPT ![k] = q]
  BY DEF Begin
<1> HIDE DEF q
<1>5. Fits(q, drafts, published, review)
  BY <1>1, <1>2 DEF Fits, OfReview
<1> QED
  BY <1>5, <1>4, <1>3, RequestMoves

LEMMA PublishedFound ==
  ASSUME TypeInv, NEW k \in Clients, NEW a \in Applications, NEW d,
         FindPublished(k, a, d), UNCHANGED <<review, snapshot>>
  PROVE  TypeInv'
<1> DEFINE q == [Idle EXCEPT !.pc = "count", !.app = a, !.num = d]
<1>1. d \in 1 .. Len(drafts[a]) /\ d \in Nat
  BY NewestIsLength DEF TypeInv, FindPublished
<1>2. q \in Request /\ q.pc = "count" /\ q.app = a /\ q.num = d
  BY <1>1 DEF Idle, Request, Pcs
<1>3. req' = [req EXCEPT ![k] = q]
  BY DEF Begin, FindPublished
<1> HIDE DEF q
<1>4. Fits(q, drafts, published, review)
  BY <1>1, <1>2 DEF Fits, OfReview
<1> QED
  BY <1>2, <1>4, <1>3, RequestMoves DEF FindPublished

LEMMA RequestAdvances ==
  ASSUME NEW q \in Request, NEW pc \in Pcs, NEW n \in Nat
  PROVE  /\ [q EXCEPT !.pc = pc, !.next = n] \in Request
         /\ [q EXCEPT !.pc = pc, !.num = n] \in Request
<1> DEFINE u == [q EXCEPT !.pc = pc]
<1>1. u \in Request
  BY DEF Request
<1>2. [u EXCEPT !.next = n] \in Request /\ [u EXCEPT !.num = n] \in Request
  BY <1>1 DEF Request
<1> QED
  BY <1>2

LEMMA PublishedCounted ==
  ASSUME TypeInv, NEW k \in Clients, CountPublished(k), UNCHANGED <<review, snapshot>>
  PROVE  TypeInv'
<1> DEFINE n == Cardinality(DOMAIN published[req[k].app])
           q == [req[k] EXCEPT !.pc = "publish", !.next = n + 1]
<1>1. req[k] \in Request /\ Fits(req[k], drafts, published, review) /\ req[k].pc = "count"
  BY DEF TypeInv, RequestsFit, CountPublished
<1>2. req[k].app \in Applications /\ req[k].num \in 1 .. Len(drafts[req[k].app])
  BY <1>1 DEF Fits
<1>3. n = Len(published[req[k].app]) /\ n \in Nat
  <2>1. published[req[k].app] \in Seq(Nat)
    BY <1>2 DEF TypeInv, LedgerTyped
  <2>2. /\ DOMAIN published[req[k].app] = 1 .. Len(published[req[k].app])
        /\ Len(published[req[k].app]) \in Nat
    BY <2>1, LenProperties
  <2> HIDE DEF n
  <2>3. Cardinality(1 .. Len(published[req[k].app])) = Len(published[req[k].app])
    BY <2>2, FS_Interval
  <2> QED
    BY <2>2, <2>3 DEF n
<1> HIDE DEF n
<1>4. /\ q.pc = "publish" /\ q.app = req[k].app
      /\ q.num = req[k].num /\ q.next = n + 1
  BY <1>1 DEF Request
<1>5. n + 1 \in Nat /\ "publish" \in Pcs
  BY <1>3 DEF Pcs
<1>6. q \in Request
  BY <1>1, <1>5, RequestAdvances
<1>7. req' = [req EXCEPT ![k] = q]
  BY DEF CountPublished, n
<1> HIDE DEF q
<1>8. Fits(q, drafts, published, review)
  BY <1>2, <1>3, <1>4 DEF Fits, OfReview
<1> QED
  BY <1>8, <1>7, <1>6, RequestMoves DEF CountPublished

\* A request that begins to handle a review of the kind it is for.
LEMMA ReviewRead ==
  ASSUME TypeInv, NEW k \in Clients, NEW r \in Reviews, review[r].kind # "none",
         NEW q \in Request, req' = [req EXCEPT ![k] = q],
         q.pc \in OfReview \ {"applied"}, q.app = review[r].app, q.review = r,
         q.pc \in {"apply", "reread", "mark"} => review[r].decision \in Decisions,
         q.pc = "decide" => q.choice \in Decisions,
         q.pc \in {"choose", "chosen"} =>
           review[r].kind \in {"product", "restaurant"} /\ q.choice \in Alternatives,
         UNCHANGED <<drafts, published, app, review, snapshot>>
  PROVE  TypeInv'
<1>1. review[r].app \in Applications
  BY DEF TypeInv, ReviewsFit, Bound
<1>2. Fits(q, drafts, published, review)
  BY <1>1 DEF Fits, OfReview
<1> QED
  BY <1>2, RequestMoves

LEMMA RequirementRead ==
  ASSUME TypeInv, NEW k \in Clients, NEW r \in Reviews, NEW a \in Applications,
         ReadLatestForReview(k, r, a), UNCHANGED snapshot
  PROVE  TypeInv'
<1> DEFINE q == [Idle EXCEPT !.pc = "require", !.app = a, !.review = r, !.num = Newest(a)]
<1>1. Newest(a) \in 1 .. Len(drafts[a]) /\ Newest(a) \in Nat
  BY NewestIsLength DEF TypeInv, ReadLatestForReview
<1>2. q.pc = "require" /\ q.app = a /\ q.review = r /\ q.num = Newest(a)
  BY DEF Idle
<1>3. q \in Request
  BY <1>1 DEF Idle, Request, Pcs
<1>4. req' = [req EXCEPT ![k] = q]
  BY DEF ReadLatestForReview
<1> HIDE DEF q
<1>5. Fits(q, drafts, published, review)
  BY <1>1, <1>2 DEF Fits, OfReview
<1> QED
  BY <1>5, <1>4, <1>3, RequestMoves DEF ReadLatestForReview

LEMMA ReviewReads ==
  ASSUME TypeInv, NEW k \in Clients, NEW r \in Reviews, UNCHANGED snapshot,
         \/ ReadReviewToPlan(k, r)
         \/ \E decision \in Decisions : ReadReviewToDecide(k, r, decision)
         \/ ReadReviewToApply(k, r)
         \/ \E alternative \in Alternatives : ReadReviewToChoose(k, r, alternative)
  PROVE  TypeInv'
<1>1. review[r] \in Review /\ Bound(review[r], drafts)
  BY DEF TypeInv, ReviewsFit
<1>2. review[r].kind # "none" => review[r].app \in Applications
  BY <1>1 DEF Bound
<1>9. review[r].plan = "planner" => review[r].kind # "none"
  BY <1>1, ReviewAssumption DEF Bound
<1>3. CASE ReadReviewToPlan(k, r)
  <2> DEFINE q == [Idle EXCEPT !.pc = "plan", !.app = review[r].app, !.review = r, !.num = 0]
  <2>1. q \in Request /\ q.pc = "plan" /\ q.app = review[r].app /\ q.review = r
    BY <1>2, <1>3 DEF Idle, Request, Pcs, ReadReviewToPlan
  <2>2. req' = [req EXCEPT ![k] = q]
    BY <1>3 DEF ReadReviewToPlan, BeginReview
  <2> HIDE DEF q
  <2> QED
    BY <1>3, <2>1, <2>2, ReviewRead DEF ReadReviewToPlan, OfReview
<1>4. CASE ReadReviewToApply(k, r)
  <2> DEFINE q == [Idle EXCEPT !.pc = "apply", !.app = review[r].app, !.review = r, !.num = 0]
  <2>1. q \in Request /\ q.pc = "apply" /\ q.app = review[r].app /\ q.review = r
    BY <1>2, <1>4, <1>9 DEF Idle, Request, Pcs, ReadReviewToApply
  <2>2. req' = [req EXCEPT ![k] = q]
    BY <1>4 DEF ReadReviewToApply, BeginReview
  <2>3. review[r].decision \in Decisions /\ review[r].kind # "none"
    BY <1>9, <1>4 DEF ReadReviewToApply, Decisions
  <2> HIDE DEF q
  <2> QED
    BY <1>4, <2>1, <2>2, <2>3, ReviewRead DEF ReadReviewToApply, OfReview
<1>5. ASSUME NEW decision \in Decisions, ReadReviewToDecide(k, r, decision)
      PROVE  TypeInv'
  <2> DEFINE q == [Idle EXCEPT !.pc = "decide", !.app = review[r].app, !.review = r,
                               !.choice = decision]
  <2>1. /\ q \in Request /\ q.pc = "decide" /\ q.app = review[r].app /\ q.review = r
        /\ q.choice = decision
    BY <1>2, <1>5, <1>9 DEF Idle, Request, Pcs, ReadReviewToDecide
  <2>2. req' = [req EXCEPT ![k] = q]
    BY <1>5 DEF ReadReviewToDecide
  <2> HIDE DEF q
  <2> QED
    BY <1>5, <1>9, <2>1, <2>2, ReviewRead DEF ReadReviewToDecide, OfReview
<1>6. ASSUME NEW alternative \in Alternatives, ReadReviewToChoose(k, r, alternative)
      PROVE  TypeInv'
  <2> DEFINE q == [Idle EXCEPT !.pc = "choose", !.app = review[r].app, !.review = r,
                               !.choice = alternative]
  <2>1. /\ q \in Request /\ q.pc = "choose" /\ q.app = review[r].app /\ q.review = r
        /\ q.choice = alternative
    BY <1>2, <1>6 DEF Idle, Request, Pcs, ReadReviewToChoose, IsProduct
  <2>2. req' = [req EXCEPT ![k] = q]
    BY <1>6 DEF ReadReviewToChoose
  <2>3. review[r].kind # "none" /\ review[r].kind \in {"product", "restaurant"}
    BY <1>6 DEF ReadReviewToChoose, IsProduct
  <2>4. UNCHANGED <<drafts, published, app, review, snapshot>>
    BY <1>6 DEF ReadReviewToChoose
  <2> HIDE DEF q
  <2>5. /\ q.pc \in OfReview \ {"applied"}
        /\ q.pc \notin {"decide", "apply", "reread", "mark"}
    BY <2>1 DEF OfReview
  <2> QED
    BY <2>1, <2>2, <2>3, <2>4, <2>5, ReviewRead
<1>7. CASE \E decision \in Decisions : ReadReviewToDecide(k, r, decision)
  <2>1. PICK decision \in Decisions : ReadReviewToDecide(k, r, decision)
    BY <1>7
  <2> QED
    BY <1>5, <2>1
<1>8. CASE \E alternative \in Alternatives : ReadReviewToChoose(k, r, alternative)
  <2>1. PICK alternative \in Alternatives : ReadReviewToChoose(k, r, alternative)
    BY <1>8
  <2> QED
    BY <1>6, <2>1
<1> QED
  BY <1>3, <1>4, <1>7, <1>8

LEMMA DraftChecks ==
  ASSUME TypeInv, NEW k \in Clients, UNCHANGED snapshot,
         CheckDraftToPlan(k) \/ CheckDraftToApply(k) \/ CheckDraftToChoose(k)
  PROVE  TypeInv'
<1> DEFINE r == req[k].review
<1>1. req[k] \in Request /\ Fits(req[k], drafts, published, review)
  BY DEF TypeInv, RequestsFit
<1>2. UNCHANGED <<drafts, published, app, review, snapshot>>
  BY DEF CheckDraftToPlan, CheckDraftToApply, CheckDraftToChoose
<1>3. CASE Finish(k)
  BY <1>2, <1>3, IdleFits, RequestMoves DEF Finish
<1>4. ASSUME NEW pc \in {"planned", "reread", "chosen"}, Step(k, pc),
             \/ pc = "planned" /\ req[k].pc = "plan"
             \/ pc = "reread" /\ req[k].pc = "apply"
             \/ pc = "chosen" /\ req[k].pc = "choose"
      PROVE  TypeInv'
  <2> DEFINE q == [req[k] EXCEPT !.pc = pc]
  <2>1. q \in Request /\ q.pc = pc /\ q.app = req[k].app /\ q.review = r /\ q.choice = req[k].choice
    BY <1>1 DEF Request, Pcs
  <2>2. req' = [req EXCEPT ![k] = q]
    BY <1>4 DEF Step
  <2>3. Fits(q, drafts, published, review)
    BY <1>1, <1>4, <2>1 DEF Fits, OfReview
  <2> QED
    BY <1>2, <2>1, <2>2, <2>3, RequestMoves
<1> QED
  BY <1>3, <1>4 DEF CheckDraftToPlan, CheckDraftToApply, CheckDraftToChoose

LEMMA LatestReadToApply ==
  ASSUME TypeInv, NEW k \in Clients, UNCHANGED snapshot, ReadLatestToApply(k)
  PROVE  TypeInv'
<1> DEFINE n == Newest(req[k].app)
           q == [req[k] EXCEPT !.pc = "applied", !.num = n]
<1>1. req[k] \in Request /\ Fits(req[k], drafts, published, review) /\ req[k].pc = "reread"
  BY DEF TypeInv, RequestsFit, ReadLatestToApply
<1>2. req[k].app \in Applications /\ req[k].review \in Reviews
      /\ req[k].app = review[req[k].review].app /\ review[req[k].review].kind # "none"
  BY <1>1 DEF Fits, OfReview
<1>3. n \in 1 .. Len(drafts[req[k].app]) /\ n \in Nat /\ n < MaxDrafts
  <2>1. review[req[k].review].base \in 1 .. Len(drafts[req[k].app])
    BY <1>2 DEF TypeInv, ReviewsFit, Bound
  <2> QED
    BY <1>2, <2>1, NewestIsLength DEF TypeInv, ReadLatestToApply
<1> HIDE DEF n
<1>4. /\ q.pc = "applied" /\ q.app = req[k].app
      /\ q.num = n /\ q.review = req[k].review
  BY <1>1 DEF Request
<1>5. q \in Request
  BY <1>1, <1>3, RequestAdvances DEF Pcs
<1>6. req' = [req EXCEPT ![k] = q]
  BY DEF ReadLatestToApply, n
<1> HIDE DEF q
<1>7. review[req[k].review].decision \in Decisions
  BY <1>1 DEF Fits
<1>8. Fits(q, drafts, published, review)
  BY <1>2, <1>3, <1>4, <1>7 DEF Fits, OfReview
<1> QED
  BY <1>8, <1>6, <1>5, RequestMoves DEF ReadLatestToApply

-----------------------------------------------------------------------------
(***************************************************************************)
(* The steps that write the tables for a request.                          *)
(***************************************************************************)
Appended(a, row) ==
  /\ drafts' = [drafts EXCEPT ![a] = Append(@, row)]
  /\ row.by \notin {"client", "review"} => row.base = Len(drafts[a])

LEMMA RowTyped ==
  ASSUME NEW base \in 0 .. MaxDrafts, NEW by \in Authors, NEW format \in Formats,
         NEW name \in Names
  PROVE  /\ Row(base, by, format, name) \in Rows
         /\ Row(base, by, format, name).base = base
         /\ Row(base, by, format, name).by = by
         /\ Row(base, by, format, name).format = format
         /\ Row(base, by, format, name).name = name
  BY DEF Row, Rows

LEMMA RequestAppends ==
  ASSUME TypeInv, NEW k \in Clients, NEW a \in Applications, NEW row \in Rows,
         NEW n \in 1 .. Len(drafts[a]), n < MaxDrafts, InsertDraft(a, n + 1, row),
         row.by \notin {"client", "review"} => row.base = n,
         NEW q \in Request, req' = [req EXCEPT ![k] = q],
         \A d : Fits(q, d, published, review),
         UNCHANGED <<published, app, review, snapshot>>
  PROVE  TypeInv' /\ Appended(a, row)
<1>1. /\ LedgerTyped' /\ n = Len(drafts[a])
      /\ drafts' = [drafts EXCEPT ![a] = Append(@, row)]
      /\ Longer(drafts, drafts') /\ Longer(published, published')
  BY NextDraft DEF TypeInv
<1>2. Kept(review, review') /\ Fits(q, drafts', published', review')
  BY KeptItself
<1>3. RequestsFit'
  BY <1>1, <1>2, RequestsMove DEF TypeInv
<1>4. ReviewsFit'
  BY <1>1, ReviewsStay DEF TypeInv
<1> QED
  BY <1>1, <1>3, <1>4 DEF TypeInv, Appended

LEMMA RequestEnds ==
  ASSUME TypeInv, NEW k \in Clients, Finish(k),
         UNCHANGED <<drafts, published, app, review, snapshot>>
  PROVE  TypeInv'
  BY IdleFits, RequestMoves DEF Finish

LEMMA ClientAppends ==
  ASSUME TypeInv, NEW k \in Clients, AppendDraftRevision(k), UNCHANGED <<review, snapshot>>
  PROVE  /\ TypeInv'
         /\ \/ UNCHANGED drafts
            \/ \E a \in Applications, row \in Rows :
                 Appended(a, row) /\ row.by = "client" /\ row.format = "v1"
<1> DEFINE a == req[k].app
<1>1. /\ a \in Applications /\ req[k].num \in 1 .. Len(drafts[a]) /\ req[k].num < MaxDrafts
  BY DEF TypeInv, RequestsFit, Fits, AppendDraftRevision
<1>2. CASE UNCHANGED drafts
  BY <1>2, RequestEnds DEF AppendDraftRevision
<1>3. ASSUME NEW name \in Names,
             InsertDraft(a, req[k].num + 1, Row(0, "client", "v1", name))
      PROVE  /\ TypeInv'
             /\ \E row \in Rows : Appended(a, row) /\ row.by = "client" /\ row.format = "v1"
  <2> DEFINE row == Row(0, "client", "v1", name)
  <2>1. row \in Rows /\ row.by = "client" /\ row.format = "v1"
    BY RowTyped, LedgerAssumption DEF Authors, Formats
  <2> HIDE DEF row
  <2>2. InsertDraft(a, req[k].num + 1, row)
    BY <1>3 DEF row
  <2> HIDE DEF a
  <2>3. TypeInv' /\ Appended(a, row)
    BY <1>1, <2>1, <2>2, IdleFits, RequestAppends DEF AppendDraftRevision, Finish
  <2> QED
    BY <2>1, <2>3
<1> QED
  BY <1>1, <1>2, <1>3 DEF AppendDraftRevision

LEMMA PatchAppends ==
  ASSUME TypeInv, NEW k \in Clients, AppendPatched(k), UNCHANGED <<review, snapshot>>
  PROVE  /\ TypeInv'
         /\ \/ UNCHANGED drafts
            \/ \E a \in Applications, row \in Rows :
                 /\ Appended(a, row) /\ row.by \in {"proposal", "diff"}
                 /\ row.format = "v1"
<1> DEFINE a == req[k].app
           n == req[k].num
           row == Row(n, req[k].pc, "v1", drafts[a][n].name)
<1>1. /\ a \in Applications /\ n \in 1 .. Len(drafts[a]) /\ n < MaxDrafts
      /\ req[k].pc \in {"proposal", "diff"}
  BY DEF TypeInv, RequestsFit, Fits, AppendPatched
<1>2. CASE UNCHANGED drafts
  BY <1>2, RequestEnds DEF AppendPatched
<1>3. CASE InsertDraft(a, n + 1, row)
  <2>1. drafts[a][n].name \in Names
    <3>1. drafts[a] \in Seq(Rows)
      BY <1>1 DEF TypeInv, LedgerTyped
    <3>2. drafts[a][n] \in Rows
      BY <1>1, <3>1, ElementOfSeq
    <3> QED
      BY <3>2 DEF Rows
  <2>2. n \in 0 .. MaxDrafts /\ req[k].pc \in Authors /\ "v1" \in Formats
    <3>1. n \in Nat
      BY <1>1 DEF TypeInv, RequestsFit, Request
    <3> QED
      BY <1>1, <3>1, LedgerAssumption DEF Authors, Formats
  <2>3. row \in Rows /\ row.by \in {"proposal", "diff"} /\ row.format = "v1" /\ row.base = n
    BY <1>1, <2>1, <2>2, RowTyped
  <2>4. Finish(k) /\ UNCHANGED <<published, app, review, snapshot>>
    BY DEF AppendPatched
  <2> HIDE DEF row, n, a
  <2>5. TypeInv' /\ Appended(a, row)
    BY <1>1, <1>3, <2>3, <2>4, IdleFits, RequestAppends DEF Finish
  <2> QED
    BY <1>1, <2>3, <2>5
<1> QED
  BY <1>2, <1>3 DEF AppendPatched

LEMMA ReviewAppends ==
  ASSUME TypeInv, NEW k \in Clients, AppendApplied(k), UNCHANGED snapshot
  PROVE  /\ TypeInv'
         /\ \/ UNCHANGED drafts
            \/ \E r \in Reviews, row \in Rows :
                 /\ review[r].kind # "none" /\ review[r].decision \in Decisions
                 /\ review[r].app \in Applications
                 /\ Appended(review[r].app, row) /\ row.by = "review"
                 /\ row.base = review[r].base /\ row.format = "v1"
<1> DEFINE a == req[k].app
           n == req[k].num
           r == req[k].review
           row == Row(review[r].base, "review", "v1", drafts[a][review[r].base].name)
<1>1. req[k] \in Request /\ Fits(req[k], drafts, published, review) /\ req[k].pc = "applied"
  BY DEF TypeInv, RequestsFit, AppendApplied
<1>2. /\ a \in Applications /\ n \in 1 .. Len(drafts[a]) /\ n < MaxDrafts
      /\ r \in Reviews /\ a = review[r].app
      /\ review[r].kind # "none" /\ review[r].decision \in Decisions
  BY <1>1 DEF Fits, OfReview
<1>3. CASE UNCHANGED drafts /\ Finish(k)
  BY <1>3, RequestEnds DEF AppendApplied
<1>4. CASE InsertDraft(a, n + 1, row) /\ Step(k, "mark")
  <2>1. req[k].app = a /\ req[k].review = r
    OBVIOUS
  <2> HIDE DEF a, n, r
  <2>2. review[r].base \in 1 .. Len(drafts[a])
    BY <1>2 DEF TypeInv, ReviewsFit, Bound
  <2>3. drafts[a] \in Seq(Rows) /\ Len(drafts[a]) <= MaxDrafts /\ Len(drafts[a]) \in Nat
    BY <1>2 DEF TypeInv, LedgerTyped
  <2>4. drafts[a][review[r].base] \in Rows
    BY <2>2, <2>3, ElementOfSeq
  <2>5. drafts[a][review[r].base].name \in Names /\ review[r].base \in 0 .. MaxDrafts
    BY <2>2, <2>3, <2>4, LedgerAssumption DEF Rows
  <2>6. row \in Rows /\ row.by = "review" /\ row.format = "v1" /\ row.base = review[r].base
    BY <2>5, RowTyped DEF Authors, Formats
  <2> DEFINE q == [req[k] EXCEPT !.pc = "mark"]
  <2>7. q \in Request /\ q.pc = "mark" /\ q.app = a /\ q.review = r
    BY <1>1, <2>1 DEF Request, Pcs
  <2>8. req' = [req EXCEPT ![k] = q] /\ UNCHANGED <<published, app, review, snapshot>>
    BY <1>4 DEF Step, AppendApplied
  <2> HIDE DEF row, q
  <2>9. \A d : Fits(q, d, published, review)
    BY <1>2, <2>7 DEF Fits, OfReview
  <2>10. TypeInv' /\ Appended(a, row)
    BY <1>2, <1>4, <2>6, <2>7, <2>8, <2>9, RequestAppends
  <2> QED
    BY <1>2, <2>6, <2>10
<1> QED
  BY <1>3, <1>4 DEF AppendApplied

\* One more publication of a Draft, or none.
LEMMA PublicationInserted ==
  ASSUME TypeInv, NEW k \in Clients, InsertPublished(k), UNCHANGED <<review, snapshot>>
  PROVE  /\ TypeInv'
         /\ \/ UNCHANGED published
            \/ \E a \in Applications : \E d \in 1 .. Len(drafts[a]) :
                 /\ published' = [published EXCEPT ![a] = Append(@, d)]
                 /\ \A i \in 1 .. Len(published[a]) : published[a][i] # d
<1> DEFINE a == req[k].app
           n == req[k].next
           d == req[k].num
<1>1. /\ a \in Applications /\ d \in 1 .. Len(drafts[a]) /\ d \in Nat
      /\ n \in 1 .. Len(published[a]) + 1
  BY DEF TypeInv, RequestsFit, Fits, InsertPublished, Request
<1>2. CASE UNCHANGED published
  BY <1>2, RequestEnds DEF InsertPublished
<1>3. CASE /\ NumberFree(published[a], n) /\ SourceFree(published[a], d)
           /\ published' = [published EXCEPT ![a] = With(@, n, d)]
  <2>1. published[a] \in Seq(Nat) /\ Len(published[a]) \in Nat
    BY <1>1 DEF TypeInv, LedgerTyped
  <2>2. n = Len(published[a]) + 1
    BY <1>1, <1>3, <2>1, FreeNumberIsNext
  <2>3. With(published[a], n, d) = Append(published[a], d)
    BY <1>1, <2>1, <2>2, InsertAppends
  <2>4. published' = [published EXCEPT ![a] = Append(published[a], d)]
    BY <1>3, <2>3
  <2>5. \A i \in 1 .. Len(published[a]) : published[a][i] # d
    BY <1>3, <2>1, LenProperties DEF SourceFree, Sources
  <2>6. UNCHANGED <<drafts, app, review, snapshot>> /\ req' = [req EXCEPT ![k] = Idle]
    BY DEF InsertPublished, Finish
  <2> HIDE DEF a, n, d
  <2>7. /\ Append(published[a], d) \in Seq(Nat)
        /\ Len(Append(published[a], d)) = Len(published[a]) + 1
        /\ \A i \in 1 .. Len(published[a]) + 1 : Append(published[a], d)[i] =
             IF i <= Len(published[a]) THEN published[a][i] ELSE d
    BY <1>1, <2>1
  <2>8. /\ published' \in [Applications -> Seq(Nat)]
        /\ published'[a] = Append(published[a], d)
        /\ \A b \in Applications : b # a => published'[b] = published[b]
    BY <1>1, <2>4, <2>7 DEF TypeInv, LedgerTyped
  <2>9. ASSUME NEW b \in Applications
        PROVE  /\ Len(published[b]) <= Len(published'[b])
               /\ \A i \in 1 .. Len(published'[b]) : published'[b][i] \in 1 .. Len(drafts[b])
    <3>1. /\ Len(published[b]) \in Nat
          /\ \A i \in 1 .. Len(published[b]) : published[b][i] \in 1 .. Len(drafts[b])
      BY DEF TypeInv, LedgerTyped
    <3>2. CASE b = a
      <4>1. Len(published'[b]) = Len(published[b]) + 1
        BY <2>7, <2>8, <3>2
      <4>2. ASSUME NEW i \in 1 .. Len(published'[b])
            PROVE  published'[b][i] \in 1 .. Len(drafts[b])
        <5>1. published'[b][i] = IF i <= Len(published[b]) THEN published[b][i] ELSE d
          BY <2>7, <2>8, <3>2, <4>1
        <5>2. i <= Len(published[b]) => i \in 1 .. Len(published[b])
          BY <3>1, <4>1
        <5> QED
          BY <1>1, <3>1, <3>2, <5>1, <5>2
      <4> QED
        BY <3>1, <4>1, <4>2
    <3>3. CASE b # a
      BY <2>8, <3>1, <3>3
    <3> QED
      BY <3>2, <3>3
  <2>10. LedgerTyped'
    BY <2>6, <2>8, <2>9 DEF TypeInv, LedgerTyped
  <2>11. Longer(drafts, drafts') /\ Longer(published, published') /\ Kept(review, review')
    BY <2>6, <2>9, LongerItself, KeptItself DEF TypeInv, LedgerTyped, Longer
  <2>12. RequestsFit'
    BY <2>6, <2>10, <2>11, IdleFits, RequestsMove DEF TypeInv
  <2>13. ReviewsFit'
    BY <2>6, <2>10, <2>11, ReviewsStay DEF TypeInv
  <2>14. TypeInv'
    BY <2>10, <2>12, <2>13 DEF TypeInv
  <2> QED
    BY <1>1, <2>4, <2>5, <2>14
<1> QED
  BY <1>2, <1>3 DEF InsertPublished

-----------------------------------------------------------------------------
(***************************************************************************)
(* The steps that write a review.                                          *)
(***************************************************************************)
Product == {"product", "restaurant"}

\* What the composition service leaves of a review it has planned or decided.
Rewritten(v) == v.plan = "planner" \/ v.clarified \/ v.decision \in Decisions

ChosenApplied(v) == v.status = "applied" /\ v.decision \in Alternatives

\* Applied, or no longer as its application left it.
AppliedOnce(v) == v.decision # None /\ (Rewritten(v) \/ v.status = "applied")

\* No product review appears, moves or becomes applied as it was chosen.
ProductsStay(v, w) ==
  \A r \in Reviews : w[r].kind \in Product =>
    /\ v[r].kind \in Product /\ w[r].app = v[r].app /\ w[r].base = v[r].base
    /\ ChosenApplied(w[r]) => ChosenApplied(v[r])
    /\ AppliedOnce(v[r]) => AppliedOnce(w[r])

ChoicesStay(v, w) ==
  \A r \in Reviews : v[r].kind \in Product /\ v[r].decision \in Alternatives =>
    /\ w[r].decision \in {v[r].decision} \cup Decisions
    /\ ~Rewritten(w[r]) => /\ w[r].plan = v[r].plan
                           /\ w[r].status \in {v[r].status, "applied"}

\* A decision stays one, and so does a decision of the composition service.
DecisionKept(v, w) ==
  /\ v.decision # None => w.decision # None
  /\ v.decision \in Decisions => w.decision \in Decisions

LEMMA ReviewsAlike ==
  \A v : Kept(v, v) /\ ProductsStay(v, v) /\ ChoicesStay(v, v)
  BY DEF Kept, ProductsStay, ChoicesStay

LEMMA ReviewMoves ==
  ASSUME TypeInv, NEW k \in Clients, NEW r \in Reviews, NEW w \in Review,
         Finish(k), review' = [review EXCEPT ![r] = w], Bound(w, drafts),
         Kept(review, review'), UNCHANGED <<drafts, published, app, snapshot>>
  PROVE  TypeInv'
<1>1. LedgerTyped'
  BY DEF TypeInv, LedgerTyped
<1>2. Longer(drafts, drafts') /\ Longer(published, published')
  BY LongerItself DEF TypeInv, LedgerTyped
<1>3. RequestsFit'
  BY <1>1, <1>2, IdleFits, RequestsMove DEF TypeInv, Finish
<1>4. ReviewsFit'
  BY <1>1, <1>2, ReviewWritten DEF TypeInv
<1> QED
  BY <1>1, <1>3, <1>4 DEF TypeInv

\* A write of one review, by what it does to that review.
LEMMA OneReviewKept ==
  ASSUME TypeInv, NEW r \in Reviews, NEW w \in Review, review' = [review EXCEPT ![r] = w]
  PROVE  /\ \/ review[r].kind = "none"
            \/ /\ w.kind = review[r].kind /\ w.app = review[r].app /\ w.base = review[r].base
               /\ DecisionKept(review[r], w)
            => Kept(review, review')
         /\ w.kind = "composition" => ProductsStay(review, review')
         /\ review[r].kind \notin Product => ChoicesStay(review, review')
<1>1. /\ review'[r] = w
      /\ \A s \in Reviews : s # r => review'[s] = review[s]
  BY DEF TypeInv, ReviewsFit
<1>2. (\/ review[r].kind = "none"
       \/ /\ w.kind = review[r].kind /\ w.app = review[r].app /\ w.base = review[r].base
          /\ DecisionKept(review[r], w)) => Kept(review, review')
  BY <1>1 DEF Kept, DecisionKept
<1>3. w.kind = "composition" => ProductsStay(review, review')
  BY <1>1 DEF ProductsStay, Product
<1>4. review[r].kind \notin Product => ChoicesStay(review, review')
  BY <1>1 DEF ChoicesStay
<1> QED
  BY <1>2, <1>3, <1>4

LEMMA RequirementCreated ==
  ASSUME TypeInv, NEW k \in Clients, CreateRequirement(k), UNCHANGED snapshot
  PROVE  /\ TypeInv' /\ Kept(review, review')
         /\ ProductsStay(review, review') /\ ChoicesStay(review, review')
<1> DEFINE r == req[k].review
<1>1. /\ r \in Reviews /\ req[k].app \in Applications
      /\ req[k].num \in 1 .. Len(drafts[req[k].app]) /\ req[k].num \in Nat
  BY DEF TypeInv, RequestsFit, Request, Fits, CreateRequirement
<1>2. PICK vague \in BOOLEAN :
        review' = [review EXCEPT ![r] =
          [NoReview EXCEPT !.kind = "composition", !.app = req[k].app,
                           !.base = req[k].num, !.vague = vague, !.status = "planning"]]
  BY DEF CreateRequirement
<1> DEFINE w == [NoReview EXCEPT !.kind = "composition", !.app = req[k].app,
                                 !.base = req[k].num, !.vague = vague, !.status = "planning"]
<1>3. w \in Review /\ Bound(w, drafts) /\ w.kind = "composition"
  BY <1>1 DEF NoReview, Review, Bound
<1>4. review[r].kind = "none" /\ review[r].kind \notin Product
  BY DEF CreateRequirement, NoReview, Product
<1>5. Finish(k) /\ UNCHANGED <<drafts, published, app, snapshot>>
  BY DEF CreateRequirement
<1> HIDE DEF w, r
<1>6. review' = [review EXCEPT ![r] = w]
  BY <1>2 DEF w
<1>7. Kept(review, review') /\ ProductsStay(review, review') /\ ChoicesStay(review, review')
  BY <1>1, <1>3, <1>4, <1>6, OneReviewKept
<1>8. TypeInv'
  BY <1>1, <1>3, <1>5, <1>6, <1>7, ReviewMoves
<1> QED
  BY <1>7, <1>8

\* The updates of a review by its id: the composition service has rewritten it.
LEMMA CompositionUpdated ==
  ASSUME TypeInv, NEW k \in Clients, UNCHANGED snapshot,
         RequestPlan(k) \/ Decide(k) \/ MarkApplied(k)
  PROVE  /\ TypeInv' /\ Kept(review, review')
         /\ ProductsStay(review, review') /\ ChoicesStay(review, review')
<1> DEFINE r == req[k].review
<1>1. Fits(req[k], drafts, published, review) /\ req[k].pc \in {"planned", "decide", "mark"}
  BY DEF TypeInv, RequestsFit, RequestPlan, Decide, MarkApplied
<1>2. /\ r \in Reviews /\ review[r].kind # "none"
      /\ review[r] \in Review /\ Bound(review[r], drafts)
  BY <1>1 DEF Fits, OfReview, TypeInv, ReviewsFit
<1>3. Finish(k) /\ UNCHANGED <<drafts, published, app, snapshot>>
  BY DEF RequestPlan, Decide, MarkApplied
<1>4. ASSUME NEW w \in Review, review' = [review EXCEPT ![r] = w],
             w.kind = review[r].kind, w.app = review[r].app, w.base = review[r].base,
             w.decision \in {review[r].decision} \cup Decisions, Rewritten(w),
             w.status = "applied" => w.decision \in Decisions, Bound(w, drafts)
      PROVE  /\ TypeInv' /\ Kept(review, review')
             /\ ProductsStay(review, review') /\ ChoicesStay(review, review')
  <2> HIDE DEF r
  <2>1. /\ review'[r] = w
        /\ \A s \in Reviews : s # r => review'[s] = review[s]
    BY <1>2, <1>4 DEF TypeInv, ReviewsFit
  <2>2. DecisionKept(review[r], w)
    BY <1>4, ReviewAssumption DEF DecisionKept
  <2>3. Kept(review, review')
    BY <1>2, <1>4, <2>2, OneReviewKept
  <2>4. ~ChosenApplied(w) /\ (AppliedOnce(review[r]) => AppliedOnce(w))
    BY <1>4, <2>2, ReviewAssumption DEF ChosenApplied, AppliedOnce, DecisionKept
  <2>5. ProductsStay(review, review')
    BY <1>4, <2>1, <2>4 DEF ProductsStay
  <2>6. ChoicesStay(review, review')
    BY <1>4, <2>1 DEF ChoicesStay
  <2>7. TypeInv'
    BY <1>2, <1>3, <1>4, <2>3, ReviewMoves
  <2> QED
    BY <2>3, <2>5, <2>6, <2>7
<1>5. CASE RequestPlan(k)
  <2> DEFINE c == [review[r] EXCEPT !.clarified = TRUE, !.status = "clarification_required"]
             p == [review[r] EXCEPT !.plan = "planner", !.status = "planned"]
             w == IF review[r].vague THEN c ELSE p
  <2>1. /\ c \in Review /\ c.clarified = TRUE /\ c.status = "clarification_required"
        /\ c.kind = review[r].kind /\ c.app = review[r].app /\ c.base = review[r].base
        /\ c.decision = review[r].decision /\ c.plan = review[r].plan
    BY <1>2 DEF Review
  <2>2. /\ p \in Review /\ p.plan = "planner" /\ p.status = "planned"
        /\ p.kind = review[r].kind /\ p.app = review[r].app /\ p.base = review[r].base
        /\ p.decision = review[r].decision
    BY <1>2 DEF Review
  <2> HIDE DEF c, p
  <2>3. /\ w \in Review
        /\ w.kind = review[r].kind /\ w.app = review[r].app /\ w.base = review[r].base
        /\ w.decision = review[r].decision /\ w.status \in {"clarification_required", "planned"}
        /\ Rewritten(w)
    BY <2>1, <2>2 DEF Rewritten
  <2>4. Bound(w, drafts)
    BY <1>2, <2>3 DEF Bound
  <2>5. review' = [review EXCEPT ![r] = w]
    BY <1>5 DEF RequestPlan, c, p
  <2> HIDE DEF w
  <2> QED
    BY <1>4, <2>3, <2>4, <2>5
<1>6. CASE Decide(k)
  <2> DEFINE u == [review[r] EXCEPT !.decision = req[k].choice]
             w == [u EXCEPT !.status = req[k].choice]
  <2>1. req[k].choice \in Decisions
    BY <1>1, <1>6 DEF Fits, Decide
  <2>2. u \in Review
    BY <1>2, <2>1 DEF Review
  <2>3. w \in Review
    BY <2>1, <2>2 DEF Review
  <2>4. /\ w.kind = review[r].kind /\ w.app = review[r].app /\ w.base = review[r].base
        /\ w.decision = req[k].choice /\ w.decision # None /\ w.decision \in Decisions
        /\ Rewritten(w)
    BY <1>2, <2>1, ReviewAssumption DEF Review, Rewritten
  <2>5. Bound(w, drafts)
    BY <1>2, <2>4 DEF Bound
  <2>6. review' = [review EXCEPT ![r] = w]
    BY <1>6 DEF Decide
  <2> HIDE DEF w
  <2> QED
    BY <1>4, <2>3, <2>4, <2>5, <2>6
<1>7. CASE MarkApplied(k)
  <2> DEFINE w == [review[r] EXCEPT !.status = "applied"]
  <2>1. review[r].decision \in Decisions
    BY <1>1, <1>7 DEF Fits, MarkApplied
  <2>2. w \in Review
    BY <1>2 DEF Review
  <2>3. /\ w.kind = review[r].kind /\ w.app = review[r].app /\ w.base = review[r].base
        /\ w.decision = review[r].decision /\ Rewritten(w)
    BY <1>2, <2>1 DEF Review, Rewritten
  <2>4. Bound(w, drafts)
    BY <1>2, <2>1, <2>3, ReviewAssumption DEF Bound
  <2>5. review' = [review EXCEPT ![r] = w]
    BY <1>7 DEF MarkApplied
  <2> HIDE DEF w
  <2> QED
    BY <1>4, <2>1, <2>2, <2>3, <2>4, <2>5
<1> QED
  BY <1>5, <1>6, <1>7

LEMMA ProductChosen ==
  ASSUME TypeInv, NEW k \in Clients, ChooseProductPlan(k), UNCHANGED snapshot
  PROVE  /\ TypeInv' /\ Kept(review, review')
         /\ ProductsStay(review, review') /\ ChoicesStay(review, review')
<1> DEFINE r == req[k].review
<1>1. Fits(req[k], drafts, published, review) /\ req[k].pc = "chosen"
  BY DEF TypeInv, RequestsFit, ChooseProductPlan
<1>2. /\ r \in Reviews /\ review[r].kind \in Product /\ req[k].choice \in Alternatives
      /\ review[r] \in Review /\ Bound(review[r], drafts)
  BY <1>1 DEF Fits, OfReview, TypeInv, ReviewsFit, Product
<1>3. Finish(k) /\ UNCHANGED <<drafts, published, app, snapshot>>
  BY DEF ChooseProductPlan
<1>4. CASE review' = review
  BY <1>3, <1>4, RequestEnds, ReviewsAlike
<1>5. CASE /\ Undecided(r)
           /\ review' = [review EXCEPT ![r] =
                [@ EXCEPT !.plan = req[k].choice, !.decision = req[k].choice,
                          !.status = "approved"]]
  <2> DEFINE t == [review[r] EXCEPT !.plan = req[k].choice]
             u == [t EXCEPT !.decision = req[k].choice]
             w == [u EXCEPT !.status = "approved"]
  <2>12. t \in Review
    BY <1>2 DEF Review
  <2>1. u \in Review
    BY <1>2, <2>12 DEF Review
  <2>2. w \in Review
    BY <2>1 DEF Review, Decisions
  <2>3. /\ w.kind = review[r].kind /\ w.app = review[r].app /\ w.base = review[r].base
        /\ w.decision = req[k].choice /\ w.decision # None /\ w.status = "approved"
    BY <1>2, ReviewAssumption DEF Review
  <2>4. Bound(w, drafts)
    BY <1>2, <2>3 DEF Bound, Product
  <2>5. review' = [review EXCEPT ![r] = w]
    BY <1>5
  <2>6. review[r].decision = None /\ review[r].status # "applied"
    BY <1>5 DEF Undecided
  <2> HIDE DEF w, u, r
  <2>13. DecisionKept(review[r], w)
    BY <2>3, <2>6, ReviewAssumption DEF DecisionKept
  <2>7. Kept(review, review')
    BY <1>2, <2>2, <2>3, <2>5, <2>13, OneReviewKept
  <2>8. /\ review'[r] = w
        /\ \A s \in Reviews : s # r => review'[s] = review[s]
    BY <1>2, <2>5 DEF TypeInv, ReviewsFit
  <2>9. ProductsStay(review, review')
    BY <1>2, <2>3, <2>6, <2>8 DEF ProductsStay, ChosenApplied, AppliedOnce
  <2>10. ChoicesStay(review, review')
    BY <2>6, <2>8, ReviewAssumption DEF ChoicesStay
  <2>11. TypeInv'
    BY <1>2, <1>3, <2>2, <2>4, <2>5, <2>7, ReviewMoves
  <2> QED
    BY <2>7, <2>9, <2>10, <2>11
<1> QED
  BY <1>4, <1>5 DEF ChooseProductPlan

-----------------------------------------------------------------------------
(***************************************************************************)
(* The steps that create an application, apply a product or edit a         *)
(* template application: transactions, so the requests stay.               *)
(***************************************************************************)
\* One more Draft, of an application whose row agrees with it.
Extension(a, row) ==
  /\ Appended(a, row)
  /\ \A b \in Applications : b # a => app'[b] = app[b]
  /\ row.format = "v3" => app'[a].origin /\ app'[a].name = row.name

LEMMA ApplicationInserted ==
  ASSUME TypeInv, NEW a \in Applications, NEW name \in Names, NEW origin \in BOOLEAN,
         NEW row \in Rows, row.base = 0, row.format = "v3" => origin /\ row.name = name,
         InsertApplication(a, name, origin, row), Kept(review, review'),
         snapshot' \in [Applications -> 0 .. MaxDrafts], UNCHANGED <<published, req>>
  PROVE  /\ LedgerTyped' /\ RequestsFit' /\ Extension(a, row) /\ Longer(drafts, drafts')
         /\ Len(drafts[a]) = 0 /\ Len(drafts'[a]) = 1 /\ drafts'[a][1] = row
<1>1. Len(drafts[a]) = 0
  BY NewestIsLength DEF TypeInv, InsertApplication
<1>2. DOMAIN drafts[a] = 1 .. Len(drafts[a])
  BY NewestIsLength DEF TypeInv
<1>3. InsertDraft(a, 1, row)
  BY <1>1, <1>2 DEF InsertApplication, InsertDraft, NumberFree
<1>4. /\ app' \in [Applications -> [name : Names \cup {None}, origin : BOOLEAN]]
      /\ \A b \in Applications : b # a => app'[b] = app[b]
      /\ app'[a] = [name |-> name, origin |-> origin]
  BY DEF InsertApplication, TypeInv, LedgerTyped
<1>5. 1 \in 1 .. Len(drafts[a]) + 1 /\ 1 <= MaxDrafts
  BY <1>1, LedgerAssumption
<1>6. /\ LedgerTyped' /\ drafts' = [drafts EXCEPT ![a] = Append(@, row)]
      /\ Len(drafts'[a]) = Len(drafts[a]) + 1 /\ drafts'[a][Len(drafts'[a])] = row
      /\ Longer(drafts, drafts') /\ Longer(published, published')
  BY <1>3, <1>4, <1>5, DraftAppended DEF TypeInv
<1>7. RequestsFit'
  BY <1>6, RequestsStay DEF TypeInv
<1>8. Appended(a, row)
  BY <1>1, <1>6 DEF Appended
<1> QED
  BY <1>1, <1>4, <1>6, <1>7, <1>8 DEF Extension

LEMMA LocalCreated ==
  ASSUME TypeInv, NEW k \in Clients, NEW a \in Applications, NEW name \in Names,
         CreateLocalApplicationGraph(k, a, name), UNCHANGED <<review, snapshot>>
  PROVE  /\ TypeInv'
         /\ \E row \in Rows : Extension(a, row) /\ row.by = "client"
<1> DEFINE row == Row(0, "client", "v1", name)
<1>1. row \in Rows /\ row.base = 0 /\ row.by = "client" /\ row.format = "v1"
  BY RowTyped, LedgerAssumption DEF Authors, Formats
<1>2. InsertApplication(a, name, FALSE, row) /\ UNCHANGED <<published, req>>
  BY DEF CreateLocalApplicationGraph
<1>3. snapshot' \in [Applications -> 0 .. MaxDrafts] /\ Kept(review, review')
  BY KeptItself DEF TypeInv, LedgerTyped
<1> HIDE DEF row
<1>4. LedgerTyped' /\ RequestsFit' /\ Extension(a, row) /\ Longer(drafts, drafts')
  BY <1>1, <1>2, <1>3, ApplicationInserted
<1>5. ReviewsFit'
  BY <1>4, ReviewsStay DEF TypeInv
<1> QED
  BY <1>1, <1>4, <1>5 DEF TypeInv

LEMMA TemplateCreated ==
  ASSUME TypeInv, NEW k \in Clients, NEW a \in Applications, NEW name \in Names,
         InstantiateCuratedTemplate(k, a, name)
  PROVE  /\ TypeInv'
         /\ \E row \in Rows : Extension(a, row) /\ row.by = "template"
<1> DEFINE row == Row(0, "template", "v3", name)
<1>1. row \in Rows /\ row.base = 0 /\ row.by = "template" /\ row.name = name
  BY RowTyped, LedgerAssumption DEF Authors, Formats
<1>2. InsertApplication(a, name, TRUE, row) /\ UNCHANGED <<published, req, review>>
  BY DEF InstantiateCuratedTemplate
<1>3. snapshot' \in [Applications -> 0 .. MaxDrafts] /\ Kept(review, review')
  BY <1>2, KeptItself, LedgerAssumption DEF TypeInv, LedgerTyped, InstantiateCuratedTemplate
<1> HIDE DEF row
<1>4. LedgerTyped' /\ RequestsFit' /\ Extension(a, row) /\ Longer(drafts, drafts')
  BY <1>1, <1>2, <1>3, ApplicationInserted
<1>5. ReviewsFit'
  BY <1>2, <1>4, ReviewsStay DEF TypeInv
<1> QED
  BY <1>1, <1>4, <1>5 DEF TypeInv

LEMMA ProductCreated ==
  ASSUME TypeInv, NEW k \in Clients, NEW r \in Reviews, NEW a \in Applications,
         NEW name \in Names, NEW kind \in Product,
         CreateProductRequirement(k, r, a, name, kind), UNCHANGED snapshot
  PROVE  /\ TypeInv' /\ Kept(review, review') /\ ChoicesStay(review, review')
         /\ \E row \in Rows : Extension(a, row) /\ row.by = "client"
         /\ Len(drafts[a]) = 0 /\ review[r].kind = "none"
         /\ review'[r].app = a /\ review'[r].status # "applied"
         /\ \A s \in Reviews : s # r => review'[s] = review[s]
<1>12. PICK vague \in BOOLEAN :
         review' = [review EXCEPT ![r] =
           [NoReview EXCEPT !.kind = kind, !.app = a, !.base = 1,
                            !.vague = vague, !.status = "planned"]]
  BY DEF CreateProductRequirement
<1> DEFINE row == Row(0, "client", "v1", name)
           w == [NoReview EXCEPT !.kind = kind, !.app = a, !.base = 1,
                                 !.vague = vague, !.status = "planned"]
<1>1. row \in Rows /\ row.base = 0 /\ row.by = "client" /\ row.format = "v1"
  BY RowTyped, LedgerAssumption DEF Authors, Formats
<1>2. /\ InsertApplication(a, name, FALSE, row) /\ UNCHANGED <<published, req>>
      /\ review' = [review EXCEPT ![r] = w] /\ review[r] = NoReview
  BY <1>12 DEF CreateProductRequirement
<1>3. review[r].kind = "none"
  BY <1>2 DEF NoReview
<1>4. /\ w.app = a /\ w.base = 1 /\ w.status = "planned" /\ w.plan = None
  BY DEF NoReview
<1>5. w \in Review
  BY DEF NoReview, Review, Product, Decisions
<1> HIDE DEF row, w
<1>6. Kept(review, review') /\ ChoicesStay(review, review')
  BY <1>2, <1>5, <1>3, OneReviewKept DEF Product
<1>7. snapshot' \in [Applications -> 0 .. MaxDrafts]
  BY DEF TypeInv, LedgerTyped
<1>8. /\ LedgerTyped' /\ RequestsFit' /\ Extension(a, row) /\ Longer(drafts, drafts')
      /\ Len(drafts[a]) = 0 /\ Len(drafts'[a]) = 1
  BY <1>1, <1>2, <1>6, <1>7, ApplicationInserted
<1>9. Bound(w, drafts')
  BY <1>4, <1>8 DEF Bound
<1>10. ReviewsFit'
  BY <1>2, <1>8, <1>9, <1>5, ReviewWritten DEF TypeInv
<1>11. /\ review'[r] = w
      /\ \A s \in Reviews : s # r => review'[s] = review[s]
  BY <1>2 DEF TypeInv, ReviewsFit
<1> QED
  BY <1>1, <1>4, <1>6, <1>8, <1>10, <1>11, <1>3 DEF TypeInv

LEMMA ProductApplied ==
  ASSUME TypeInv, NEW k \in Clients, NEW r \in Reviews, ApplyProduct(k, r),
         UNCHANGED snapshot
  PROVE  /\ TypeInv' /\ Kept(review, review') /\ ChoicesStay(review, review')
         /\ review[r].app \in Applications /\ IsProduct(r)
         /\ \E row \in Rows : Extension(review[r].app, row) /\ row.by = r
         /\ Len(drafts[review[r].app]) = review[r].base
         /\ review[r].status # "applied"
         /\ review'[r].status = "applied" /\ review'[r].app = review[r].app
         /\ review'[r].base = review[r].base /\ review'[r].kind = review[r].kind
         /\ review'[r].decision # None
         /\ \A s \in Reviews : s # r => review'[s] = review[s]
<1> DEFINE a == review[r].app
           n == review[r].base
           format == IF review[r].kind = "restaurant" THEN "v3" ELSE "v1"
           row == Row(n, r, format, app[a].name)
           w == [review[r] EXCEPT !.status = "applied"]
<1>1. /\ a \in Applications /\ n \in 1 .. Len(drafts[a]) /\ Len(drafts[a]) \in Nat
      /\ review[r] \in Review /\ Bound(review[r], drafts) /\ review[r].decision # None
      /\ review[r].kind # "none"
  BY DEF TypeInv, ReviewsFit, LedgerTyped, Bound, ApplyProduct, IsProduct
<1>2. n = Len(drafts[a]) /\ n < MaxDrafts
  BY <1>1, NewestIsLength DEF TypeInv, ApplyProduct, Unmoved
<1>3. /\ app[a].name \in Names
      /\ app \in [Applications -> [name : Names \cup {None}, origin : BOOLEAN]]
  BY <1>1 DEF TypeInv, LedgerTyped
<1>4. n \in 0 .. MaxDrafts /\ r \in Authors /\ format \in Formats
  BY <1>1, <1>2, LedgerAssumption DEF Authors, Formats
<1>5. /\ row \in Rows /\ row.base = n /\ row.by = r /\ row.format = format
      /\ row.name = app[a].name
  BY <1>3, <1>4, RowTyped
<1>6. /\ InsertDraft(a, n + 1, row) /\ UNCHANGED <<published, req>>
      /\ app' = IF format = "v3" THEN [app EXCEPT ![a].origin = TRUE] ELSE app
      /\ review' = [review EXCEPT ![r] = w]
  BY DEF ApplyProduct
<1>7. /\ w \in Review /\ w.kind = review[r].kind /\ w.app = a /\ w.base = n
      /\ w.decision = review[r].decision /\ w.status = "applied"
      /\ w.plan = review[r].plan
  BY <1>1 DEF Review
<1> HIDE DEF row, w
<1>8. /\ app' \in [Applications -> [name : Names \cup {None}, origin : BOOLEAN]]
      /\ \A b \in Applications : b # a => app'[b] = app[b]
      /\ app'[a].name = app[a].name
      /\ format = "v3" => app'[a].origin
  BY <1>1, <1>3, <1>6
<1>9. n + 1 \in 1 .. Len(drafts[a]) + 1 /\ n + 1 <= MaxDrafts
  BY <1>1, <1>2, LedgerAssumption
<1>10. snapshot' \in [Applications -> 0 .. MaxDrafts]
  BY DEF TypeInv, LedgerTyped
<1> HIDE DEF a, n, format
<1>11. /\ LedgerTyped' /\ drafts' = [drafts EXCEPT ![a] = Append(@, row)]
       /\ Longer(drafts, drafts') /\ Longer(published, published')
  BY <1>1, <1>3, <1>5, <1>6, <1>8, <1>9, <1>10, DraftAppended DEF TypeInv
<1>12. Kept(review, review')
  BY <1>1, <1>6, <1>7, OneReviewKept DEF a, n, DecisionKept
<1>13. /\ review'[r] = w
       /\ \A s \in Reviews : s # r => review'[s] = review[s]
  BY <1>6 DEF TypeInv, ReviewsFit
<1>14. ChoicesStay(review, review')
  BY <1>7, <1>13 DEF ChoicesStay
<1>15. RequestsFit'
  BY <1>6, <1>11, <1>12, RequestsStay DEF TypeInv
<1>16. Bound(w, drafts')
  <2>1. Bound(w, drafts)
    BY <1>1, <1>7 DEF Bound, a, n
  <2> QED
    BY <1>7, <1>11, <2>1, BoundStays DEF TypeInv, LedgerTyped
<1>17. ReviewsFit'
  BY <1>6, <1>7, <1>11, <1>16, ReviewWritten DEF TypeInv
<1>18. Extension(a, row)
  BY <1>2, <1>5, <1>8, <1>11 DEF Extension, Appended
<1>19. review[r].status # "applied" /\ IsProduct(r)
  BY DEF ApplyProduct
<1> QED
  BY <1>1, <1>2, <1>5, <1>7, <1>11, <1>12, <1>13, <1>14, <1>15, <1>17, <1>18, <1>19
     DEF TypeInv, a, n

LEMMA TemplateAppends ==
  ASSUME TypeInv, NEW a \in Applications, NEW row \in Rows, NEW base,
         BaseIsLatest(a, base), row.base = base, AppendTemplate(a, base, row),
         app' \in [Applications -> [name : Names \cup {None}, origin : BOOLEAN]],
         \A b \in Applications : b # a => app'[b] = app[b],
         app'[a].name = row.name, app'[a].origin, UNCHANGED <<published, req, review>>
  PROVE  TypeInv' /\ Extension(a, row)
<1>1. /\ Newest(a) = Len(drafts[a]) /\ Len(drafts[a]) \in Nat
      /\ DOMAIN drafts[a] = 1 .. Len(drafts[a])
  BY NewestIsLength DEF TypeInv
<1>2. /\ Newest(a) + 1 \in 1 .. Len(drafts[a]) + 1 /\ Newest(a) + 1 <= MaxDrafts
      /\ Newest(a) + 1 \in 0 .. MaxDrafts
  BY <1>1, LedgerAssumption DEF AppendTemplate
<1>3. /\ snapshot' \in [Applications -> 0 .. MaxDrafts] /\ app'[a].name \in Names
      /\ InsertDraft(a, Newest(a) + 1, row)
  BY <1>2 DEF AppendTemplate, TypeInv, LedgerTyped, Rows
<1>4. /\ LedgerTyped' /\ drafts' = [drafts EXCEPT ![a] = Append(@, row)]
      /\ Longer(drafts, drafts') /\ Longer(published, published')
  BY <1>2, <1>3, DraftAppended DEF TypeInv
<1>5. RequestsFit' /\ ReviewsFit'
  BY <1>4, KeptItself, RequestsStay, ReviewsStay DEF TypeInv
<1>6. row.base = Len(drafts[a])
  BY <1>1 DEF BaseIsLatest
<1> QED
  BY <1>4, <1>5, <1>6 DEF TypeInv, Extension, Appended

LEMMA TemplateRenamed ==
  ASSUME TypeInv, NEW k \in Clients, NEW a \in Applications, NEW name \in Names, NEW base,
         AppendTemplateDraftRevision(k, a, base, name)
  PROVE  /\ TypeInv'
         /\ \E row \in Rows : Extension(a, row) /\ row.by = "template"
<1> DEFINE row == Row(base, "template", "v3", name)
<1>1. base \in 0 .. MaxDrafts
  BY NewestIsLength DEF TypeInv, LedgerTyped, AppendTemplateDraftRevision, BaseIsLatest
<1>2. row \in Rows /\ row.base = base /\ row.by = "template" /\ row.name = name
  BY <1>1, RowTyped DEF Authors, Formats
<1>3. /\ BaseIsLatest(a, base) /\ AppendTemplate(a, base, row) /\ app[a].origin
      /\ app' = [app EXCEPT ![a].name = name] /\ UNCHANGED <<published, req, review>>
  BY DEF AppendTemplateDraftRevision
<1>4. /\ app' \in [Applications -> [name : Names \cup {None}, origin : BOOLEAN]]
      /\ \A b \in Applications : b # a => app'[b] = app[b]
      /\ app'[a].name = name /\ app'[a].origin
  BY <1>3 DEF TypeInv, LedgerTyped
<1> HIDE DEF row
<1>5. TypeInv' /\ Extension(a, row)
  BY <1>2, <1>3, <1>4, TemplateAppends
<1> QED
  BY <1>2, <1>5

LEMMA TemplateEdited ==
  ASSUME TypeInv, NEW k \in Clients, NEW a \in Applications, NEW base, NEW via,
         AppendTemplateEdit(k, a, base, via)
  PROVE  /\ TypeInv'
         /\ \E row \in Rows : Extension(a, row) /\ row.by = "template"
<1> DEFINE row == Row(base, "template", "v3", Latest(a).name)
<1>1. base \in 0 .. MaxDrafts /\ Exists(a)
  BY NewestIsLength DEF TypeInv, LedgerTyped, AppendTemplateEdit, BaseIsLatest
<1>2. Latest(a).name \in Names
  BY <1>1, LatestIsARow DEF TypeInv, Rows
<1>3. row \in Rows /\ row.base = base /\ row.by = "template" /\ row.name = Latest(a).name
  BY <1>1, <1>2, RowTyped DEF Authors, Formats
<1>4. /\ BaseIsLatest(a, base) /\ AppendTemplate(a, base, row)
      /\ app[a].origin /\ app[a].name = Latest(a).name
      /\ UNCHANGED <<published, app, req, review>>
  BY DEF AppendTemplateEdit, Identified
<1>5. app \in [Applications -> [name : Names \cup {None}, origin : BOOLEAN]]
  BY DEF TypeInv, LedgerTyped
<1> HIDE DEF row
<1>6. TypeInv' /\ Extension(a, row)
  BY <1>3, <1>4, <1>5, TemplateAppends
<1> QED
  BY <1>3, <1>6

LEMMA SnapshotMoves ==
  ASSUME TypeInv, NEW a \in Applications,
         SnapshotExpires(a) \/ \E k \in Clients : OpenTemplateDraft(k, a)
  PROVE  TypeInv' /\ UNCHANGED <<drafts, published, app, req, review>>
<1>1. UNCHANGED <<drafts, published, app, req, review>>
  BY DEF SnapshotExpires, OpenTemplateDraft
<1>2. Newest(a) \in 0 .. MaxDrafts /\ 0 \in 0 .. MaxDrafts
  BY NewestIsLength, LedgerAssumption DEF TypeInv, LedgerTyped
<1>3. snapshot' = [snapshot EXCEPT ![a] = 0] \/ snapshot' = [snapshot EXCEPT ![a] = Newest(a)]
  BY DEF SnapshotExpires, OpenTemplateDraft
<1>4. LedgerTyped'
  BY <1>1, <1>2, <1>3 DEF TypeInv, LedgerTyped
<1>5. RequestsFit' /\ ReviewsFit'
  BY <1>1 DEF TypeInv, RequestsFit, ReviewsFit
<1> QED
  BY <1>1, <1>4, <1>5 DEF TypeInv

-----------------------------------------------------------------------------
(***************************************************************************)
(* Every step has one of four shapes.                                      *)
(***************************************************************************)
Released ==
  \E a \in Applications : \E d \in 1 .. Len(drafts[a]) :
    /\ published' = [published EXCEPT ![a] = Append(@, d)]
    /\ \A i \in 1 .. Len(published[a]) : published[a][i] # d

\* A review of a that the composition service has decided produced the row.
Reviewed(a, row) ==
  \E r \in Reviews : /\ review[r].kind # "none" /\ review[r].app = a
                     /\ review[r].base = row.base /\ review[r].decision \in Decisions

DraftsStand ==
  /\ ProductsStay(review, review') /\ UNCHANGED <<drafts, app>>
  /\ UNCHANGED published \/ Released

DraftComes ==
  /\ ProductsStay(review, review') /\ UNCHANGED published
  /\ \E a \in Applications, row \in Rows :
       /\ Extension(a, row) /\ row.by \notin Reviews
       /\ row.by = "review" => Reviewed(a, row)

ProductComes ==
  /\ UNCHANGED published
  /\ \E r \in Reviews, a \in Applications :
       /\ \E row \in Rows : Extension(a, row) /\ row.by = "client"
       /\ Len(drafts[a]) = 0 /\ review[r].kind = "none"
       /\ review'[r].app = a /\ review'[r].status # "applied"
       /\ \A s \in Reviews : s # r => review'[s] = review[s]

ProductGoesLive ==
  /\ UNCHANGED published
  /\ \E r \in Reviews :
       /\ review[r].app \in Applications /\ IsProduct(r)
       /\ \E row \in Rows : Extension(review[r].app, row) /\ row.by = r
       /\ Len(drafts[review[r].app]) = review[r].base
       /\ review[r].status # "applied"
       /\ review'[r].status = "applied" /\ review'[r].app = review[r].app
       /\ review'[r].base = review[r].base /\ review'[r].kind = review[r].kind
       /\ review'[r].decision # None
       /\ \A s \in Reviews : s # r => review'[s] = review[s]

Shape ==
  /\ TypeInv' /\ Kept(review, review') /\ ChoicesStay(review, review')
  /\ DraftsStand \/ DraftComes \/ ProductComes \/ ProductGoesLive

LEMMA AuthorsApart ==
  \A by \in {"client", "proposal", "diff", "template", "review"} : by \notin Reviews
  BY LedgerAssumption

LEMMA LedgerShape ==
  ASSUME TypeInv, LedgerNext, UNCHANGED <<review, snapshot>>
  PROVE  Shape
<1>1. Kept(review, review') /\ ChoicesStay(review, review') /\ ProductsStay(review, review')
  BY ReviewsAlike
<1>2. ASSUME NEW k \in Clients, NEW a \in Applications, NEW name \in Names,
             CreateLocalApplicationGraph(k, a, name)
      PROVE  Shape
  <2>1. UNCHANGED published
    BY <1>2 DEF CreateLocalApplicationGraph
  <2> QED
    BY <1>1, <1>2, <2>1, LocalCreated, AuthorsApart DEF Shape, DraftComes
<1>3. ASSUME NEW k \in Clients, NEW a \in Applications, ReadLatestToAppend(k, a)
      PROVE  Shape
  <2>1. TypeInv'
    BY <1>3, LatestRead DEF ReadLatestToAppend
  <2> QED
    BY <1>1, <1>3, <2>1 DEF Shape, DraftsStand, ReadLatestToAppend
<1>4. ASSUME NEW k \in Clients, NEW a \in Applications, NEW by \in {"proposal", "diff"},
             ReadLatestToPatch(k, a, by)
      PROVE  Shape
  <2>1. TypeInv'
    BY <1>4, LatestRead DEF ReadLatestToPatch
  <2> QED
    BY <1>1, <1>4, <2>1 DEF Shape, DraftsStand, ReadLatestToPatch
<1>5. ASSUME NEW k \in Clients, NEW a \in Applications, NEW d, FindPublished(k, a, d)
      PROVE  Shape
  <2>1. TypeInv'
    BY <1>5, PublishedFound
  <2> QED
    BY <1>1, <1>5, <2>1 DEF Shape, DraftsStand, FindPublished
<1>6. ASSUME NEW k \in Clients, AppendDraftRevision(k)
      PROVE  Shape
  <2>1. UNCHANGED <<published, app>>
    BY <1>6 DEF AppendDraftRevision
  <2>2. /\ TypeInv'
        /\ \/ UNCHANGED drafts
           \/ \E a \in Applications, row \in Rows :
                Appended(a, row) /\ row.by = "client" /\ row.format = "v1"
    BY <1>6, ClientAppends
  <2>3. ASSUME NEW a \in Applications, NEW row \in Rows,
               Appended(a, row), row.by = "client", row.format = "v1"
        PROVE  DraftComes
    BY <1>1, <2>1, <2>3, AuthorsApart DEF DraftComes, Extension
  <2> QED
    BY <1>1, <2>1, <2>2, <2>3 DEF Shape, DraftsStand
<1>7. ASSUME NEW k \in Clients, AppendPatched(k)
      PROVE  Shape
  <2>1. UNCHANGED <<published, app>>
    BY <1>7 DEF AppendPatched
  <2>2. /\ TypeInv'
        /\ \/ UNCHANGED drafts
           \/ \E a \in Applications, row \in Rows :
                /\ Appended(a, row) /\ row.by \in {"proposal", "diff"}
                /\ row.format = "v1"
    BY <1>7, PatchAppends
  <2>3. ASSUME NEW a \in Applications, NEW row \in Rows,
               Appended(a, row), row.by \in {"proposal", "diff"}, row.format = "v1"
        PROVE  DraftComes
    BY <1>1, <2>1, <2>3, AuthorsApart DEF DraftComes, Extension
  <2> QED
    BY <1>1, <2>1, <2>2, <2>3 DEF Shape, DraftsStand
<1>8. ASSUME NEW k \in Clients, CountPublished(k)
      PROVE  Shape
  <2>1. TypeInv'
    BY <1>8, PublishedCounted
  <2> QED
    BY <1>1, <1>8, <2>1 DEF Shape, DraftsStand, CountPublished
<1>9. ASSUME NEW k \in Clients, InsertPublished(k)
      PROVE  Shape
  <2>1. TypeInv' /\ (UNCHANGED published \/ Released)
    BY <1>9, PublicationInserted DEF Released
  <2>2. UNCHANGED <<drafts, app>>
    BY <1>9 DEF InsertPublished
  <2> QED
    BY <1>1, <2>1, <2>2 DEF Shape, DraftsStand
<1> QED
  BY <1>2, <1>3, <1>4, <1>5, <1>6, <1>7, <1>8, <1>9 DEF LedgerNext

LEMMA ReviewShape ==
  ASSUME TypeInv, ReviewNext, UNCHANGED snapshot
  PROVE  Shape
<1>1. ASSUME TypeInv', UNCHANGED <<drafts, published, app, review>>
      PROVE  Shape
  BY <1>1, ReviewsAlike DEF Shape, DraftsStand
<1>2. ASSUME NEW k \in Clients, NEW r \in Reviews, NEW a \in Applications,
             ReadLatestForReview(k, r, a)
      PROVE  Shape
  BY <1>1, <1>2, RequirementRead DEF ReadLatestForReview
<1>3. ASSUME NEW k \in Clients, NEW r \in Reviews, NEW a \in Applications,
             NEW name \in Names, NEW kind \in {"product", "restaurant"},
             CreateProductRequirement(k, r, a, name, kind)
      PROVE  Shape
  <2>1. UNCHANGED published
    BY <1>3 DEF CreateProductRequirement
  <2> QED
    BY <1>3, <2>1, ProductCreated DEF Shape, ProductComes, Product
<1>4. ASSUME NEW k \in Clients, NEW r \in Reviews, ReadReviewToPlan(k, r)
      PROVE  Shape
  BY <1>1, <1>4, ReviewReads DEF ReadReviewToPlan
<1>5. ASSUME NEW k \in Clients, NEW r \in Reviews, NEW decision \in Decisions,
             ReadReviewToDecide(k, r, decision)
      PROVE  Shape
  <2>1. UNCHANGED <<drafts, published, app, review>>
    BY <1>5 DEF ReadReviewToDecide
  <2>2. TypeInv'
    BY <1>5, ReviewReads
  <2> QED
    BY <1>1, <2>1, <2>2
<1>6. ASSUME NEW k \in Clients, NEW r \in Reviews, ReadReviewToApply(k, r)
      PROVE  Shape
  BY <1>1, <1>6, ReviewReads DEF ReadReviewToApply
<1>7. ASSUME NEW k \in Clients, NEW r \in Reviews, NEW alternative \in Alternatives,
             ReadReviewToChoose(k, r, alternative)
      PROVE  Shape
  <2>1. UNCHANGED <<drafts, published, app, review>>
    BY <1>7 DEF ReadReviewToChoose
  <2>2. TypeInv'
    BY <1>7, ReviewReads
  <2> QED
    BY <1>1, <2>1, <2>2
<1>8. ASSUME NEW k \in Clients, NEW r \in Reviews, ApplyProduct(k, r)
      PROVE  Shape
  <2>1. UNCHANGED published
    BY <1>8 DEF ApplyProduct
  <2> QED
    BY <1>8, <2>1, ProductApplied DEF Shape, ProductGoesLive
<1>9. ASSUME NEW k \in Clients, CreateRequirement(k)
      PROVE  Shape
  <2>1. UNCHANGED <<drafts, published, app>>
    BY <1>9 DEF CreateRequirement
  <2> QED
    BY <1>9, <2>1, RequirementCreated DEF Shape, DraftsStand
<1>10. ASSUME NEW k \in Clients,
              CheckDraftToPlan(k) \/ CheckDraftToApply(k) \/ CheckDraftToChoose(k)
       PROVE  Shape
  BY <1>1, <1>10, DraftChecks DEF CheckDraftToPlan, CheckDraftToApply, CheckDraftToChoose
<1>11. ASSUME NEW k \in Clients, RequestPlan(k) \/ Decide(k) \/ MarkApplied(k)
       PROVE  Shape
  <2>1. UNCHANGED <<drafts, published, app>>
    BY <1>11 DEF RequestPlan, Decide, MarkApplied
  <2> QED
    BY <1>11, <2>1, CompositionUpdated DEF Shape, DraftsStand
<1>12. ASSUME NEW k \in Clients, ReadLatestToApply(k)
       PROVE  Shape
  BY <1>1, <1>12, LatestReadToApply DEF ReadLatestToApply
<1>13. ASSUME NEW k \in Clients, AppendApplied(k)
       PROVE  Shape
  <2>1. UNCHANGED <<published, app, review>>
    BY <1>13 DEF AppendApplied
  <2>2. TypeInv'
    BY <1>13, ReviewAppends
  <2>3. CASE UNCHANGED drafts
    BY <1>1, <2>1, <2>2, <2>3
  <2>4. ASSUME NEW r \in Reviews, NEW row \in Rows,
               review[r].kind # "none", review[r].decision \in Decisions,
               review[r].app \in Applications, Appended(review[r].app, row),
               row.by = "review", row.base = review[r].base, row.format = "v1"
        PROVE  DraftComes
    <3>1. Reviewed(review[r].app, row) /\ Extension(review[r].app, row)
      BY <2>1, <2>4 DEF Reviewed, Extension
    <3> QED
      BY <2>1, <2>4, <3>1, AuthorsApart, ReviewsAlike DEF DraftComes
  <2>5. \/ UNCHANGED drafts
        \/ DraftComes
    BY <1>13, <2>4, ReviewAppends
  <2> QED
    BY <2>1, <2>2, <2>3, <2>5, ReviewsAlike DEF Shape
<1>14. ASSUME NEW k \in Clients, ChooseProductPlan(k)
       PROVE  Shape
  <2>1. UNCHANGED <<drafts, published, app>>
    BY <1>14 DEF ChooseProductPlan
  <2> QED
    BY <1>14, <2>1, ProductChosen DEF Shape, DraftsStand
<1> QED
  BY <1>2, <1>3, <1>4, <1>5, <1>6, <1>7, <1>8, <1>9, <1>10, <1>11, <1>12, <1>13, <1>14
     DEF ReviewNext

LEMMA TemplateShape ==
  ASSUME TypeInv, TemplateNext
  PROVE  Shape
<1>1. ASSUME UNCHANGED <<published, review>>, TypeInv', NEW a \in Applications,
             \E row \in Rows : Extension(a, row) /\ row.by = "template"
      PROVE  Shape
  BY <1>1, AuthorsApart, ReviewsAlike DEF Shape, DraftComes
<1>2. ASSUME NEW k \in Clients, NEW a \in Applications, NEW name \in Names,
             InstantiateCuratedTemplate(k, a, name)
      PROVE  Shape
  <2>1. UNCHANGED <<published, review>>
    BY <1>2 DEF InstantiateCuratedTemplate
  <2> QED
    BY <1>1, <1>2, <2>1, TemplateCreated
<1>3. ASSUME NEW a \in Applications,
             SnapshotExpires(a) \/ \E k \in Clients : OpenTemplateDraft(k, a)
      PROVE  Shape
  BY <1>3, SnapshotMoves, ReviewsAlike DEF Shape, DraftsStand
<1>4. ASSUME NEW k \in Clients, NEW a \in Applications, NEW base, NEW name \in Names,
             AppendTemplateDraftRevision(k, a, base, name)
      PROVE  Shape
  <2>1. UNCHANGED <<published, review>>
    BY <1>4 DEF AppendTemplateDraftRevision
  <2> QED
    BY <1>1, <1>4, <2>1, TemplateRenamed
<1>5. ASSUME NEW k \in Clients, NEW a \in Applications, NEW base, NEW via,
             AppendTemplateEdit(k, a, base, via)
      PROVE  Shape
  <2>1. UNCHANGED <<published, review>>
    BY <1>5 DEF AppendTemplateEdit
  <2> QED
    BY <1>1, <1>5, <2>1, TemplateEdited
<1> QED
  BY <1>2, <1>3, <1>4, <1>5 DEF TemplateNext

LEMMA StepShape ==
  ASSUME TypeInv, [Next]_vars
  PROVE  Shape
<1>1. CASE UNCHANGED vars
  <2>1. LedgerTyped' /\ RequestsFit' /\ ReviewsFit'
    BY <1>1 DEF TypeInv, vars, LedgerTyped, RequestsFit, ReviewsFit
  <2> QED
    BY <1>1, <2>1, ReviewsAlike DEF TypeInv, vars, Shape, DraftsStand
<1> QED
  BY <1>1, LedgerShape, ReviewShape, TemplateShape DEF Next

-----------------------------------------------------------------------------
(***************************************************************************)
(* Types.                                                                  *)
(***************************************************************************)
LEMMA InitTyped == Init => TypeInv
<1> SUFFICES ASSUME Init PROVE TypeInv
  OBVIOUS
<1>1. LedgerTyped
  BY LedgerAssumption DEF Init, LedgerInit, LedgerTyped
<1>2. RequestsFit
  BY IdleFits DEF Init, LedgerInit, RequestsFit
<1>3. NoReview \in Review /\ Bound(NoReview, drafts)
  BY DEF NoReview, Review, Bound
<1>4. ReviewsFit
  BY <1>3 DEF Init, ReviewsFit
<1> QED
  BY <1>1, <1>2, <1>4 DEF TypeInv

LEMMA TypeInvHolds == Spec => []TypeInv
<1>1. TypeInv /\ [Next]_vars => TypeInv'
  BY StepShape DEF Shape
<1> QED
  BY InitTyped, <1>1, PTL DEF Spec

LEMMA TypeInvIsTypeOK == TypeInv => TypeOK
<1> SUFFICES ASSUME TypeInv PROVE TypeOK
  OBVIOUS
<1>1. ASSUME NEW a \in Applications
      PROVE  /\ DOMAIN drafts[a] \subseteq 1 .. MaxDrafts
             /\ \A n \in DOMAIN drafts[a] : drafts[a][n] \in Rows
             /\ DOMAIN published[a] \subseteq Nat \ {0}
             /\ Sources(published[a]) \subseteq DOMAIN drafts[a]
  <2>1. /\ drafts[a] \in Seq(Rows) /\ Len(drafts[a]) <= MaxDrafts /\ Len(drafts[a]) \in Nat
        /\ published[a] \in Seq(Nat) /\ Len(published[a]) \in Nat
        /\ \A i \in 1 .. Len(published[a]) : published[a][i] \in 1 .. Len(drafts[a])
    BY DEF TypeInv, LedgerTyped
  <2>2. DOMAIN drafts[a] = 1 .. Len(drafts[a]) /\ DOMAIN published[a] = 1 .. Len(published[a])
    BY <2>1, LenProperties
  <2>3. DOMAIN drafts[a] \subseteq 1 .. MaxDrafts /\ DOMAIN published[a] \subseteq Nat \ {0}
    BY <2>1, <2>2, LedgerAssumption
  <2>4. \A n \in DOMAIN drafts[a] : drafts[a][n] \in Rows
    BY <2>1, <2>2, ElementOfSeq
  <2>5. Sources(published[a]) \subseteq DOMAIN drafts[a]
    BY <2>1, <2>2 DEF Sources
  <2> QED
    BY <2>3, <2>4, <2>5
<1>2. /\ app \in [Applications -> [name : Names \cup {None}, origin : BOOLEAN]]
      /\ snapshot \in [Applications -> 0 .. MaxDrafts]
  BY DEF TypeInv, LedgerTyped
<1>3. req \in [Clients -> Request] /\ review \in [Reviews -> Review]
  BY DEF TypeInv, RequestsFit, ReviewsFit
<1> QED
  BY <1>1, <1>2, <1>3 DEF TypeOK, Request, Review

\* Every variable of the ledger, its reviews and its template edits keeps its type.
THEOREM LedgerTypeOK == Spec => []TypeOK
  BY TypeInvHolds, TypeInvIsTypeOK, PTL

-----------------------------------------------------------------------------
(***************************************************************************)
(* The history.                                                            *)
(***************************************************************************)
LEMMA ExtensionIsHistory ==
  ASSUME TypeInv, NEW a \in Applications, NEW row \in Rows, Appended(a, row),
         UNCHANGED published
  PROVE  History!Next
<1>1. History!Extends(a, row)
  BY DEF Appended, History!Extends
<1> QED
  BY <1>1 DEF History!Next

LEMMA StepIsHistory ==
  ASSUME TypeInv, [Next]_vars
  PROVE  History!Next \/ UNCHANGED <<drafts, published>>
<1>1. Shape
  BY StepShape
<1>2. CASE DraftsStand
  <2>1. ASSUME NEW a \in Applications, NEW d \in 1 .. Len(drafts[a]),
               published' = [published EXCEPT ![a] = Append(@, d)],
               \A i \in 1 .. Len(published[a]) : published[a][i] # d
        PROVE  History!Next
    <3>1. History!Publishes(a, d)
      BY <1>2, <2>1 DEF History!Publishes, DraftsStand
    <3> QED
      BY <3>1 DEF History!Next
  <2> QED
    BY <1>2, <2>1 DEF DraftsStand, Released
<1>3. CASE DraftComes
  BY <1>3, ExtensionIsHistory DEF DraftComes, Extension
<1>4. CASE ProductComes
  BY <1>4, ExtensionIsHistory DEF ProductComes, Extension
<1>5. CASE ProductGoesLive
  BY <1>5, ExtensionIsHistory DEF ProductGoesLive, Extension
<1> QED
  BY <1>1, <1>2, <1>3, <1>4, <1>5 DEF Shape

\* The two tables implement one history of Drafts and publications: the reads and
\* the inserts of any number of requests, in any order, only ever extend its end,
\* and a Draft computed from an earlier one extends exactly that one.
THEOREM LedgerImplementsHistory == Spec => ImplementsHistory
<1>1. Init => History!Init
  BY DEF Init, LedgerInit, History!Init
<1>2. TypeInv /\ [Next]_vars => [History!Next]_<<drafts, published>>
  BY StepIsHistory
<1> QED
  BY <1>1, <1>2, TypeInvHolds, PTL DEF Spec, ImplementsHistory, History!Spec

-----------------------------------------------------------------------------
(***************************************************************************)
(* Reviews.                                                                *)
(***************************************************************************)
\* The choice of a product plan is never replaced by another, however many requests
\* chose from the same undecided review, and leads to nothing but its application
\* as long as the composition service does not rewrite the review.
THEOREM LedgerChoiceStands == Spec => ChoiceStands
<1>1. TypeInv /\ [Next]_vars =>
        [\A r \in Reviews : IsProduct(r) /\ review[r].decision \in Alternatives =>
           /\ review'[r].decision \in {review[r].decision} \cup Decisions
           /\ ~Replanned(r)' => /\ review'[r].plan = review[r].plan
                                /\ review'[r].status \in {review[r].status, "applied"}]_vars
  BY StepShape DEF Shape, ChoicesStay, IsProduct, Product, Rewritten, Replanned
<1> QED
  BY <1>1, TypeInvHolds, PTL DEF Spec, ChoiceStands

\* The rows after one more.
LEMMA RowsExtended ==
  ASSUME TypeInv, TypeInv', NEW a \in Applications, NEW row \in Rows, Appended(a, row)
  PROVE  /\ Len(drafts[a]) \in Nat /\ Len(drafts'[a]) = Len(drafts[a]) + 1
         /\ drafts'[a][Len(drafts[a]) + 1] = row
         /\ \A n \in 1 .. Len(drafts[a]) : drafts'[a][n] = drafts[a][n]
         /\ \A b \in Applications : b # a => drafts'[b] = drafts[b]
<1>1. drafts[a] \in Seq(Rows) /\ Len(drafts[a]) \in Nat
  BY DEF TypeInv, LedgerTyped
<1>2. /\ drafts'[a] = Append(drafts[a], row)
      /\ \A b \in Applications : b # a => drafts'[b] = drafts[b]
  BY DEF Appended, TypeInv, LedgerTyped
<1> QED
  BY <1>1, <1>2

\* TemplateDraftOpens and NothingAppliedUndecided by numbers.
Opens(a) ==
  Len(drafts[a]) # 0 /\ drafts[a][Len(drafts[a])].format = "v3" =>
    app[a].origin /\ app[a].name = drafts[a][Len(drafts[a])].name

LEMMA OpensByNumber ==
  ASSUME TypeInv
  PROVE  TemplateDraftOpens <=> \A a \in Applications : Opens(a)
<1>1. ASSUME NEW a \in Applications
      PROVE  (Exists(a) /\ Latest(a).format = "v3" => Identified(a, Latest(a))) <=> Opens(a)
  <2>1. Latest(a) = drafts[a][Len(drafts[a])] /\ (Exists(a) <=> Len(drafts[a]) # 0)
    BY NewestIsLength DEF TypeInv, Latest
  <2> QED
    BY <2>1 DEF Opens, Identified
<1> QED
  BY <1>1 DEF TemplateDraftOpens

LEMMA OpensAfterExtension ==
  ASSUME TypeInv, TypeInv', \A b \in Applications : Opens(b),
         NEW a \in Applications, NEW row \in Rows, Extension(a, row)
  PROVE  \A b \in Applications : Opens(b)'
<1>1. Appended(a, row)
  BY DEF Extension
<1>2. /\ Len(drafts[a]) \in Nat /\ Len(drafts'[a]) = Len(drafts[a]) + 1
      /\ drafts'[a][Len(drafts[a]) + 1] = row
      /\ \A b \in Applications : b # a => drafts'[b] = drafts[b]
  BY <1>1, RowsExtended
<1>3. ASSUME NEW b \in Applications, b # a
      PROVE  Opens(b)'
  BY <1>2, <1>3 DEF Opens, Extension
<1>4. Opens(a)'
  BY <1>2 DEF Opens, Extension
<1> QED
  BY <1>3, <1>4

\* A template application whose latest Draft is a V3 Graph can be opened and
\* edited, whatever wrote the Draft and the application row.
THEOREM LedgerTemplateDraftOpens == Spec => []TemplateDraftOpens
<1> DEFINE Inv == \A a \in Applications : Opens(a)
<1>1. Init => Inv
  BY DEF Init, LedgerInit, Opens
<1>2. ASSUME TypeInv, Inv, [Next]_vars
      PROVE  Inv'
  <2>1. Shape /\ TypeInv'
    BY <1>2, StepShape DEF Shape
  <2>2. CASE DraftsStand
    BY <1>2, <2>2 DEF DraftsStand, Opens
  <2>3. CASE DraftComes
    BY <1>2, <2>1, <2>3, OpensAfterExtension DEF DraftComes
  <2>4. CASE ProductComes
    BY <1>2, <2>1, <2>4, OpensAfterExtension DEF ProductComes
  <2>5. CASE ProductGoesLive
    BY <1>2, <2>1, <2>5, OpensAfterExtension DEF ProductGoesLive
  <2> QED
    BY <2>1, <2>2, <2>3, <2>4, <2>5 DEF Shape
<1>3. TypeInv /\ Inv => TemplateDraftOpens
  BY OpensByNumber
<1> QED
  BY <1>1, <1>2, <1>3, TypeInvHolds, PTL DEF Spec

\* The review that a Draft of a composition came from.
Sourced(a, n) ==
  drafts[a][n].by = "review" =>
    \E r \in Reviews : /\ review[r].kind # "none" /\ review[r].app = a
                       /\ review[r].base = drafts[a][n].base
                       /\ review[r].decision \in Decisions

AllSourced == \A a \in Applications : \A n \in 1 .. Len(drafts[a]) : Sourced(a, n)

LEMMA SourcedByNumber ==
  ASSUME TypeInv
  PROVE  AllSourced => NothingAppliedUndecided
<1>1. \A a \in Applications : DOMAIN drafts[a] = 1 .. Len(drafts[a])
  BY NewestIsLength DEF TypeInv
<1> QED
  BY <1>1 DEF NothingAppliedUndecided, AllSourced, Sourced

LEMMA SourcedStays ==
  ASSUME Kept(review, review'), NEW a \in Applications, NEW n, NEW m, Sourced(a, n),
         drafts'[a][m] = drafts[a][n]
  PROVE  Sourced(a, m)'
<1>1. SUFFICES ASSUME drafts[a][n].by = "review"
               PROVE  Sourced(a, m)'
  BY DEF Sourced
<1>2. PICK r \in Reviews : /\ review[r].kind # "none" /\ review[r].app = a
                           /\ review[r].base = drafts[a][n].base
                           /\ review[r].decision \in Decisions
  BY <1>1 DEF Sourced
<1>3. /\ review'[r].kind # "none" /\ review'[r].app = a
      /\ review'[r].base = drafts[a][n].base /\ review'[r].decision \in Decisions
  BY <1>2 DEF Kept
<1> QED
  BY <1>3 DEF Sourced

LEMMA SourcedAfterExtension ==
  ASSUME TypeInv, TypeInv', Kept(review, review'), AllSourced,
         NEW a \in Applications, NEW row \in Rows, Appended(a, row),
         row.by = "review" => Reviewed(a, row)
  PROVE  AllSourced'
<1>1. /\ Len(drafts[a]) \in Nat /\ Len(drafts'[a]) = Len(drafts[a]) + 1
      /\ drafts'[a][Len(drafts[a]) + 1] = row
      /\ \A n \in 1 .. Len(drafts[a]) : drafts'[a][n] = drafts[a][n]
      /\ \A b \in Applications : b # a => drafts'[b] = drafts[b]
  BY RowsExtended
<1>2. ASSUME NEW b \in Applications, b # a, NEW n \in 1 .. Len(drafts'[b])
      PROVE  Sourced(b, n)'
  BY <1>1, <1>2, SourcedStays DEF AllSourced
<1>3. ASSUME NEW n \in 1 .. Len(drafts[a])
      PROVE  Sourced(a, n)'
  BY <1>1, <1>3, SourcedStays DEF AllSourced
<1>4. ASSUME NEW n, n = Len(drafts[a]) + 1
      PROVE  Sourced(a, n)'
  <2>1. SUFFICES ASSUME row.by = "review"
                 PROVE  Sourced(a, n)'
    BY <1>1, <1>4 DEF Sourced
  <2>2. PICK r \in Reviews : /\ review[r].kind # "none" /\ review[r].app = a
                             /\ review[r].base = row.base /\ review[r].decision \in Decisions
    BY <2>1 DEF Reviewed
  <2>3. /\ review'[r].kind # "none" /\ review'[r].app = a
        /\ review'[r].base = row.base /\ review'[r].decision \in Decisions
    BY <2>2 DEF Kept
  <2> QED
    BY <1>1, <1>4, <2>3 DEF Sourced
<1>5. ASSUME NEW n \in 1 .. Len(drafts'[a])
      PROVE  Sourced(a, n)'
  <2>1. n \in 1 .. Len(drafts[a]) \/ n = Len(drafts[a]) + 1
    BY <1>1
  <2> QED
    BY <1>3, <1>4, <2>1
<1> QED
  BY <1>2, <1>5 DEF AllSourced

LEMMA SourcedWhileDraftsStand ==
  ASSUME Kept(review, review'), AllSourced, UNCHANGED drafts
  PROVE  AllSourced'
  BY SourcedStays DEF AllSourced

\* A Draft that the composition service applied is never unreviewed, in whatever
\* order the reads and the updates of its requests ran.
THEOREM LedgerNothingAppliedUndecided == Spec => []NothingAppliedUndecided
<1>1. Init => AllSourced
  BY DEF Init, LedgerInit, AllSourced
<1>2. ASSUME TypeInv, AllSourced, [Next]_vars
      PROVE  AllSourced'
  <2>1. Shape /\ TypeInv' /\ Kept(review, review')
    BY <1>2, StepShape DEF Shape
  <2>2. CASE DraftsStand
    BY <1>2, <2>1, <2>2, SourcedWhileDraftsStand DEF DraftsStand
  <2>3. CASE DraftComes
    BY <1>2, <2>1, <2>3, SourcedAfterExtension DEF DraftComes, Extension
  <2>4. CASE ProductComes
    BY <1>2, <2>1, <2>4, SourcedAfterExtension DEF ProductComes, Extension
  <2>5. CASE ProductGoesLive
    BY <1>2, <2>1, <2>5, SourcedAfterExtension, AuthorsApart DEF ProductGoesLive, Extension
  <2> QED
    BY <2>1, <2>2, <2>3, <2>4, <2>5 DEF Shape
<1>3. TypeInv /\ AllSourced => NothingAppliedUndecided
  BY SourcedByNumber
<1> QED
  BY <1>1, <1>2, <1>3, TypeInvHolds, PTL DEF Spec

-----------------------------------------------------------------------------
(***************************************************************************)
(* Products.                                                               *)
(***************************************************************************)
\* Only a review that was applied wrote Drafts: one, right after its base.
WroteItsDraft(r) ==
  \A a \in Applications : \A n \in 1 .. Len(drafts[a]) : drafts[a][n].by = r =>
    /\ IsProduct(r) /\ review[r].app = a
    /\ n = review[r].base + 1 /\ AppliedOnce(review[r])

HasItsDraft(r) ==
  IsProduct(r) /\ ChosenApplied(review[r]) =>
    /\ review[r].base + 1 \in 1 .. Len(drafts[review[r].app])
    /\ drafts[review[r].app][review[r].base + 1].by = r

ProductInv == \A r \in Reviews : WroteItsDraft(r) /\ HasItsDraft(r)

\* A review is as much a product as before, and not newly applied.
SameProduct(r) ==
  /\ IsProduct(r)' <=> IsProduct(r)
  /\ IsProduct(r) => /\ review'[r].app = review[r].app
                     /\ review'[r].base = review[r].base
                     /\ ChosenApplied(review'[r]) => ChosenApplied(review[r])
                     /\ AppliedOnce(review[r]) => AppliedOnce(review'[r])

LEMMA ProductsAreSame ==
  ASSUME Kept(review, review'), ProductsStay(review, review'), NEW r \in Reviews
  PROVE  SameProduct(r)
  BY DEF Kept, ProductsStay, Product, SameProduct, IsProduct

LEMMA UnchangedIsSame ==
  ASSUME NEW r \in Reviews, review'[r] = review[r]
  PROVE  SameProduct(r)
  BY DEF SameProduct, IsProduct

LEMMA ProductWhileDraftsStand ==
  ASSUME NEW r \in Reviews, WroteItsDraft(r), HasItsDraft(r), SameProduct(r),
         UNCHANGED drafts
  PROVE  WroteItsDraft(r)' /\ HasItsDraft(r)'
<1>1. WroteItsDraft(r)'
  BY DEF WroteItsDraft, SameProduct
<1>2. HasItsDraft(r)'
  BY DEF HasItsDraft, SameProduct
<1> QED
  BY <1>1, <1>2

LEMMA ProductAfterOthersDraft ==
  ASSUME TypeInv, TypeInv', NEW r \in Reviews, WroteItsDraft(r), HasItsDraft(r),
         SameProduct(r), NEW a \in Applications, NEW row \in Rows, Appended(a, row),
         row.by # r
  PROVE  WroteItsDraft(r)' /\ HasItsDraft(r)'
<1>1. /\ Len(drafts[a]) \in Nat /\ Len(drafts'[a]) = Len(drafts[a]) + 1
      /\ drafts'[a][Len(drafts[a]) + 1] = row
      /\ \A n \in 1 .. Len(drafts[a]) : drafts'[a][n] = drafts[a][n]
      /\ \A b \in Applications : b # a => drafts'[b] = drafts[b]
  BY RowsExtended
<1>2. ASSUME NEW b \in Applications, NEW n \in 1 .. Len(drafts'[b]), drafts'[b][n].by = r
      PROVE  n \in 1 .. Len(drafts[b]) /\ drafts[b][n].by = r
  <2>1. CASE b = a
    BY <1>1, <1>2, <2>1
  <2>2. CASE b # a
    BY <1>1, <1>2, <2>2
  <2> QED
    BY <2>1, <2>2
<1>3. WroteItsDraft(r)'
  BY <1>2 DEF WroteItsDraft, SameProduct
<1>4. HasItsDraft(r)'
  <2>1. SUFFICES ASSUME IsProduct(r)', ChosenApplied(review'[r])
                 PROVE  /\ review'[r].base + 1 \in 1 .. Len(drafts'[review'[r].app])
                        /\ drafts'[review'[r].app][review'[r].base + 1].by = r
    BY DEF HasItsDraft
  <2> DEFINE b == review[r].app
             m == review[r].base + 1
  <2>2. /\ review'[r].app = b /\ review'[r].base + 1 = m
        /\ m \in 1 .. Len(drafts[b]) /\ drafts[b][m].by = r
    BY <2>1 DEF HasItsDraft, SameProduct
  <2>3. b \in Applications
    BY <2>1 DEF TypeInv, ReviewsFit, Bound, IsProduct, SameProduct
  <2> HIDE DEF b, m
  <2>4. m \in 1 .. Len(drafts'[b]) /\ drafts'[b][m] = drafts[b][m]
    <3>1. CASE b = a
      BY <1>1, <2>2, <3>1
    <3>2. CASE b # a
      BY <1>1, <2>2, <2>3, <3>2
    <3> QED
      BY <3>1, <3>2
  <2> QED
    BY <2>2, <2>4
<1> QED
  BY <1>3, <1>4

LEMMA ProductGoesLiveOnce ==
  ASSUME TypeInv, TypeInv', NEW r \in Reviews, WroteItsDraft(r),
         review[r].app \in Applications, NEW row \in Rows,
         Appended(review[r].app, row), row.by = r,
         Len(drafts[review[r].app]) = review[r].base,
         review'[r].status = "applied", review'[r].app = review[r].app,
         review'[r].base = review[r].base, IsProduct(r)', review'[r].decision # None
  PROVE  WroteItsDraft(r)' /\ HasItsDraft(r)'
<1> DEFINE a == review[r].app
<1>1. /\ Len(drafts[a]) \in Nat /\ Len(drafts'[a]) = Len(drafts[a]) + 1
      /\ drafts'[a][Len(drafts[a]) + 1] = row
      /\ \A n \in 1 .. Len(drafts[a]) : drafts'[a][n] = drafts[a][n]
      /\ \A b \in Applications : b # a => drafts'[b] = drafts[b]
  BY RowsExtended
<1>2. \A b \in Applications : \A n \in 1 .. Len(drafts[b]) : drafts[b][n].by # r
  BY <1>1 DEF WroteItsDraft
<1>3. ASSUME NEW b \in Applications, NEW n \in 1 .. Len(drafts'[b]), drafts'[b][n].by = r
      PROVE  b = a /\ n = review[r].base + 1
  <2>1. CASE b = a
    <3>1. n \in 1 .. Len(drafts[a]) \/ n = Len(drafts[a]) + 1
      BY <1>1, <2>1
    <3>2. n \notin 1 .. Len(drafts[a])
      BY <1>1, <1>2, <1>3, <2>1
    <3> QED
      BY <2>1, <3>1, <3>2
  <2>2. CASE b # a
    BY <1>1, <1>2, <1>3, <2>2
  <2> QED
    BY <2>1, <2>2
<1>4. WroteItsDraft(r)'
  BY <1>3 DEF WroteItsDraft, AppliedOnce
<1>5. HasItsDraft(r)'
  BY <1>1 DEF HasItsDraft
<1> QED
  BY <1>4, <1>5

LEMMA ProductStep ==
  ASSUME TypeInv, ProductInv, [Next]_vars, NEW s \in Reviews
  PROVE  WroteItsDraft(s)' /\ HasItsDraft(s)'
<1>1. /\ Shape /\ TypeInv' /\ Kept(review, review')
      /\ WroteItsDraft(s) /\ HasItsDraft(s)
  BY StepShape DEF Shape, ProductInv
<1>2. CASE DraftsStand
  <2>1. SameProduct(s) /\ UNCHANGED drafts
    BY <1>1, <1>2, ProductsAreSame DEF DraftsStand
  <2> QED
    BY <1>1, <2>1, ProductWhileDraftsStand
<1>3. CASE DraftComes
  <2>1. PICK a \in Applications, row \in Rows : Appended(a, row) /\ row.by \notin Reviews
    BY <1>3 DEF DraftComes, Extension
  <2>2. SameProduct(s) /\ row.by # s
    BY <1>1, <1>3, <2>1, ProductsAreSame DEF DraftComes
  <2> QED
    BY <1>1, <2>1, <2>2, ProductAfterOthersDraft
<1>4. CASE ProductComes
  <2>1. PICK r \in Reviews, a \in Applications :
          /\ \E row \in Rows : Extension(a, row) /\ row.by = "client"
          /\ review[r].kind = "none" /\ review'[r].status # "applied"
          /\ \A t \in Reviews : t # r => review'[t] = review[t]
    BY <1>4 DEF ProductComes
  <2>2. PICK row \in Rows : Appended(a, row) /\ row.by = "client"
    BY <2>1 DEF Extension
  <2>3. row.by # s
    BY <2>2, AuthorsApart
  <2>4. CASE s # r
    <3>1. SameProduct(s)
      BY <2>1, <2>4, UnchangedIsSame
    <3> QED
      BY <1>1, <2>2, <2>3, <3>1, ProductAfterOthersDraft
  <2>5. CASE s = r
    <3>1. ~IsProduct(s)
      BY <2>1, <2>5 DEF IsProduct
    <3>2. \A b \in Applications : \A n \in 1 .. Len(drafts[b]) : drafts[b][n].by # s
      BY <1>1, <3>1 DEF WroteItsDraft
    <3>3. /\ Len(drafts[a]) \in Nat /\ Len(drafts'[a]) = Len(drafts[a]) + 1
          /\ drafts'[a][Len(drafts[a]) + 1] = row
          /\ \A n \in 1 .. Len(drafts[a]) : drafts'[a][n] = drafts[a][n]
          /\ \A b \in Applications : b # a => drafts'[b] = drafts[b]
      BY <1>1, <2>2, RowsExtended
    <3>4. ASSUME NEW b \in Applications, NEW n \in 1 .. Len(drafts'[b])
          PROVE  drafts'[b][n].by # s
      <4>1. CASE b = a
        BY <2>3, <3>2, <3>3, <4>1
      <4>2. CASE b # a
        BY <3>2, <3>3, <4>2
      <4> QED
        BY <4>1, <4>2
    <3>5. WroteItsDraft(s)' /\ HasItsDraft(s)'
      BY <2>1, <2>5, <3>4 DEF WroteItsDraft, HasItsDraft, ChosenApplied
    <3> QED
      BY <3>5
  <2> QED
    BY <2>4, <2>5
<1>5. CASE ProductGoesLive
  <2>1. PICK r \in Reviews :
          /\ review[r].app \in Applications
          /\ \E row \in Rows : Extension(review[r].app, row) /\ row.by = r
          /\ Len(drafts[review[r].app]) = review[r].base
          /\ review'[r].status = "applied" /\ review'[r].app = review[r].app
          /\ review'[r].base = review[r].base /\ review'[r].kind = review[r].kind
          /\ review'[r].decision # None
          /\ IsProduct(r)
          /\ \A t \in Reviews : t # r => review'[t] = review[t]
    BY <1>5 DEF ProductGoesLive
  <2>2. PICK row \in Rows : Appended(review[r].app, row) /\ row.by = r
    BY <2>1 DEF Extension
  <2>3. CASE s # r
    <3>1. SameProduct(s)
      BY <2>1, <2>3, UnchangedIsSame
    <3> QED
      BY <1>1, <2>1, <2>2, <2>3, <3>1, ProductAfterOthersDraft
  <2>4. CASE s = r
    <3>1. IsProduct(r)'
      BY <2>1 DEF IsProduct
    <3> QED
      BY <1>1, <2>1, <2>2, <2>4, <3>1, ProductGoesLiveOnce
  <2> QED
    BY <2>3, <2>4
<1> QED
  BY <1>1, <1>2, <1>3, <1>4, <1>5 DEF Shape

\* A product review that is applied as it was chosen has produced the Draft after
\* its base, and no review produces another, for any reviews of any applications.
THEOREM LedgerAppliedProduct == Spec => []AppliedProductIsItsDraft
<1>1. Init => ProductInv
  BY DEF Init, LedgerInit, ProductInv, WroteItsDraft, HasItsDraft, NoReview, IsProduct
<1>2. TypeInv /\ ProductInv /\ [Next]_vars => ProductInv'
  BY ProductStep DEF ProductInv
<1>3. ASSUME TypeInv, ProductInv
      PROVE  AppliedProductIsItsDraft
  <2>1. ASSUME NEW r \in Reviews, IsProduct(r)
        PROVE  /\ review[r].app \in Applications
               /\ DOMAIN drafts[review[r].app] = 1 .. Len(drafts[review[r].app])
    <3>1. review[r].app \in Applications
      BY <1>3, <2>1 DEF TypeInv, ReviewsFit, Bound, IsProduct
    <3> QED
      BY <1>3, <3>1, NewestIsLength DEF TypeInv
  <2> QED
    BY <1>3, <2>1 DEF AppliedProductIsItsDraft, ProductInv, WroteItsDraft, HasItsDraft,
                      ChosenApplied, AppliedOnce, Rewritten, Replanned
<1> QED
  BY <1>1, <1>2, <1>3, TypeInvHolds, PTL DEF Spec
=============================================================================
