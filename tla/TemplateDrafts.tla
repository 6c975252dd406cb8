--------------------------- MODULE TemplateDrafts ---------------------------
(***************************************************************************)
(* Applications of the curated template and their edits                    *)
(* (apps/control-plane/src/template/template.service.ts).  Every operation *)
(* is one transaction, SERIALIZABLE except for opening; one that meets a   *)
(* serialization conflict has written nothing and is retried or refused,   *)
(* so an operation is one step.  Its input names the Draft its author saw. *)
(***************************************************************************)
EXTENDS DraftReviews

VARIABLES
  snapshot    \* the newest Draft of an application with an active preview snapshot

\* instanceFrom: the identity check, and a snapshot when none is active.
Identified(a, row) == app[a].origin /\ row.format = "v3" /\ row.name = app[a].name

InstantiateCuratedTemplate(k, a, name) ==
  /\ req[k] = Idle
  /\ InsertApplication(a, name, TRUE, Row(0, "template", "v3", name))
  /\ snapshot' = [snapshot EXCEPT ![a] = 1]
  /\ UNCHANGED <<published, req, review>>

\* openTemplateDraft, and a repeated instantiateCuratedTemplate of the same name.
OpenTemplateDraft(k, a) ==
  /\ req[k] = Idle
  /\ Exists(a)
  /\ Identified(a, Latest(a))
  /\ snapshot' = [snapshot EXCEPT ![a] = Newest(a)]
  /\ UNCHANGED <<drafts, published, app, req, review>>

\* A snapshot lives for half an hour.
SnapshotExpires(a) ==
  /\ snapshot[a] # 0
  /\ snapshot' = [snapshot EXCEPT ![a] = 0]
  /\ UNCHANGED <<drafts, published, app, req, review>>

BaseIsLatest(a, base) == base \in DOMAIN drafts[a] /\ base = Newest(a)

AppendTemplate(a, base, row) ==
  /\ Newest(a) < MaxDrafts
  /\ InsertDraft(a, Newest(a) + 1, row)
  /\ snapshot' = [snapshot EXCEPT ![a] = Newest(a) + 1]

\* Mutant of AppendTemplateDraftRevision: the application keeps its old name.
AppendRenamedDraftOnly(k, a, base, name) ==
  /\ req[k] = Idle
  /\ BaseIsLatest(a, base)
  /\ app[a].origin /\ Latest(a).format = "v3"
  /\ AppendTemplate(a, base, Row(base, "template", "v3", name))
  /\ UNCHANGED <<published, app, req, review>>

\* The rename: the Draft and the application row change together.
AppendTemplateDraftRevision(k, a, base, name) ==
  /\ req[k] = Idle
  /\ BaseIsLatest(a, base)
  /\ app[a].origin /\ Latest(a).format = "v3"
  /\ AppendTemplate(a, base, Row(base, "template", "v3", name))
  /\ app' = [app EXCEPT ![a].name = name]
  /\ UNCHANGED <<published, req, review>>

(***************************************************************************)
(* The other edits keep the name.  Those of a page check the identity as   *)
(* they answer; those of a data field, the theme or an access rule also    *)
(* need an active snapshot of the Draft they start from.                   *)
(***************************************************************************)
AppendTemplateEdit(k, a, base, viaSnapshot) ==
  /\ req[k] = Idle
  /\ BaseIsLatest(a, base)
  /\ Identified(a, Latest(a))
  /\ viaSnapshot => snapshot[a] = base
  /\ AppendTemplate(a, base, Row(base, "template", "v3", Latest(a).name))
  /\ UNCHANGED <<published, app, req, review>>

TemplateNext ==
  \/ \E k \in Clients, a \in Applications :
       \/ \E name \in Names : InstantiateCuratedTemplate(k, a, name)
       \/ OpenTemplateDraft(k, a)
       \/ \E base \in DOMAIN drafts[a] :
            \/ \E name \in Names : AppendTemplateDraftRevision(k, a, base, name)
            \/ \E viaSnapshot \in BOOLEAN : AppendTemplateEdit(k, a, base, viaSnapshot)
  \/ \E a \in Applications : SnapshotExpires(a)

vars == <<drafts, published, app, req, review, snapshot>>

Init ==
  /\ LedgerInit
  /\ review = [r \in Reviews |-> NoReview]
  /\ snapshot = [a \in Applications |-> 0]

Next ==
  \/ LedgerNext /\ UNCHANGED <<review, snapshot>>
  \/ ReviewNext /\ UNCHANGED snapshot
  \/ TemplateNext

Spec == Init /\ [][Next]_vars
=============================================================================
