---------------------------- MODULE DraftHistory ----------------------------
(***************************************************************************)
(* What the revision ledger promises, without tables, requests or races:   *)
(* an application has one history of Drafts and one of publications, both  *)
(* only ever extended at their end; a Draft that was computed from an      *)
(* earlier one extends exactly that one, so no revision in between is      *)
(* silently undone; a Draft is published at most once.                     *)
(***************************************************************************)
EXTENDS Naturals, Sequences

CONSTANTS
  Applications,
  Drafts,  \* what a Draft can be: at least what produced it and its base
  Free     \* the authors that may extend a Draft other than their base

VARIABLES
  history,   \* Drafts of an application, in order
  releases   \* the Drafts published, in order

Init ==
  /\ history = [a \in Applications |-> <<>>]
  /\ releases = [a \in Applications |-> <<>>]

Extends(a, draft) ==
  /\ draft.by \notin Free => draft.base = Len(history[a])
  /\ history' = [history EXCEPT ![a] = Append(@, draft)]
  /\ UNCHANGED releases

Publishes(a, d) ==
  /\ \A i \in 1 .. Len(releases[a]) : releases[a][i] # d
  /\ releases' = [releases EXCEPT ![a] = Append(@, d)]
  /\ UNCHANGED history

Next ==
  \E a \in Applications :
     \/ \E draft \in Drafts : Extends(a, draft)
     \/ \E d \in 1 .. Len(history[a]) : Publishes(a, d)

Spec == Init /\ [][Next]_<<history, releases>>
=============================================================================
