-------------------------- MODULE CandidateTimeline --------------------------
(***************************************************************************)
(* What the registry of Candidates promises to whoever reads it: one       *)
(* revision is current for an identity; it is quarantined first and takes  *)
(* at most one terminal status, which then stands for ever.                *)
(***************************************************************************)
CONSTANTS Identities, Proposals, Terminal, None

VARIABLE current

Init == current = [i \in Identities |-> None]

Quarantine(i, c) ==
  /\ current[i] = None
  /\ current' = [current EXCEPT ![i] = <<c, "quarantined">>]

Decide(i, c, status) ==
  /\ current[i] = <<c, "quarantined">>
  /\ current' = [current EXCEPT ![i] = <<c, status>>]

Next ==
  \E i \in Identities, c \in Proposals :
     Quarantine(i, c) \/ \E status \in Terminal : Decide(i, c, status)

Spec == Init /\ [][Next]_current
=============================================================================
