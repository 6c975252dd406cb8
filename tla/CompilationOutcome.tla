------------------------- MODULE CompilationOutcome -------------------------
(***************************************************************************)
(* What a compilation promises: it is asked for once, it is decided at     *)
(* most once, and what was decided, with the whole of the evidence it was  *)
(* decided on, never changes.                                              *)
(***************************************************************************)
CONSTANTS Compilations, Builds

VARIABLE outcome   \* of each compilation

Init == outcome = [c \in Compilations |-> [state |-> "unused"]]

Ask(c) ==
  /\ outcome[c].state = "unused"
  /\ outcome' = [outcome EXCEPT ![c] = [state |-> "queued"]]

Succeed(c, b) ==
  /\ outcome[c].state = "queued"
  /\ outcome' = [outcome EXCEPT ![c] = [state |-> "succeeded", build |-> b]]

Fail(c) ==
  /\ outcome[c].state = "queued"
  /\ outcome' = [outcome EXCEPT ![c] = [state |-> "failed"]]

Next == \E c \in Compilations : Ask(c) \/ Fail(c) \/ \E b \in Builds : Succeed(c, b)

Spec == Init /\ [][Next]_outcome
=============================================================================
