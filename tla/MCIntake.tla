------------------------------ MODULE MCIntake ------------------------------
(* A small instance of the External Intake store for TLC.                  *)
EXTENDS IntakeProperties, TLC

CONSTANTS p1, p2, i1, c1, c2, b1, e1, e2

MCProcesses == {p1, p2}
MCReaders == {p1}
MCIdentities == {i1}
MCProposals == {c1, c2}
MCIdentityOf == [c \in MCProposals |-> i1]
MCBlobOf == [c \in MCProposals |-> b1]
MCExecutions == {e1, e2}
MCCompleted == {e1}
MCEvidenceOf == [c \in MCProposals |-> e1]

\* Evidence runs; creations and their terminal transitions.
MCWorkloads == {{"evidence"}, {"create", "conformance-passed", "blocked", "rejected"}}

Symmetry == Permutations(MCProposals)
=============================================================================
