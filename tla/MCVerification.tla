--------------------------- MODULE MCVerification ---------------------------
(* Small instances of compilation and verification together for TLC.       *)
EXTENDS VerificationProperties, TLC

CONSTANTS c1, c2, p1, b1, b2, k1, k2, i1, i2, r1

MCCompilations == {c1, c2}
MCPublications == {p1}
OneBuild == {b1}
TwoBuilds == {b1, b2}
OneClient == {k1}
MCClients == {k1, k2}
MCCalls == {i1, i2}
MCRuns == {r1}

EveryFault == FaultKinds
\* The faults of delivery and of Docker, with every process and disk sound.
Delivery == {"queue", "net", "conflict", "docker"}

Symmetry == Permutations(MCCompilations) \cup Permutations(MCClients)
              \cup Permutations(MCCalls) \cup Permutations(TwoBuilds)
=============================================================================
