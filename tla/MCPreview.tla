----------------------------- MODULE MCPreview -----------------------------
(* Small instances of Local Preview for TLC.                               *)
EXTENDS PreviewProperties, TLC

CONSTANTS r1, r2, k1, k2, c1, c2, s1, s2

MCRuns == {r1, r2}
MCClients == {k1, k2}
OneClient == {k1}
MCCompilations == {c1}
TwoCompilations == {c1, c2}
MCSlots == {s1, s2}

Symmetry == Permutations(MCRuns) \cup Permutations(MCClients) \cup Permutations(MCSlots)

\* Every fault but the enqueue that raises and has stored its job, the stop that
\* overtakes a start, and those of the Worker's process.
Ordinary == FaultKinds \ {"ack", "stall", "restart", "block"}
\* The faults of a start, of a stop's enqueue, and those that give a job out again.
StartFaults == {"queue", "artifact", "ports", "compose", "probe", "timeout", "restart",
                "block"}
=============================================================================
