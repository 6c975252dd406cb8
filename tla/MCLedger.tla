------------------------------ MODULE MCLedger ------------------------------
(* A small instance of the revision ledger for TLC.                        *)
EXTENDS LedgerProperties, TLC

CONSTANTS a1, n1, n2, k1, k2, r1, r2, x1, x2

MCApplications == {a1}
MCNames == {n1, n2}
MCClients == {k1, k2}
MCReviews == {r1}
MCAlternatives == {x1, x2}

Symmetry == Permutations(MCNames) \cup Permutations(MCClients)
              \cup Permutations(MCReviews) \cup Permutations(MCAlternatives)
=============================================================================
