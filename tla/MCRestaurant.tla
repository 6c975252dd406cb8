---------------------------- MODULE MCRestaurant ----------------------------
(* A small instance of the generated Restaurant service for TLC.           *)
EXTENDS RestaurantProperties, TLC

CONSTANTS o1, o2, s1, s2, m1, k1, k2, y1, y2

MCOrders == {o1, o2}
MCSessions == {s1, s2}
MCItems == {m1}
MCClients == {k1, k2}
MCKeys == {y1, y2}

Workload(ops, supply, edits, quantity) ==
  [commands |-> ops, supply |-> supply, edits |-> edits, quantity |-> quantity]

\* A party arrives and leaves; a cart is edited; orders compete for the stock while
\* a manager adjusts it; orders are paid, cancelled and accepted; one is cooked.
MCWorkloads == {
  Workload({"resolve", "open", "seat", "close"}, 0, 0, 0),
  Workload({"resolve", "add", "update", "submit"}, 2, 2, 2),
  Workload({"resolve", "add", "submit", "stock", "availability"}, 2, 2, 2),
  Workload({"resolve", "add", "submit", "pay", "cancel", "accept"}, 2, 2, 1),
  Workload({"resolve", "add", "submit", "pay", "accept", "start-preparing",
            "mark-ready", "serve"}, 1, 1, 1)}

Symmetry == Permutations(MCOrders) \cup Permutations(MCSessions)
              \cup Permutations(MCClients) \cup Permutations(MCKeys)
=============================================================================
