----------------------------- MODULE OrderFlow ------------------------------
(***************************************************************************)
(* The flow the Restaurant Graph declares for an order                     *)
(* (restaurant-order in packages/capabilities/src/index.ts): the only ways *)
(* an order's stage may change, each a new version of the order.           *)
(***************************************************************************)
EXTENDS Naturals

CONSTANT Orders

VARIABLES stage, version

Transitions == {
  <<"cart", "submitted">>, <<"submitted", "paid">>, <<"paid", "accepted">>,
  <<"accepted", "preparing">>, <<"preparing", "ready">>, <<"ready", "served">>,
  <<"submitted", "cancelled">>, <<"paid", "cancelled">>}

Init ==
  /\ stage = [o \in Orders |-> "none"]
  /\ version = [o \in Orders |-> 0]

Creates(o) ==
  /\ stage[o] = "none"
  /\ stage' = [stage EXCEPT ![o] = "cart"]
  /\ UNCHANGED version

\* A cart is edited, or an order takes one transition of the flow.
Moves(o, to) ==
  /\ <<stage[o], to>> \in Transitions \cup {<<"cart", "cart">>}
  /\ stage' = [stage EXCEPT ![o] = to]
  /\ version' = [version EXCEPT ![o] = @ + 1]

Next == \E o \in Orders : Creates(o) \/ \E t \in Transitions : Moves(o, t[1]) \/ Moves(o, t[2])

Spec == Init /\ [][Next]_<<stage, version>>
=============================================================================
