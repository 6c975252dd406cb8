------------------------ MODULE RestaurantProperties ------------------------
(***************************************************************************)
(* What the command service of a generated Restaurant application          *)
(* guarantees, whatever the interleaving of its commands.                  *)
(***************************************************************************)
EXTENDS RestaurantService

Statuses == {"none", "served", "cancelled"} \cup Open

\* Every variable holds a value of its type.
TypeOK ==
  /\ \A o \in Orders :
       /\ orders[o].session \in Sessions \cup {None}
       /\ orders[o].status \in Statuses
       /\ orders[o].payment \in {"unpaid", "paid", "reversal-requested"}
       /\ orders[o].version \in Nat /\ orders[o].total \in Int
       /\ orders[o].lines \in Seq([item : Items, quantity : Nat])
       /\ ticket[o] \in {"none", "paid", "accepted", "preparing", "ready"}
  /\ \A i \in Items : item[i].available \in BOOLEAN /\ item[i].version \in 0 .. MaxItem
  /\ table \in [status : {"open", "seated", "closed"}, version : 0 .. MaxTable]
  /\ session \in [Sessions -> {"none", "active", "closed"}]

Balance(rows) == MapThenSumSet(LAMBDA e : e.delta, rows)

\* The inventory ledger accounts for every unit: the stock of an item is never
\* negative and is what was seeded plus all deltas, so no reservation, release or
\* adjustment is lost, applied twice or recorded without being made.
StockAccounted ==
  \A i \in Items : /\ item[i].stock >= 0
                   /\ item[i].stock = work.supply + Balance({e \in ledger : e.item = i})

\* What an order holds of the stock is exactly what its lines ask for, from its
\* submission on, unless it was cancelled before it was paid; its total is what its
\* lines cost together, however they were edited.
ReservationMatchesOrder ==
  \A o \in Orders :
    /\ orders[o].total = MapThenSumSet(LAMBDA i : Demand(o, i), Items)
    /\ \A i \in Items :
         Balance({e \in ledger : e.order = o /\ e.item = i}) =
           IF \/ orders[o].status \in {"none", "cart"}
              \/ orders[o].status = "cancelled" /\ orders[o].payment = "unpaid"
           THEN 0 ELSE - Demand(o, i)

\* An order is paid once, with its total of then and now; a reversal is asked for
\* once, of an order that was paid and cancelled; the kitchen has a ticket of
\* exactly the paid orders, in step with the order while it is cooked.
PaidOnceAndCooked ==
  \A o \in Orders :
    LET paid     == {p \in payments : p.order = o /\ p.status = "succeeded"}
        reversed == {p \in payments : p.order = o /\ p.status = "reversed"}
    IN /\ Cardinality(paid) = (IF orders[o].payment = "unpaid" THEN 0 ELSE 1)
       /\ Cardinality(reversed) = (IF orders[o].payment = "reversal-requested" THEN 1 ELSE 0)
       /\ \A p \in paid \cup reversed : p.amount = orders[o].total
       /\ (ticket[o] = "none") <=> (orders[o].payment = "unpaid")
       /\ orders[o].status \in {"paid", "accepted", "preparing", "ready"} =>
            ticket[o] = orders[o].status

\* A closed table has no active session, though closing reads the sessions
\* before it updates the table and a party may be seated in between.
ClosedTableIsEmpty ==
  table.status = "closed" => \A s \in Sessions : session[s] # "active"

\* A table session retried or resolved twice with one key opens one cart: no more
\* orders than keys that resolved the session.
OneCartPerKey ==
  \A s \in Sessions :
    Cardinality({o \in Orders : orders[o].session = s}) <=
      Cardinality({c.key : c \in {d \in commands : d.op = "resolve" /\ d.target = s}})

\* Every order follows the flow its Graph declares, one version at a time, although
\* the commands on it read it before they write it.
Flow == INSTANCE OrderFlow WITH
  stage <- [o \in Orders |-> orders[o].status],
  version <- [o \in Orders |-> orders[o].version]
ImplementsFlow == Flow!Spec
=============================================================================
