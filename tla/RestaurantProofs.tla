-------------------------- MODULE RestaurantProofs --------------------------
(***************************************************************************)
(* Theorems about the command service of a generated Restaurant for any    *)
(* sets of orders, sessions, items, clients and keys and any workloads.    *)
(*                                                                         *)
(* The inductive invariant is the argument of optimistic concurrency: what *)
(* a command in flight read of an order, of an item or of the table still  *)
(* holds as long as the version it read is the version of the row.  The    *)
(* stock has an invariant of its own: which rows of the ledger name an     *)
(* order follows from its stage, and stock and ledger move together.       *)
(***************************************************************************)
EXTENDS RestaurantProperties, SumTheorems

(***************************************************************************)
(* The strengthening.                                                      *)
(***************************************************************************)
Line == [item : Items, quantity : Nat]

OrderRow == [session : Sessions \cup {None}, status : Statuses,
             payment : {"unpaid", "paid", "reversal-requested"},
             version : Nat, total : Int, lines : Seq(Line)]

Tickets == {"none", "paid", "accepted", "preparing", "ready"}

RowsTyped ==
  /\ orders \in [Orders -> OrderRow]
  /\ ticket \in [Orders -> Tickets]
  /\ table \in [status : {"open", "seated", "closed"}, version : 0 .. MaxTable]
  /\ session \in [Sessions -> {"none", "active", "closed"}]

\* Nothing is said of an item's stock here: see StockInv.
ItemTable(stock, available, version) ==
  [i \in Items |-> [stock |-> stock[i], available |-> available[i], version |-> version[i]]]

ItemsTyped ==
  \E stock : \E available \in [Items -> BOOLEAN] : \E version \in [Items -> 0 .. MaxItem] :
    item = ItemTable(stock, available, version)

OrderOps   == {"add", "update", "submit", "pay", "cancel", "serve"} \cup Events
TableOps   == {"open", "seat", "close"}
ManagerOps == {"availability", "stock"}

\* The order a command is about.
Subject(c) == IF c.op = "update" THEN c.target[1] ELSE c.target

\* A command accepts its order at this stage.
Expected(op, stage) ==
  \/ op \in {"add", "update", "submit"} /\ stage = "cart"
  \/ op = "pay" /\ stage = "submitted"
  \/ op = "cancel" /\ stage \in {"submitted", "paid"}
  \/ op = "serve" /\ stage = "ready"
  \/ op \in Events /\ stage = Before[op]

Current(c, order) ==
  /\ Expected(c.op, order.status)
  /\ c.op = "update" => c.target[2] \in DOMAIN order.lines
  /\ c.op = "pay" => c.amount = order.total

\* What a command c read is true of the orders os, the table t, its sessions ss.
OrderFits(c, os) ==
  c.op \in OrderOps =>
    /\ Subject(c) \in Orders
    /\ c.version \in Nat /\ c.version <= os[Subject(c)].version
    /\ os[Subject(c)].status # "none"
    /\ c.version = os[Subject(c)].version => Current(c, os[Subject(c)])
    /\ c.op = "add" => c.item \in Items /\ c.amount \in Nat
    /\ c.op = "update" => c.amount \in Nat

TableFits(c, staged, t, ss) ==
  c.op \in TableOps =>
    /\ c.version \in 0 .. MaxTable - 1 /\ c.version <= t.version
    /\ c.op = "close" /\ c.version = t.version =>
         \A s \in Sessions : ss[s] = "active" => s \in staged

ManagerFits(c) ==
  c.op \in ManagerOps => c.target \in Items /\ c.version \in 0 .. MaxItem - 1

ResolveFits(c) == c.op = "resolve" => c.target \in Sessions

Fits(q, os, t, ss) ==
  /\ OrderFits(q.command, os)
  /\ TableFits(q.command, q.staged, t, ss)
  /\ ManagerFits(q.command)
  /\ ResolveFits(q.command)

RequestsFit ==
  /\ DOMAIN req = Clients
  /\ \A k \in Clients : Fits(req[k], orders, table, session)

\* No two commands, committed or in flight, have the same scope and key.
Scoped(c) == <<c.op, c.target, c.key>>

ScopesDiffer ==
  \A k \in Clients : InFlight(k).op # "none" =>
    /\ \A c \in commands : Scoped(c) # Scoped(InFlight(k))
    /\ \A j \in Clients : j # k => Scoped(InFlight(j)) # Scoped(InFlight(k))

Carts(s)    == {o \in Orders : orders[o].session = s}
KeysUsed(s) == {c.key : c \in {d \in commands : d.op = "resolve" /\ d.target = s}}

CartsCounted ==
  \A s \in Sessions :
    /\ IsFiniteSet(Carts(s)) /\ IsFiniteSet(KeysUsed(s))
    /\ Cardinality(Carts(s)) <= Cardinality(KeysUsed(s))

Payments(o, status) == {p \in payments : p.order = o /\ p.status = status}

Single(ps, total) == \E p : ps = {p} /\ p.amount = total

\* An order, its ticket, its payments and its reversals agree.
Settled(order, t, paid, reversed) ==
  /\ IF order.payment = "unpaid" THEN paid = {} /\ t = "none"
                                 ELSE Single(paid, order.total) /\ t # "none"
  /\ IF order.payment = "reversal-requested" THEN Single(reversed, order.total)
                                             ELSE reversed = {}
  /\ order.status \in {"none", "cart", "submitted"} => order.payment = "unpaid"
  /\ order.status \in {"paid", "accepted", "preparing", "ready"} =>
       order.payment = "paid" /\ t = order.status

PaymentsFit ==
  \A o \in Orders :
    Settled(orders[o], ticket[o], Payments(o, "succeeded"), Payments(o, "reversed"))

WorkChosen == work \in Workloads

Inv == /\ RowsTyped /\ ItemsTyped /\ RequestsFit /\ ScopesDiffer
       /\ CartsCounted /\ PaymentsFit /\ ClosedTableIsEmpty
-----------------------------------------------------------------------------
(***************************************************************************)
(* Commands begin.                                                         *)
(***************************************************************************)
LEMMA IdleFits == ASSUME NEW os, NEW t, NEW ss PROVE Fits(Idle, os, t, ss)
  BY DEF Fits, Idle, NoCommand, OrderFits, TableFits, ManagerFits, ResolveFits, OrderOps,
     TableOps, ManagerOps, Events

LEMMA InitInv == Init => Inv
<1> SUFFICES ASSUME Init PROVE Inv
  OBVIOUS
<1>1. RowsTyped
  BY RestaurantAssumption DEF Init, RowsTyped, NoOrder, OrderRow, Statuses, Tickets
<1>2. ItemsTyped
  <2> DEFINE stock == [i \in Items |-> work.supply]
             available == [i \in Items |-> TRUE]
             version == [i \in Items |-> 0]
  <2>1. available \in [Items -> BOOLEAN] /\ version \in [Items -> 0 .. MaxItem]
    BY RestaurantAssumption
  <2>2. item = ItemTable(stock, available, version)
    BY DEF Init, ItemTable
  <2> HIDE DEF stock, available, version
  <2> QED
    BY <2>1, <2>2 DEF ItemsTyped
<1>3. RequestsFit /\ ScopesDiffer
  BY IdleFits DEF Init, RequestsFit, ScopesDiffer, InFlight, Idle, NoCommand
<1>4. CartsCounted
  <2> SUFFICES ASSUME NEW s \in Sessions
               PROVE  /\ IsFiniteSet(Carts(s)) /\ IsFiniteSet(KeysUsed(s))
                      /\ Cardinality(Carts(s)) <= Cardinality(KeysUsed(s))
    BY DEF CartsCounted
  <2>1. Carts(s) = {} /\ KeysUsed(s) = {}
    BY RestaurantAssumption DEF Init, Carts, KeysUsed, NoOrder
  <2> QED
    BY <2>1, FS_EmptySet
<1>5. PaymentsFit
  BY DEF Init, PaymentsFit, Settled, Payments, NoOrder
<1>6. ClosedTableIsEmpty
  BY DEF Init, ClosedTableIsEmpty
<1> QED
  BY <1>1, <1>2, <1>3, <1>4, <1>5, <1>6 DEF Inv

\* Nothing but the requests changes.
TablesStand == UNCHANGED <<orders, payments, ticket, item, ledger, table, session, commands>>

LEMMA TablesStandInv ==
  ASSUME Inv, TablesStand
  PROVE  (RowsTyped /\ ItemsTyped /\ CartsCounted /\ PaymentsFit /\ ClosedTableIsEmpty)'
<1>1. (RowsTyped /\ ItemsTyped /\ ClosedTableIsEmpty)'
  BY DEF Inv, TablesStand, RowsTyped, ItemsTyped, ClosedTableIsEmpty
<1>2. CartsCounted'
  BY DEF Inv, TablesStand, CartsCounted, Carts, KeysUsed
<1>3. PaymentsFit'
  BY DEF Inv, TablesStand, PaymentsFit, Payments
<1> QED
  BY <1>1, <1>2, <1>3

LEMMA BeginInv ==
  ASSUME Inv, NEW k \in Clients, NEW command, NEW staged,
         Fits([command |-> command, staged |-> staged], orders, table, session),
         Begin(k, command, staged)
  PROVE  Inv' /\ UNCHANGED orders
<1> DEFINE q == [command |-> command, staged |-> staged]
<1>1. TablesStand
  BY DEF Begin, TablesStand
<1>2. req' = [req EXCEPT ![k] = q] /\ DOMAIN req = Clients
  BY DEF Begin, Inv, RequestsFit
<1>3. RequestsFit'
  <2>1. \A j \in Clients : req'[j] = IF j = k THEN q ELSE req[j]
    BY <1>2
  <2>2. \A j \in Clients : Fits(req'[j], orders, table, session)
    BY <2>1 DEF Inv, RequestsFit
  <2>3. DOMAIN req' = Clients
    BY <1>2
  <2> QED
    BY <1>1, <2>2, <2>3 DEF RequestsFit, TablesStand
<1>4. ScopesDiffer'
  <2>1. \A c \in commands \cup {InFlight(j) : j \in Clients} : Scoped(c) # Scoped(command)
    BY DEF Begin, KeyFree, Scoped
  <2>2. \A j \in Clients : InFlight(j)' = IF j = k THEN command ELSE InFlight(j)
    BY <1>2 DEF InFlight
  <2>3. commands' = commands
    BY <1>1 DEF TablesStand
  <2> QED
    BY <2>1, <2>2, <2>3 DEF Inv, ScopesDiffer, Scoped
<1> QED
  BY <1>1, <1>3, <1>4, TablesStandInv DEF Inv, TablesStand

-----------------------------------------------------------------------------
(***************************************************************************)
(* Commands succeed.                                                       *)
(***************************************************************************)
LEMMA SucceedScopes ==
  ASSUME Inv, NEW k \in Clients, Succeed(k), InFlight(k).op # "none"
  PROVE  ScopesDiffer'
<1>1. \A j \in Clients : InFlight(j)' = IF j = k THEN NoCommand ELSE InFlight(j)
  BY DEF Succeed, InFlight, Idle, Inv, RequestsFit
<1>2. commands' = commands \cup {InFlight(k)}
  BY DEF Succeed
<1>3. NoCommand.op = "none"
  BY DEF NoCommand
<1>4. ASSUME NEW j \in Clients, InFlight(j)'.op # "none"
      PROVE  /\ \A c \in commands' : Scoped(c) # Scoped(InFlight(j)')
             /\ \A i \in Clients : i # j => Scoped(InFlight(i)') # Scoped(InFlight(j)')
  <2>1. j # k /\ InFlight(j)' = InFlight(j) /\ InFlight(j).op # "none"
    BY <1>1, <1>3, <1>4
  <2>2. \A c \in commands : Scoped(c) # Scoped(InFlight(j))
    BY <2>1 DEF Inv, ScopesDiffer
  <2>3. \A i \in Clients : i # j => Scoped(InFlight(i)) # Scoped(InFlight(j))
    BY <2>1 DEF Inv, ScopesDiffer
  <2>4. Scoped(NoCommand) # Scoped(InFlight(j))
    BY <1>3, <2>1 DEF Scoped
  <2> QED
    BY <1>1, <1>2, <2>1, <2>2, <2>3, <2>4
<1> QED
  BY <1>4 DEF ScopesDiffer

\* The keys that resolved a session become no fewer.
LEMMA SucceedKeys ==
  ASSUME Inv, NEW k \in Clients, Succeed(k), NEW s \in Sessions
  PROVE  /\ KeysUsed(s)' = KeysUsed(s) \cup
              {c.key : c \in {d \in {InFlight(k)} : d.op = "resolve" /\ d.target = s}}
         /\ IsFiniteSet(KeysUsed(s)')
         /\ Cardinality(KeysUsed(s)) <= Cardinality(KeysUsed(s)')
         /\ Cardinality(KeysUsed(s)) \in Nat
<1>1. KeysUsed(s)' = KeysUsed(s) \cup
        {c.key : c \in {d \in {InFlight(k)} : d.op = "resolve" /\ d.target = s}}
  BY DEF Succeed, KeysUsed
<1>2. KeysUsed(s)' = KeysUsed(s) \/ KeysUsed(s)' = KeysUsed(s) \cup {InFlight(k).key}
  BY <1>1
<1>3. IsFiniteSet(KeysUsed(s))
  BY DEF Inv, CartsCounted
<1>4. Cardinality(KeysUsed(s)) \in Nat
  BY <1>3, FS_CardinalityType
<1>5. /\ IsFiniteSet(KeysUsed(s) \cup {InFlight(k).key})
      /\ Cardinality(KeysUsed(s)) <= Cardinality(KeysUsed(s) \cup {InFlight(k).key})
  <2> DEFINE key == InFlight(k).key
             used == KeysUsed(s)
  <2> HIDE DEF key, used
  <2>1. IsFiniteSet(used \cup {key}) /\ Cardinality(used) \in Nat
    BY <1>3, <1>4, FS_AddElement DEF used
  <2>2. Cardinality(used \cup {key}) = IF key \in used THEN Cardinality(used)
                                                       ELSE Cardinality(used) + 1
    BY <1>3, FS_AddElement DEF used
  <2> QED
    BY <2>1, <2>2 DEF key, used
<1>6. IsFiniteSet(KeysUsed(s)') /\ Cardinality(KeysUsed(s)) <= Cardinality(KeysUsed(s)')
  <2>1. CASE KeysUsed(s)' = KeysUsed(s)
    BY <1>3, <1>4, <2>1
  <2>2. CASE KeysUsed(s)' = KeysUsed(s) \cup {InFlight(k).key}
    BY <1>5, <2>2
  <2> QED
    BY <1>2, <2>1, <2>2
<1> QED
  BY <1>1, <1>4, <1>6

LEMMA CartsStand ==
  ASSUME Inv, NEW k \in Clients, Succeed(k),
         \A s \in Sessions : Carts(s)' = Carts(s)
  PROVE  CartsCounted'
<1> SUFFICES ASSUME NEW s \in Sessions
             PROVE  /\ IsFiniteSet(Carts(s)') /\ IsFiniteSet(KeysUsed(s)')
                    /\ Cardinality(Carts(s)') <= Cardinality(KeysUsed(s)')
  BY DEF CartsCounted
<1>1. /\ IsFiniteSet(Carts(s))
      /\ Cardinality(Carts(s)) <= Cardinality(KeysUsed(s))
  BY DEF Inv, CartsCounted
<1>2. Cardinality(Carts(s)) \in Nat /\ Cardinality(KeysUsed(s)') \in Nat
  BY <1>1, SucceedKeys, FS_CardinalityType
<1> QED
  BY <1>1, <1>2, SucceedKeys

\* The requests still fit when one ends and what the others read has moved on.
LEMMA SucceedFits ==
  ASSUME Inv, NEW k \in Clients, Succeed(k), NEW os, NEW t, NEW ss,
         orders' = os, table' = t, session' = ss,
         \A j \in Clients : Fits(req[j], orders, table, session) => Fits(req[j], os, t, ss)
  PROVE  RequestsFit'
<1>1. req' = [req EXCEPT ![k] = Idle] /\ DOMAIN req = Clients
  BY DEF Succeed, Inv, RequestsFit
<1>2. \A j \in Clients : Fits(req'[j], os, t, ss)
  <2> TAKE j \in Clients
  <2>1. req'[j] = IF j = k THEN Idle ELSE req[j]
    BY <1>1
  <2>2. Fits(Idle, os, t, ss)
    BY IdleFits
  <2>3. Fits(req[j], os, t, ss)
    BY DEF Inv, RequestsFit
  <2> QED
    BY <2>1, <2>2, <2>3
<1>3. DOMAIN req' = Clients
  BY <1>1
<1> QED
  BY <1>2, <1>3 DEF RequestsFit
(***************************************************************************)
(* A command of an order: one transition, one version, one row.            *)
(***************************************************************************)
OrderStep(k, o, row) ==
  /\ o \in Orders /\ row \in OrderRow
  /\ row.session = orders[o].session
  /\ row.version = orders[o].version + 1
  /\ <<orders[o].status, row.status>> \in Flow!Transitions \cup {<<"cart", "cart">>}
  /\ orders' = [orders EXCEPT ![o] = row]
  /\ InFlight(k).op \in OrderOps /\ Succeed(k)
  /\ UNCHANGED <<table, session>>

LEMMA OrderStepKeeps ==
  ASSUME Inv, NEW k \in Clients, NEW o, NEW row, OrderStep(k, o, row)
  PROVE  /\ orders' \in [Orders -> OrderRow] /\ table' = table /\ session' = session
         /\ (RequestsFit /\ ScopesDiffer /\ CartsCounted /\ ClosedTableIsEmpty)'
<1>1. orders' \in [Orders -> OrderRow] /\ orders' = [orders EXCEPT ![o] = row]
  BY DEF OrderStep, Inv, RowsTyped
<1>2. table' = table /\ session' = session
  BY DEF OrderStep
<1>3. row.status # "none"
  BY DEF OrderStep, Flow!Transitions
<1>4. RequestsFit'
  <2>1. ASSUME NEW j \in Clients, Fits(req[j], orders, table, session)
        PROVE  Fits(req[j], orders', table, session)
    <3> DEFINE c == req[j].command
    <3>1. ASSUME c.op \in OrderOps
          PROVE  /\ c.version <= orders'[Subject(c)].version
                 /\ orders'[Subject(c)].status # "none"
                 /\ c.version = orders'[Subject(c)].version => Current(c, orders'[Subject(c)])
      <4>1. /\ Subject(c) \in Orders /\ c.version \in Nat
            /\ c.version <= orders[Subject(c)].version
            /\ orders[Subject(c)].status # "none"
            /\ c.version = orders[Subject(c)].version => Current(c, orders[Subject(c)])
        BY <2>1, <3>1 DEF Fits, OrderFits
      <4>2. CASE Subject(c) = o
        <5>1. orders[o].version \in Nat /\ row.version = orders[o].version + 1
          BY DEF OrderStep, Inv, RowsTyped, OrderRow
        <5>2. orders'[o] = row
          BY <1>1 DEF OrderStep, Inv, RowsTyped
        <5> QED
          BY <1>3, <4>1, <4>2, <5>1, <5>2
      <4>3. CASE Subject(c) # o
        BY <1>1, <4>1, <4>3 DEF Inv, RowsTyped
      <4> QED
        BY <4>2, <4>3
    <3> QED
      BY <2>1, <3>1 DEF Fits, OrderFits
  <2> QED
    BY <1>2, <2>1, SucceedFits DEF OrderStep
<1>5. ScopesDiffer'
  BY SucceedScopes DEF OrderStep, OrderOps, Events
<1>6. CartsCounted'
  <2>1. \A p \in Orders : orders'[p].session = orders[p].session
    BY <1>1 DEF OrderStep, Inv, RowsTyped
  <2>2. \A s \in Sessions : Carts(s)' = Carts(s)
    BY <2>1 DEF Carts
  <2> QED
    BY <2>2, CartsStand DEF OrderStep
<1> QED
  BY <1>1, <1>2, <1>4, <1>5, <1>6 DEF Inv, ClosedTableIsEmpty

\* Payments are settled again if those of the order are.
LEMMA SettledAgain ==
  ASSUME Inv, NEW o \in Orders, NEW row \in OrderRow, NEW t, NEW new,
         orders' = [orders EXCEPT ![o] = row], ticket' = [ticket EXCEPT ![o] = t],
         payments' = payments \cup new, \A p \in new : p.order = o,
         Settled(row, t, Payments(o, "succeeded")', Payments(o, "reversed")')
  PROVE  PaymentsFit'
<1> SUFFICES ASSUME NEW p \in Orders
             PROVE  Settled(orders'[p], ticket'[p], Payments(p, "succeeded")',
                            Payments(p, "reversed")')
  BY DEF PaymentsFit
<1>1. CASE p = o
  BY <1>1 DEF Inv, RowsTyped
<1>2. CASE p # o
  <2>1. /\ Payments(p, "succeeded")' = Payments(p, "succeeded")
        /\ Payments(p, "reversed")' = Payments(p, "reversed")
    BY <1>2 DEF Payments
  <2>2. orders'[p] = orders[p] /\ ticket'[p] = ticket[p]
    BY <1>2 DEF Inv, RowsTyped
  <2> QED
    BY <2>1, <2>2 DEF Inv, PaymentsFit
<1> QED
  BY <1>1, <1>2

\* What a command whose version is still current knows.
LEMMA CurrentCommand ==
  ASSUME Inv, NEW k \in Clients, InFlight(k).op \in OrderOps,
         StillAtVersion(Subject(InFlight(k)), InFlight(k).version)
  PROVE  /\ Subject(InFlight(k)) \in Orders
         /\ InFlight(k).version \in Nat
         /\ InFlight(k).version = orders[Subject(InFlight(k))].version
         /\ Current(InFlight(k), orders[Subject(InFlight(k))])
         /\ InFlight(k).op = "add" => InFlight(k).item \in Items /\ InFlight(k).amount \in Nat
         /\ InFlight(k).op = "update" => InFlight(k).amount \in Nat
  BY DEF Inv, RequestsFit, Fits, OrderFits, InFlight, StillAtVersion

\* What every command of an order comes to.
OrderStepTo(k) ==
  /\ \E o, row : OrderStep(k, o, row)
  /\ ItemsTyped' /\ PaymentsFit' /\ ticket' \in [Orders -> Tickets]

Risen(order, v) == [order EXCEPT !.version = v]

LEMMA RowRises ==
  ASSUME NEW order \in OrderRow, NEW v \in Nat
  PROVE  LET row == Risen(order, v)
         IN /\ row \in OrderRow /\ row.version = v
            /\ row.session = order.session /\ row.status = order.status
            /\ row.payment = order.payment /\ row.total = order.total
            /\ row.lines = order.lines
<1>1. Risen(order, v) =
        [session |-> order.session, status |-> order.status, payment |-> order.payment,
         version |-> v, total |-> order.total, lines |-> order.lines]
  BY DEF OrderRow, Risen
<1> QED
  BY <1>1 DEF OrderRow

LEMMA OrderWritten ==
  ASSUME Inv, NEW k \in Clients, InFlight(k).op \in OrderOps, Succeed(k),
         NEW o \in Orders, o = Subject(InFlight(k)), NEW order \in OrderRow,
         UpdateOrder(o, InFlight(k).version, order),
         order.session = orders[o].session,
         <<orders[o].status, order.status>> \in Flow!Transitions \cup {<<"cart", "cart">>},
         NEW t \in Tickets, ticket' = [ticket EXCEPT ![o] = t],
         NEW new, payments' = payments \cup new, \A p \in new : p.order = o,
         Settled(order, t, Payments(o, "succeeded") \cup {p \in new : p.status = "succeeded"},
                 Payments(o, "reversed") \cup {p \in new : p.status = "reversed"}),
         ItemsTyped', UNCHANGED <<table, session>>
  PROVE  OrderStepTo(k)
<1> DEFINE row == [order EXCEPT !.version = InFlight(k).version + 1]
<1>1. InFlight(k).version \in Nat /\ InFlight(k).version = orders[o].version
  BY CurrentCommand DEF UpdateOrder
<1>2. /\ row \in OrderRow /\ row.session = order.session /\ row.status = order.status
      /\ row.version = orders[o].version + 1
      /\ row.payment = order.payment /\ row.total = order.total
  <2>1. InFlight(k).version + 1 \in Nat /\ InFlight(k).version + 1 = orders[o].version + 1
    BY <1>1
  <2>2. row = Risen(order, InFlight(k).version + 1)
    BY DEF Risen
  <2> HIDE DEF row
  <2> QED
    BY <2>1, <2>2, RowRises
<1>3. orders' = [orders EXCEPT ![o] = row]
  BY DEF UpdateOrder
<1> HIDE DEF row
<1>4. OrderStep(k, o, row)
  BY <1>2, <1>3 DEF OrderStep
<1>5. /\ Payments(o, "succeeded")' = Payments(o, "succeeded")
                                       \cup {p \in new : p.status = "succeeded"}
      /\ Payments(o, "reversed")' = Payments(o, "reversed")
                                      \cup {p \in new : p.status = "reversed"}
  BY DEF Payments
<1>6. Settled(row, t, Payments(o, "succeeded")', Payments(o, "reversed")')
  BY <1>2, <1>5 DEF Settled
<1>7. PaymentsFit'
  BY <1>2, <1>3, <1>6, SettledAgain
<1>8. ticket' \in [Orders -> Tickets]
  BY DEF Inv, RowsTyped
<1> QED
  BY <1>4, <1>7, <1>8 DEF OrderStepTo

\* A command that leaves payments alone.
LEMMA OrderEdited ==
  ASSUME Inv, NEW k \in Clients, InFlight(k).op \in OrderOps, Succeed(k),
         NEW o \in Orders, o = Subject(InFlight(k)), NEW order \in OrderRow,
         UpdateOrder(o, InFlight(k).version, order),
         order.session = orders[o].session,
         <<orders[o].status, order.status>> \in Flow!Transitions \cup {<<"cart", "cart">>},
         NEW t \in Tickets, ticket' = [ticket EXCEPT ![o] = t],
         Settled(order, t, Payments(o, "succeeded"), Payments(o, "reversed")),
         ItemsTyped', UNCHANGED <<payments, table, session>>
  PROVE  OrderStepTo(k)
<1> DEFINE new == {}
<1>1. payments' = payments \cup new /\ \A p \in new : p.order = o
  OBVIOUS
<1>2. /\ Payments(o, "succeeded") \cup {p \in new : p.status = "succeeded"}
           = Payments(o, "succeeded")
      /\ Payments(o, "reversed") \cup {p \in new : p.status = "reversed"}
           = Payments(o, "reversed")
  OBVIOUS
<1> HIDE DEF new
<1>3. Settled(order, t, Payments(o, "succeeded") \cup {p \in new : p.status = "succeeded"},
              Payments(o, "reversed") \cup {p \in new : p.status = "reversed"})
  BY <1>2
<1> QED
  BY <1>1, <1>3, OrderWritten

LEMMA SettledNow ==
  ASSUME Inv, NEW o \in Orders
  PROVE  /\ Settled(orders[o], ticket[o], Payments(o, "succeeded"), Payments(o, "reversed"))
         /\ orders[o] \in OrderRow /\ ticket[o] \in Tickets
         /\ ticket = [ticket EXCEPT ![o] = ticket[o]]
  BY DEF Inv, RowsTyped, PaymentsFit

\* A cart with other lines, and an order at another stage.
Edited(old, total, lines) == [old EXCEPT !.total = total, !.lines = lines]
Moved(old, status, payment) == [old EXCEPT !.status = status, !.payment = payment]

LEMMA CartEdited ==
  ASSUME NEW old \in OrderRow, NEW total \in Int, NEW lines \in Seq(Line)
  PROVE  /\ Edited(old, total, lines) \in OrderRow
         /\ Edited(old, total, lines).session = old.session
         /\ Edited(old, total, lines).status = old.status
         /\ Edited(old, total, lines).payment = old.payment
         /\ Edited(old, total, lines).total = total
         /\ Edited(old, total, lines).lines = lines
<1> DEFINE order == [session |-> old.session, status |-> old.status, payment |-> old.payment,
                     version |-> old.version, total |-> total, lines |-> lines]
<1>1. Edited(old, total, lines) = order
  <2> DEFINE half == [old EXCEPT !.total = total]
  <2>1. Edited(old, total, lines) = [half EXCEPT !.lines = lines]
    BY DEF Edited
  <2>2. half = [session |-> old.session, status |-> old.status, payment |-> old.payment,
                   version |-> old.version, total |-> total, lines |-> old.lines]
    BY DEF OrderRow
  <2> HIDE DEF half
  <2> QED
    BY <2>1, <2>2
<1>2. order \in OrderRow /\ order.session = old.session /\ order.status = old.status
      /\ order.payment = old.payment /\ order.total = total /\ order.lines = lines
  BY DEF OrderRow
<1> QED
  BY <1>1, <1>2

LEMMA OrderMoved ==
  ASSUME NEW old \in OrderRow, NEW status \in Statuses,
         NEW payment \in {"unpaid", "paid", "reversal-requested"}
  PROVE  /\ Moved(old, status, payment) \in OrderRow
         /\ Moved(old, status, payment).session = old.session
         /\ Moved(old, status, payment).status = status
         /\ Moved(old, status, payment).payment = payment
         /\ Moved(old, status, payment).total = old.total
         /\ Moved(old, status, payment).lines = old.lines
<1> DEFINE order == [session |-> old.session, status |-> status, payment |-> payment,
                     version |-> old.version, total |-> old.total, lines |-> old.lines]
<1>1. Moved(old, status, payment) = order
  <2> DEFINE half == [old EXCEPT !.status = status]
  <2>1. Moved(old, status, payment) = [half EXCEPT !.payment = payment]
    BY DEF Moved
  <2>2. half = [session |-> old.session, status |-> status, payment |-> old.payment,
                   version |-> old.version, total |-> old.total, lines |-> old.lines]
    BY DEF OrderRow
  <2> HIDE DEF half
  <2> QED
    BY <2>1, <2>2
<1>2. order \in OrderRow /\ order.session = old.session /\ order.status = status
      /\ order.payment = payment /\ order.total = old.total /\ order.lines = old.lines
  BY DEF OrderRow
<1> QED
  BY <1>1, <1>2

LEMMA AddLineStep ==
  ASSUME Inv, NEW k \in Clients, AddLine(k), NEW c, c = InFlight(k), NEW o, o = c.target
  PROVE  OrderStepTo(k)
<1> DEFINE line == [item |-> c.item, quantity |-> c.amount]
           lines == Append(orders[o].lines, line)
           total == orders[o].total + c.amount
           order == [orders[o] EXCEPT !.total = total, !.lines = lines]
<1>1. c.op = "add" /\ o = Subject(c) /\ UpdateOrder(o, c.version, order) /\ Succeed(k)
  BY DEF AddLine, Commits, Subject
<1>2. o \in Orders /\ Expected("add", orders[o].status) /\ line \in Line /\ c.amount \in Nat
  BY <1>1, CurrentCommand DEF OrderOps, Current, UpdateOrder, Line
<1>3. orders[o].status = "cart"
  BY <1>2 DEF Expected, Events
<1>4. lines \in Seq(Line) /\ total \in Int
  BY <1>2, SettledNow DEF OrderRow
<1> HIDE DEF line, lines, total
<1>5. /\ order \in OrderRow /\ order.session = orders[o].session /\ order.status = "cart"
      /\ order.payment = orders[o].payment
  <2>1. order = Edited(orders[o], total, lines)
    BY DEF Edited
  <2>2. orders[o] \in OrderRow
    BY <1>2, SettledNow
  <2> HIDE DEF order
  <2> DEFINE edited == Edited(orders[o], total, lines)
  <2>3. /\ edited \in OrderRow /\ edited.session = orders[o].session
        /\ edited.status = orders[o].status /\ edited.payment = orders[o].payment
    BY <1>4, <2>2, CartEdited
  <2> HIDE DEF edited
  <2> QED
    BY <1>3, <2>1, <2>3 DEF edited
<1> HIDE DEF order
<1>6. Settled(order, ticket[o], Payments(o, "succeeded"), Payments(o, "reversed"))
  BY <1>2, <1>3, <1>5, SettledNow DEF Settled
<1>7. UNCHANGED <<payments, ticket, item, table, session>> /\ ItemsTyped'
  BY DEF AddLine, Inv, ItemsTyped
<1> QED
  BY <1>1, <1>2, <1>3, <1>5, <1>6, <1>7, SettledNow, OrderEdited DEF OrderOps
LEMMA UpdateLineStep ==
  ASSUME Inv, NEW k \in Clients, UpdateLine(k), NEW c, c = InFlight(k),
         NEW o, o = c.target[1], NEW l, l = c.target[2]
  PROVE  OrderStepTo(k)
<1> DEFINE old == orders[o].lines[l]
           line == [old EXCEPT !.quantity = c.amount]
           lines == [orders[o].lines EXCEPT ![l] = line]
           total == orders[o].total + c.amount - old.quantity
           order == [orders[o] EXCEPT !.total = total, !.lines = lines]
<1>1. c.op = "update" /\ o = Subject(c) /\ UpdateOrder(o, c.version, order) /\ Succeed(k)
  BY DEF UpdateLine, Commits, Subject
<1>2. /\ o \in Orders /\ Expected("update", orders[o].status) /\ c.amount \in Nat
      /\ l \in DOMAIN orders[o].lines
  BY <1>1, CurrentCommand DEF OrderOps, Current, UpdateOrder
<1>3. orders[o].status = "cart"
  BY <1>2 DEF Expected, Events
<1>4. lines \in Seq(Line) /\ total \in Int
  <2>1. orders[o].lines \in Seq(Line) /\ orders[o].total \in Int
    BY <1>2, SettledNow DEF OrderRow
  <2>2. old \in Line
    BY <1>2, <2>1
  <2> HIDE DEF old
  <2>3. line \in Line /\ total \in Int
    <3>1. old.item \in Items /\ old.quantity \in Int
      BY <2>2 DEF Line
    <3>2. line = [item |-> old.item, quantity |-> c.amount]
      BY <2>2 DEF Line
    <3>3. line \in Line
      BY <1>2, <3>1, <3>2 DEF Line
    <3>4. total \in Int
      <4> HIDE DEF lines, line, order
      <4> QED
        BY <1>2, <2>1, <3>1
    <3> QED
      BY <3>3, <3>4
  <2> HIDE DEF line
  <2>4. lines \in Seq(Line)
    BY <1>2, <2>1, <2>3
  <2> QED
    BY <2>3, <2>4
<1> HIDE DEF lines, total
<1>5. /\ order \in OrderRow /\ order.session = orders[o].session /\ order.status = "cart"
      /\ order.payment = orders[o].payment
  <2>1. order = Edited(orders[o], total, lines)
    BY DEF Edited
  <2>2. orders[o] \in OrderRow
    BY <1>2, SettledNow
  <2> HIDE DEF order
  <2> QED
    BY <1>3, <1>4, <2>1, <2>2, CartEdited
<1> HIDE DEF order
<1>6. Settled(order, ticket[o], Payments(o, "succeeded"), Payments(o, "reversed"))
  BY <1>2, <1>3, <1>5, SettledNow DEF Settled
<1>7. UNCHANGED <<payments, ticket, item, table, session>> /\ ItemsTyped'
  BY DEF UpdateLine, Inv, ItemsTyped
<1> QED
  BY <1>1, <1>2, <1>3, <1>5, <1>6, <1>7, SettledNow, OrderEdited DEF OrderOps

\* A stage is all that changes of an order.
LEMMA StageRow ==
  ASSUME Inv, NEW o \in Orders, NEW stage \in Statuses, NEW order,
         order = [orders[o] EXCEPT !.status = stage]
  PROVE  /\ order \in OrderRow /\ order.session = orders[o].session
         /\ order.status = stage /\ order.payment = orders[o].payment
         /\ order.total = orders[o].total /\ order.lines = orders[o].lines
  BY SettledNow DEF OrderRow

\* Types of items do not depend on the amounts that are taken or given back.
LEMMA StockMoves ==
  ASSUME Inv, NEW moved, item' = [i \in Items |-> [item[i] EXCEPT !.stock = moved[i]]]
  PROVE  ItemsTyped'
<1>1. PICK stock : \E available \in [Items -> BOOLEAN] : \E version \in [Items -> 0 .. MaxItem] :
        item = ItemTable(stock, available, version)
  BY DEF Inv, ItemsTyped
<1>2. PICK available \in [Items -> BOOLEAN] : \E version \in [Items -> 0 .. MaxItem] :
        item = ItemTable(stock, available, version)
  BY <1>1
<1>3. PICK version \in [Items -> 0 .. MaxItem] : item = ItemTable(stock, available, version)
  BY <1>2
<1>4. item' = ItemTable(moved, available, version)
  BY <1>3 DEF ItemTable
<1> QED
  BY <1>4 DEF ItemsTyped

LEMMA SubmitOrderStep ==
  ASSUME Inv, NEW k \in Clients, SubmitOrder(k), NEW c, c = InFlight(k), NEW o, o = c.target
  PROVE  OrderStepTo(k)
<1> DEFINE order == [orders[o] EXCEPT !.status = "submitted"]
           moved == [i \in Items |-> item[i].stock - Demand(o, i)]
<1>1. c.op = "submit" /\ o = Subject(c) /\ UpdateOrder(o, c.version, order) /\ Succeed(k)
  BY DEF SubmitOrder, Commits, Subject
<1>2. o \in Orders /\ Expected("submit", orders[o].status)
  BY <1>1, CurrentCommand DEF OrderOps, Current, UpdateOrder
<1>3. orders[o].status = "cart"
  BY <1>2 DEF Expected, Events
<1>4. /\ order \in OrderRow /\ order.session = orders[o].session /\ order.status = "submitted"
      /\ order.payment = orders[o].payment
  <2>1. "submitted" \in Statuses
    BY DEF Statuses, Open
  <2> QED
    BY <1>2, <2>1, StageRow
<1> HIDE DEF order
<1>5. Settled(order, ticket[o], Payments(o, "succeeded"), Payments(o, "reversed"))
  BY <1>2, <1>3, <1>4, SettledNow DEF Settled
<1>6. ItemsTyped'
  <2>1. item' = [i \in Items |-> [item[i] EXCEPT !.stock = moved[i]]]
    BY DEF SubmitOrder
  <2> HIDE DEF moved
  <2> QED
    BY <2>1, StockMoves
<1>7. <<orders[o].status, order.status>> \in Flow!Transitions
  BY <1>3, <1>4 DEF Flow!Transitions
<1>8. UNCHANGED <<payments, ticket, table, session>>
  BY DEF SubmitOrder
<1> QED
  BY <1>1, <1>2, <1>4, <1>5, <1>6, <1>7, <1>8, SettledNow, OrderEdited DEF OrderOps

LEMMA RecordPaymentStep ==
  ASSUME Inv, NEW k \in Clients, RecordPayment(k), NEW c, c = InFlight(k), NEW o, o = c.target
  PROVE  OrderStepTo(k)
<1> DEFINE order == [orders[o] EXCEPT !.status = "paid", !.payment = "paid"]
           payment == Payment(o, c.key, "succeeded", c.amount)
           new == {payment}
<1>1. c.op = "pay" /\ o = Subject(c) /\ UpdateOrder(o, c.version, order) /\ Succeed(k)
  BY DEF RecordPayment, Commits, Subject
<1>2. /\ o \in Orders /\ Expected("pay", orders[o].status)
      /\ c.amount = orders[o].total
  BY <1>1, CurrentCommand DEF OrderOps, Current, UpdateOrder
<1>3. orders[o].status = "submitted"
  BY <1>2 DEF Expected, Events
<1>4. /\ order \in OrderRow /\ order.session = orders[o].session /\ order.status = "paid"
      /\ order.payment = "paid" /\ order.total = orders[o].total
  <2>1. order = Moved(orders[o], "paid", "paid") /\ "paid" \in Statuses
    BY DEF Moved, Statuses, Open
  <2>2. orders[o] \in OrderRow
    BY <1>2, SettledNow
  <2> HIDE DEF order
  <2> QED
    BY <2>1, <2>2, OrderMoved
<1>5. /\ payment.order = o /\ payment.status = "succeeded" /\ payment.amount = orders[o].total
  BY <1>2 DEF Payment
<1>6. Payments(o, "succeeded") = {} /\ Payments(o, "reversed") = {}
  BY <1>2, <1>3, SettledNow DEF Settled
<1>7. payments' = payments \cup new /\ ticket' = [ticket EXCEPT ![o] = "paid"]
  BY DEF RecordPayment
<1> HIDE DEF order, payment
<1>8. /\ {p \in new : p.status = "succeeded"} = {payment}
      /\ {p \in new : p.status = "reversed"} = {}
  BY <1>5
<1>9. /\ Payments(o, "succeeded") \cup {p \in new : p.status = "succeeded"} = {payment}
      /\ Payments(o, "reversed") \cup {p \in new : p.status = "reversed"} = {}
  BY <1>6, <1>8
<1>10. Single({payment}, order.total)
  BY <1>4, <1>5 DEF Single
<1>11. Settled(order, "paid",
               Payments(o, "succeeded") \cup {p \in new : p.status = "succeeded"},
               Payments(o, "reversed") \cup {p \in new : p.status = "reversed"})
  BY <1>4, <1>9, <1>10 DEF Settled
<1>12. <<orders[o].status, order.status>> \in Flow!Transitions
  BY <1>3, <1>4 DEF Flow!Transitions
<1>13. UNCHANGED <<item, table, session>> /\ ItemsTyped' /\ "paid" \in Tickets
  BY DEF RecordPayment, Inv, ItemsTyped, Tickets
<1>14. \A p \in new : p.order = o
  BY <1>5
<1> HIDE DEF new
<1> QED
  BY <1>1, <1>2, <1>4, <1>7, <1>11, <1>12, <1>13, <1>14, OrderWritten DEF OrderOps
LEMMA CancelOrderStep ==
  ASSUME Inv, NEW k \in Clients, CancelOrder(k), NEW c, c = InFlight(k), NEW o, o = c.target
  PROVE  OrderStepTo(k)
<1> DEFINE payment == IF orders[o].status = "paid" THEN "reversal-requested"
                                                   ELSE orders[o].payment
           order == [orders[o] EXCEPT !.status = "cancelled", !.payment = payment]
<1>1. c.op = "cancel" /\ o = Subject(c) /\ UpdateOrder(o, c.version, order) /\ Succeed(k)
  BY DEF CancelOrder, Commits, Subject
<1>2. o \in Orders /\ Expected("cancel", orders[o].status)
  BY <1>1, CurrentCommand DEF OrderOps, Current, UpdateOrder
<1>3. orders[o].status \in {"submitted", "paid"}
  BY <1>2 DEF Expected, Events
<1>4. payment \in {"unpaid", "paid", "reversal-requested"}
  BY <1>2, SettledNow DEF OrderRow
<1>5. "cancelled" \in Statuses
  BY DEF Statuses
<1>6. payment = IF orders[o].status = "paid" THEN "reversal-requested" ELSE orders[o].payment
  OBVIOUS
<1> HIDE DEF payment
<1>7. /\ order \in OrderRow /\ order.session = orders[o].session /\ order.status = "cancelled"
      /\ order.payment = payment /\ order.total = orders[o].total
  <2>1. order = Moved(orders[o], "cancelled", payment)
    BY DEF Moved
  <2>2. orders[o] \in OrderRow
    BY <1>2, SettledNow
  <2> HIDE DEF order
  <2> DEFINE moved == Moved(orders[o], "cancelled", payment)
  <2>3. /\ moved \in OrderRow /\ moved.session = orders[o].session
        /\ moved.status = "cancelled" /\ moved.payment = payment
        /\ moved.total = orders[o].total
    BY <1>4, <1>5, <2>2, OrderMoved, SMTT(30)
  <2> QED
    BY <2>1, <2>3
<1>8. <<orders[o].status, order.status>> \in Flow!Transitions
  BY <1>3, <1>7 DEF Flow!Transitions
<1> HIDE DEF order
<1>9. UNCHANGED <<ticket, table, session>> /\ ticket[o] \in Tickets
      /\ ticket' = [ticket EXCEPT ![o] = ticket[o]]
  BY <1>2, SettledNow DEF CancelOrder
<1>10. CASE orders[o].status = "submitted"
  <2> DEFINE moved == [i \in Items |-> item[i].stock + Demand(o, i)]
  <2>1. /\ item' = [i \in Items |-> [item[i] EXCEPT !.stock = moved[i]]]
        /\ UNCHANGED payments
    BY <1>10 DEF CancelOrder
  <2> HIDE DEF moved
  <2>2. ItemsTyped'
    BY <2>1, StockMoves
  <2>3. Settled(order, ticket[o], Payments(o, "succeeded"), Payments(o, "reversed"))
    BY <1>2, <1>6, <1>7, <1>10, SettledNow DEF Settled
  <2> QED
    BY <1>1, <1>2, <1>7, <1>8, <1>9, <2>1, <2>2, <2>3, OrderEdited DEF OrderOps
<1>11. CASE orders[o].status = "paid"
  <2> DEFINE reversal == Payment(o, <<c.key, "reversal">>, "reversed", orders[o].total)
             new == {reversal}
  <2>1. payments' = payments \cup new /\ UNCHANGED item
    BY <1>11 DEF CancelOrder
  <2>2. /\ reversal.order = o /\ reversal.status = "reversed"
        /\ reversal.amount = orders[o].total
    BY DEF Payment
  <2>3. /\ orders[o].payment = "paid" /\ ticket[o] # "none"
        /\ Single(Payments(o, "succeeded"), orders[o].total)
        /\ Payments(o, "reversed") = {}
    BY <1>2, <1>11, SettledNow DEF Settled
  <2> HIDE DEF reversal
  <2>4. /\ {p \in new : p.status = "succeeded"} = {}
        /\ {p \in new : p.status = "reversed"} = {reversal}
    BY <2>2
  <2>5. /\ Payments(o, "succeeded") \cup {p \in new : p.status = "succeeded"}
             = Payments(o, "succeeded")
        /\ Payments(o, "reversed") \cup {p \in new : p.status = "reversed"} = {reversal}
    BY <2>3, <2>4
  <2>6. Single({reversal}, order.total) /\ Single(Payments(o, "succeeded"), order.total)
    BY <1>7, <2>2, <2>3 DEF Single
  <2>7. Settled(order, ticket[o],
                Payments(o, "succeeded") \cup {p \in new : p.status = "succeeded"},
                Payments(o, "reversed") \cup {p \in new : p.status = "reversed"})
    BY <1>6, <1>7, <1>11, <2>3, <2>5, <2>6 DEF Settled
  <2>8. ItemsTyped'
    BY <2>1 DEF Inv, ItemsTyped
  <2>9. \A p \in new : p.order = o
    BY <2>2
  <2> HIDE DEF new
  <2> QED
    BY <1>1, <1>2, <1>7, <1>8, <1>9, <2>1, <2>7, <2>8, <2>9, OrderWritten DEF OrderOps
<1> QED
  BY <1>3, <1>10, <1>11

LEMMA KitchenStep ==
  ASSUME Inv, NEW k \in Clients, NEW event \in Events, TransitionKitchenTicket(k, event),
         NEW c, c = InFlight(k), NEW o, o = c.target
  PROVE  OrderStepTo(k)
<1> DEFINE order == [orders[o] EXCEPT !.status = After[event]]
<1>1. /\ c.op = event /\ c.op \in OrderOps /\ o = Subject(c)
      /\ UpdateOrder(o, c.version, order) /\ Succeed(k)
  BY DEF TransitionKitchenTicket, Commits, Subject, OrderOps, Events
<1>2. o \in Orders /\ Expected(event, orders[o].status)
  BY <1>1, CurrentCommand DEF Current, UpdateOrder
<1>3. /\ orders[o].status = Before[event]
      /\ Before[event] \in {"paid", "accepted", "preparing"}
      /\ After[event] \in {"accepted", "preparing", "ready"}
      /\ <<Before[event], After[event]>> \in Flow!Transitions
  BY <1>2 DEF Expected, Events, Before, After, Flow!Transitions
<1>4. After[event] \in Statuses /\ After[event] \in Tickets /\ After[event] # "none"
  BY <1>3 DEF Statuses, Open, Tickets
<1>5. /\ order \in OrderRow /\ order.session = orders[o].session
      /\ order.status = After[event] /\ order.payment = orders[o].payment
      /\ order.total = orders[o].total
  BY <1>2, <1>4, StageRow
<1> HIDE DEF order
<1>6. Settled(order, After[event], Payments(o, "succeeded"), Payments(o, "reversed"))
  BY <1>2, <1>3, <1>4, <1>5, SettledNow DEF Settled
<1>7. UNCHANGED <<payments, table, session>> /\ ticket' = [ticket EXCEPT ![o] = After[event]]
  BY DEF TransitionKitchenTicket
<1>8. ItemsTyped'
  BY DEF TransitionKitchenTicket, Inv, ItemsTyped
<1> QED
  BY <1>1, <1>2, <1>3, <1>4, <1>5, <1>6, <1>7, <1>8, OrderEdited

LEMMA ServeOrderStep ==
  ASSUME Inv, NEW k \in Clients, ServeOrder(k), NEW c, c = InFlight(k), NEW o, o = c.target
  PROVE  OrderStepTo(k)
<1> DEFINE order == [orders[o] EXCEPT !.status = "served"]
<1>1. c.op = "serve" /\ o = Subject(c) /\ UpdateOrder(o, c.version, order) /\ Succeed(k)
  BY DEF ServeOrder, Commits, Subject
<1>2. o \in Orders /\ Expected("serve", orders[o].status)
  BY <1>1, CurrentCommand DEF OrderOps, Current, UpdateOrder
<1>3. orders[o].status = "ready"
  BY <1>2 DEF Expected, Events
<1>4. "served" \in Statuses
  BY DEF Statuses
<1>5. /\ order \in OrderRow /\ order.session = orders[o].session
      /\ order.status = "served" /\ order.payment = orders[o].payment
      /\ order.total = orders[o].total
  BY <1>2, <1>4, StageRow
<1> HIDE DEF order
<1>6. Settled(order, ticket[o], Payments(o, "succeeded"), Payments(o, "reversed"))
  BY <1>2, <1>3, <1>5, SettledNow DEF Settled
<1>7. <<orders[o].status, order.status>> \in Flow!Transitions
  BY <1>3, <1>5 DEF Flow!Transitions
<1>8. UNCHANGED <<payments, ticket, table, session>> /\ ItemsTyped'
  BY DEF ServeOrder, Inv, ItemsTyped
<1> QED
  BY <1>1, <1>2, <1>5, <1>6, <1>7, <1>8, SettledNow, OrderEdited DEF OrderOps

\* Every command of an order keeps the invariant.
OrderCommand(k) ==
  \/ AddLine(k) \/ UpdateLine(k) \/ SubmitOrder(k) \/ RecordPayment(k)
  \/ CancelOrder(k) \/ (\E event \in Events : TransitionKitchenTicket(k, event))
  \/ ServeOrder(k)

LEMMA OrderCommandStep ==
  ASSUME Inv, NEW k \in Clients, OrderCommand(k)
  PROVE  Inv' /\ \E o, row : OrderStep(k, o, row)
<1>1. OrderStepTo(k)
  BY AddLineStep, UpdateLineStep, SubmitOrderStep, RecordPaymentStep, CancelOrderStep,
     KitchenStep, ServeOrderStep DEF OrderCommand
<1>2. PICK o, row : OrderStep(k, o, row)
  BY <1>1 DEF OrderStepTo
<1>3. RowsTyped'
  BY <1>1, <1>2, OrderStepKeeps DEF OrderStepTo, RowsTyped, Inv
<1> QED
  BY <1>1, <1>2, <1>3, OrderStepKeeps DEF OrderStepTo, Inv
(***************************************************************************)
(* The other commands: a cart is opened, the table changes, the manager    *)
(* changes an item, or a command fails.                                    *)
(***************************************************************************)
CartStep(o, s) ==
  /\ o \in Orders /\ s \in Sessions /\ orders[o] = NoOrder
  /\ orders' = [orders EXCEPT ![o] = [NoOrder EXCEPT !.session = s, !.status = "cart"]]

LEMMA ResolveStep ==
  ASSUME Inv, NEW k \in Clients, ResolveTableSession(k)
  PROVE  Inv' /\ (UNCHANGED orders \/ \E o, s : CartStep(o, s))
<1> DEFINE c == InFlight(k)
<1>1. c.op = "resolve" /\ Succeed(k) /\ UNCHANGED <<payments, ticket, item, table, session>>
  BY DEF ResolveTableSession, Commits
<1>2. c.target \in Sessions
  BY <1>1 DEF Inv, RequestsFit, Fits, ResolveFits, InFlight
<1>3. ScopesDiffer' /\ ItemsTyped' /\ ClosedTableIsEmpty'
  BY <1>1, SucceedScopes DEF Inv, ItemsTyped, ClosedTableIsEmpty
<1>4. CASE UNCHANGED orders
  <2>1. RowsTyped' /\ PaymentsFit'
    BY <1>1, <1>4 DEF Inv, RowsTyped, PaymentsFit, Payments
  <2>2. RequestsFit'
    BY <1>1, <1>4, SucceedFits
  <2>3. \A s \in Sessions : Carts(s)' = Carts(s)
    BY <1>4 DEF Carts
  <2>4. CartsCounted'
    BY <1>1, <2>3, CartsStand
  <2> QED
    BY <1>3, <1>4, <2>1, <2>2, <2>4 DEF Inv
<1>5. ASSUME NEW o \in Orders, orders[o] = NoOrder,
             orders' = [orders EXCEPT ![o].session = c.target, ![o].status = "cart"]
      PROVE  Inv' /\ \E p, s : CartStep(p, s)
  <2> DEFINE cart == [NoOrder EXCEPT !.session = c.target, !.status = "cart"]
  <2>1. orders' = [orders EXCEPT ![o] = cart]
    BY <1>5 DEF NoOrder
  <2>2. cart \in OrderRow
    <3>1. cart = [orders[o] EXCEPT !.session = c.target, !.status = "cart"]
      BY <1>5
    <3>2. "cart" \in Statuses
      BY DEF Statuses, Open
    <3> HIDE DEF cart
    <3> QED
      BY <1>2, <3>1, <3>2, SettledNow DEF OrderRow
  <2>3. cart.session = c.target /\ cart.status = "cart" /\ cart.payment = "unpaid"
    BY DEF NoOrder
  <2>4. CartStep(o, c.target)
    BY <1>2, <1>5, <2>1 DEF CartStep
  <2>5. NoOrder.status = "none" /\ NoOrder.session = None /\ NoOrder.payment = "unpaid"
    BY DEF NoOrder
  <2> HIDE DEF cart
  <2>6. RowsTyped'
    BY <1>1, <2>1, <2>2 DEF Inv, RowsTyped
  <2>7. PaymentsFit'
    <3>1. Settled(cart, ticket[o], Payments(o, "succeeded"), Payments(o, "reversed"))
      BY <1>5, <2>3, <2>5, SettledNow DEF Settled
    <3> DEFINE new == {}
    <3>2. /\ ticket' = [ticket EXCEPT ![o] = ticket[o]]
          /\ payments' = payments \cup new /\ \A p \in new : p.order = o
      BY <1>1 DEF Inv, RowsTyped
    <3> HIDE DEF new
    <3>3. Settled(cart, ticket[o], Payments(o, "succeeded")', Payments(o, "reversed")')
      BY <1>1, <3>1 DEF Payments
    <3> QED
      BY <2>1, <2>2, <3>2, <3>3, SettledAgain
  <2>8. RequestsFit'
    <3>1. ASSUME NEW j \in Clients, Fits(req[j], orders, table, session)
          PROVE  Fits(req[j], orders', table, session)
      <4> DEFINE d == req[j].command
      <4>1. ASSUME d.op \in OrderOps PROVE orders'[Subject(d)] = orders[Subject(d)]
        <5>1. Subject(d) \in Orders /\ Subject(d) # o
          BY <1>5, <2>5, <3>1, <4>1 DEF Fits, OrderFits
        <5> QED
          BY <2>1, <5>1 DEF Inv, RowsTyped
      <4> QED
        BY <3>1, <4>1 DEF Fits, OrderFits
    <3> QED
      BY <1>1, <3>1, SucceedFits
  <2>9. CartsCounted'
    <3> SUFFICES ASSUME NEW s \in Sessions
                 PROVE  /\ IsFiniteSet(Carts(s)') /\ IsFiniteSet(KeysUsed(s)')
                        /\ Cardinality(Carts(s)') <= Cardinality(KeysUsed(s)')
      BY DEF CartsCounted
    <3>1. /\ IsFiniteSet(Carts(s)) /\ IsFiniteSet(KeysUsed(s))
          /\ Cardinality(Carts(s)) <= Cardinality(KeysUsed(s))
      BY DEF Inv, CartsCounted
    <3>2. Cardinality(Carts(s)) \in Nat /\ Cardinality(KeysUsed(s)) \in Nat
      BY <3>1, FS_CardinalityType
    <3>3. o \notin Carts(s)
      BY <1>5, <2>5, RestaurantAssumption DEF Carts
    <3>4. CASE s # c.target
      <4>1. Carts(s)' = Carts(s)
        BY <2>1, <2>3, <3>3, <3>4 DEF Carts, Inv, RowsTyped
      <4> QED
        BY <1>1, <3>1, <3>2, <4>1, SucceedKeys, FS_CardinalityType
    <3>5. CASE s = c.target
      <4>1. Carts(s)' = Carts(s) \cup {o}
        BY <2>1, <2>3, <3>5 DEF Carts, Inv, RowsTyped
      <4>2. c.key \notin KeysUsed(s)
        BY <1>1, <3>5 DEF KeysUsed, Inv, ScopesDiffer, Scoped
      <4>3. KeysUsed(s)' = KeysUsed(s) \cup {c.key}
        BY <1>1, <3>5, SucceedKeys
      <4>4. /\ IsFiniteSet(Carts(s) \cup {o})
            /\ Cardinality(Carts(s) \cup {o}) = Cardinality(Carts(s)) + 1
        BY <3>1, <3>3, FS_AddElement
      <4>5. /\ IsFiniteSet(KeysUsed(s) \cup {c.key})
            /\ Cardinality(KeysUsed(s) \cup {c.key}) = Cardinality(KeysUsed(s)) + 1
        BY <3>1, <4>2, FS_AddElement
      <4>6. IsFiniteSet(Carts(s)') /\ Cardinality(Carts(s)') = Cardinality(Carts(s)) + 1
        BY <4>1, <4>4
      <4>7. /\ IsFiniteSet(KeysUsed(s)')
            /\ Cardinality(KeysUsed(s)') = Cardinality(KeysUsed(s)) + 1
        BY <4>3, <4>5
      <4> QED
        BY <3>1, <3>2, <4>6, <4>7
    <3> QED
      BY <3>4, <3>5
  <2> QED
    BY <1>3, <2>4, <2>6, <2>7, <2>8, <2>9 DEF Inv
<1> QED
  BY <1>4, <1>5 DEF ResolveTableSession

LEMMA TableStep ==
  ASSUME Inv, NEW k \in Clients, NEW event, TransitionMerchantTable(k, event)
  PROVE  Inv' /\ UNCHANGED orders
<1> DEFINE c == InFlight(k)
<1>1. /\ c.op = event /\ event \in TableOps /\ Succeed(k) /\ c.version = table.version
      /\ UNCHANGED <<orders, payments, ticket, item>>
  BY DEF TransitionMerchantTable, Commits, TableStillAt, TableOps
<1>2. /\ c.version \in 0 .. MaxTable - 1 /\ table.version \in 0 .. MaxTable
      /\ event = "close" => \A s \in Sessions : session[s] = "active" => s \in req[k].staged
  BY <1>1 DEF Inv, RequestsFit, Fits, TableFits, InFlight, RowsTyped
<1>3. /\ table'.status = CASE event = "open" -> "open" [] event = "seat" -> "seated"
                           [] event = "close" -> "closed"
      /\ table'.version = c.version + 1
      /\ table' = [status |-> table'.status, version |-> table'.version]
  BY DEF TransitionMerchantTable
<1>4. /\ table'.status \in {"open", "seated", "closed"}
      /\ table'.status = "closed" => event = "close"
  BY <1>1, <1>3 DEF TableOps
<1>5. table'.version \in 0 .. MaxTable /\ table'.version > table.version
  BY <1>1, <1>2, <1>3, RestaurantAssumption
<1>6. /\ session' \in [Sessions -> {"none", "active", "closed"}]
      /\ event = "close" => \A s \in Sessions : session'[s] # "active"
  <2>1. CASE event = "seat"
    BY <2>1 DEF TransitionMerchantTable, Inv, RowsTyped
  <2>2. CASE event # "seat"
    <3>1. session' = [s \in Sessions |-> IF s \in req[k].staged THEN "closed" ELSE session[s]]
      BY <2>2 DEF TransitionMerchantTable
    <3> QED
      BY <1>2, <3>1 DEF Inv, RowsTyped
  <2> QED
    BY <2>1, <2>2
<1>7. RowsTyped'
  BY <1>1, <1>3, <1>4, <1>5, <1>6 DEF Inv, RowsTyped
<1>8. ClosedTableIsEmpty'
  BY <1>4, <1>6 DEF ClosedTableIsEmpty
<1>9. ItemsTyped' /\ PaymentsFit'
  BY <1>1 DEF Inv, ItemsTyped, PaymentsFit, Payments
<1>10. RequestsFit'
  <2>1. ASSUME NEW j \in Clients, Fits(req[j], orders, table, session)
        PROVE  Fits(req[j], orders, table', session')
    <3> DEFINE d == req[j].command
    <3>1. ASSUME d.op \in TableOps
          PROVE  d.version <= table'.version /\ d.version # table'.version
      <4>1. d.version \in 0 .. MaxTable - 1 /\ d.version <= table.version
        BY <2>1, <3>1 DEF Fits, TableFits
      <4> QED
        BY <1>2, <1>5, <4>1, RestaurantAssumption
    <3> QED
      BY <2>1, <3>1 DEF Fits, TableFits
  <2> QED
    BY <1>1, <2>1, SucceedFits
<1>11. ScopesDiffer'
  BY <1>1, SucceedScopes DEF TableOps
<1>12. CartsCounted'
  <2>1. \A s \in Sessions : Carts(s)' = Carts(s)
    BY <1>1 DEF Carts
  <2> QED
    BY <1>1, <2>1, CartsStand
<1> QED
  BY <1>1, <1>7, <1>8, <1>9, <1>10, <1>11, <1>12 DEF Inv
LEMMA ManagerStep ==
  ASSUME Inv, NEW k \in Clients, SetMenuItemAvailability(k) \/ AdjustMenuItemStock(k)
  PROVE  Inv' /\ UNCHANGED orders
<1> DEFINE c == InFlight(k)
<1>1. /\ c.op \in ManagerOps /\ Succeed(k)
      /\ UNCHANGED <<orders, payments, ticket, table, session>>
  BY DEF SetMenuItemAvailability, AdjustMenuItemStock, Commits, ManagerOps
<1>2. c.target \in Items /\ c.version + 1 \in 0 .. MaxItem
  <2>1. c.target \in Items /\ c.version \in 0 .. MaxItem - 1
    BY <1>1 DEF Inv, RequestsFit, Fits, ManagerFits, InFlight
  <2> QED
    BY <2>1, RestaurantAssumption
<1>3. ItemsTyped'
  <2>1. PICK stock : \E available \in [Items -> BOOLEAN] : \E version \in [Items -> 0 .. MaxItem] :
          item = ItemTable(stock, available, version)
    BY DEF Inv, ItemsTyped
  <2>2. PICK available \in [Items -> BOOLEAN] : \E version \in [Items -> 0 .. MaxItem] :
          item = ItemTable(stock, available, version)
    BY <2>1
  <2>3. PICK version \in [Items -> 0 .. MaxItem] : item = ItemTable(stock, available, version)
    BY <2>2
  <2> DEFINE t == c.target
             newVersion == [version EXCEPT ![t] = c.version + 1]
  <2>4. newVersion \in [Items -> 0 .. MaxItem]
    BY <1>2
  <2>5. CASE SetMenuItemAvailability(k)
    <3> DEFINE b == c.amount = 1
               newAvailable == [available EXCEPT ![t] = b]
    <3>1. b \in BOOLEAN
      OBVIOUS
    <3>2. item' = [item EXCEPT ![t].available = b, ![t].version = c.version + 1]
      BY <2>5 DEF SetMenuItemAvailability
    <3> HIDE DEF b
    <3>3. newAvailable \in [Items -> BOOLEAN]
      BY <1>2, <3>1
    <3>4. item' = [i \in Items |-> IF i # t THEN item[i] ELSE
                     [item[t] EXCEPT !.available = b, !.version = c.version + 1]]
      BY <1>2, <2>3, <3>2 DEF ItemTable
    <3>5. ASSUME NEW i \in Items
          PROVE  item'[i] = [stock |-> stock[i], available |-> newAvailable[i],
                             version |-> newVersion[i]]
      BY <2>3, <3>4 DEF ItemTable
    <3> HIDE DEF newAvailable, newVersion
    <3>6. item' = ItemTable(stock, newAvailable, newVersion)
      BY <3>4, <3>5 DEF ItemTable
    <3> QED
      BY <2>4, <3>3, <3>6 DEF ItemsTyped
  <2>6. CASE AdjustMenuItemStock(k)
    <3> DEFINE newStock == [i \in Items |-> IF i = t THEN stock[i] + c.amount ELSE stock[i]]
    <3>1. item' = [item EXCEPT ![t].stock = @ + c.amount, ![t].version = c.version + 1]
      BY <2>6 DEF AdjustMenuItemStock
    <3>2. item' = [i \in Items |-> IF i # t THEN item[i] ELSE
                     [item[t] EXCEPT !.stock = @ + c.amount, !.version = c.version + 1]]
      BY <1>2, <2>3, <3>1 DEF ItemTable
    <3>3. ASSUME NEW i \in Items
          PROVE  item'[i] = [stock |-> newStock[i], available |-> available[i],
                             version |-> newVersion[i]]
      BY <2>3, <3>2 DEF ItemTable
    <3> HIDE DEF newStock, newVersion
    <3>4. item' = ItemTable(newStock, available, newVersion)
      BY <3>2, <3>3 DEF ItemTable
    <3> QED
      BY <2>4, <3>4 DEF ItemsTyped
  <2> QED
    BY <2>5, <2>6
<1>4. RowsTyped' /\ PaymentsFit' /\ ClosedTableIsEmpty'
  BY <1>1 DEF Inv, RowsTyped, PaymentsFit, Payments, ClosedTableIsEmpty
<1>5. RequestsFit'
  BY <1>1, SucceedFits
<1>6. ScopesDiffer'
  BY <1>1, SucceedScopes DEF ManagerOps
<1>7. CartsCounted'
  <2>1. \A s \in Sessions : Carts(s)' = Carts(s)
    BY <1>1 DEF Carts
  <2> QED
    BY <1>1, <2>1, CartsStand
<1> QED
  BY <1>1, <1>3, <1>4, <1>5, <1>6, <1>7 DEF Inv

LEMMA RollbackStep ==
  ASSUME Inv, NEW k \in Clients, Rollback(k)
  PROVE  Inv' /\ UNCHANGED orders
<1>1. TablesStand /\ req' = [req EXCEPT ![k] = Idle] /\ DOMAIN req = Clients
  BY DEF Rollback, TablesStand, Inv, RequestsFit
<1>2. \A j \in Clients : req'[j] = IF j = k THEN Idle ELSE req[j]
  BY <1>1
<1>3. RequestsFit'
  <2>1. \A j \in Clients : Fits(req'[j], orders, table, session)
    BY <1>2, IdleFits DEF Inv, RequestsFit
  <2>2. DOMAIN req' = Clients
    BY <1>1
  <2> QED
    BY <1>1, <2>1, <2>2 DEF RequestsFit, TablesStand
<1>4. ScopesDiffer'
  <2>1. \A j \in Clients : InFlight(j)' = IF j = k THEN NoCommand ELSE InFlight(j)
    BY <1>2 DEF InFlight, Idle
  <2>2. NoCommand.op = "none" /\ commands' = commands
    BY <1>1 DEF NoCommand, TablesStand
  <2> QED
    BY <2>1, <2>2 DEF Inv, ScopesDiffer, Scoped
<1> QED
  BY <1>1, <1>3, <1>4, TablesStandInv DEF Inv, TablesStand

-----------------------------------------------------------------------------
(***************************************************************************)
(* What each command has read when it begins.                              *)
(***************************************************************************)
LEMMA BeginOrderFits ==
  ASSUME Inv, NEW c, c.op \in OrderOps, Subject(c) \in Orders,
         AtVersion(Subject(c), c.version), Current(c, orders[Subject(c)]),
         c.op = "add" => c.item \in Items /\ c.amount \in Nat,
         c.op = "update" => c.amount \in Nat, NEW staged
  PROVE  Fits([command |-> c, staged |-> staged], orders, table, session)
<1>1. orders[Subject(c)].version \in Nat
  BY DEF Inv, RowsTyped, OrderRow
<1>2. OrderFits(c, orders)
  BY <1>1 DEF OrderFits, AtVersion
<1>3. c.op \notin TableOps \cup ManagerOps \cup {"resolve"}
  BY DEF OrderOps, Events, TableOps, ManagerOps
<1> QED
  BY <1>2, <1>3 DEF Fits, TableFits, ManagerFits, ResolveFits

LEMMA BeginOrderStep ==
  ASSUME Inv, NEW k \in Clients, NEW o \in Orders, NEW op \in OrderOps, op # "update",
         NEW key, NEW version, NEW i, NEW n, BeginOrder(k, op, o, key, version, i, n),
         Expected(op, orders[o].status),
         op = "add" => i \in Items /\ n \in Nat, op = "pay" => n = orders[o].total
  PROVE  Inv' /\ UNCHANGED orders
<1> DEFINE c == Command(op, o, key, version, i, n)
<1>1. /\ c.op = op /\ c.target = o /\ c.version = version /\ c.item = i /\ c.amount = n
      /\ Subject(c) = o
  BY DEF Command, Subject
<1>2. AtVersion(o, version) /\ Begin(k, c, {})
  BY DEF BeginOrder
<1> HIDE DEF c
<1>3. Current(c, orders[o])
  BY <1>1 DEF Current
<1>4. Fits([command |-> c, staged |-> {}], orders, table, session)
  BY <1>1, <1>2, <1>3, BeginOrderFits
<1> QED
  BY <1>2, <1>4, BeginInv
LEMMA BeginsInv ==
  ASSUME Inv, work \in Workloads, NEW k \in Clients, NEW key \in Keys, Begins(k, key)
  PROVE  Inv' /\ UNCHANGED orders
<1>1. ASSUME NEW s \in Sessions, BeginResolve(k, s, key)
      PROVE  Inv' /\ UNCHANGED orders
  <2> DEFINE c == Command("resolve", s, key, 0, None, 0)
             open == {o \in Orders : orders[o].session = s /\ orders[o].status \in Open}
  <2>1. c.op = "resolve" /\ c.target = s /\ Begin(k, c, open)
    BY <1>1 DEF BeginResolve, Command
  <2> HIDE DEF c, open
  <2>2. Fits([command |-> c, staged |-> open], orders, table, session)
    BY <2>1 DEF Fits, OrderFits, TableFits, ManagerFits, ResolveFits, OrderOps, Events,
       TableOps, ManagerOps
  <2> QED
    BY <2>1, <2>2, BeginInv
<1>2. ASSUME NEW event \in TableOps, BeginTable(k, event, key, table.version)
      PROVE  Inv' /\ UNCHANGED orders
  <2> DEFINE c == Command(event, None, key, table.version, None, 0)
             staged == IF event = "close" THEN {s \in Sessions : session[s] = "active"} ELSE {}
  <2>1. /\ c.op = event /\ c.version = table.version /\ table.version < MaxTable
        /\ Begin(k, c, staged)
    BY <1>2 DEF BeginTable, Command
  <2>2. event = "close" => \A s \in Sessions : session[s] = "active" => s \in staged
    OBVIOUS
  <2> HIDE DEF c, staged
  <2>3. c.version \in 0 .. MaxTable - 1 /\ c.version <= table.version
    BY <2>1, RestaurantAssumption DEF Inv, RowsTyped
  <2>4. c.op \notin OrderOps \cup ManagerOps \cup {"resolve"}
    BY <2>1 DEF OrderOps, Events, TableOps, ManagerOps
  <2>5. Fits([command |-> c, staged |-> staged], orders, table, session)
    BY <2>1, <2>2, <2>3, <2>4 DEF Fits, OrderFits, TableFits, ManagerFits, ResolveFits
  <2> QED
    BY <2>1, <2>5, BeginInv
<1>3. ASSUME NEW op \in ManagerOps, NEW i \in Items, NEW n,
             BeginManager(k, op, i, key, item[i].version, n)
      PROVE  Inv' /\ UNCHANGED orders
  <2> DEFINE c == Command(op, i, key, item[i].version, None, n)
  <2>1. /\ c.op = op /\ c.target = i /\ c.version = item[i].version
        /\ item[i].version < MaxItem /\ Begin(k, c, {})
    BY <1>3 DEF BeginManager, Command
  <2> HIDE DEF c
  <2>2. item[i].version \in 0 .. MaxItem
    BY DEF Inv, ItemsTyped, ItemTable
  <2>3. c.version \in 0 .. MaxItem - 1
    BY <2>1, <2>2, RestaurantAssumption
  <2>4. c.op \notin OrderOps \cup TableOps \cup {"resolve"}
    BY <2>1 DEF OrderOps, Events, TableOps, ManagerOps
  <2>5. Fits([command |-> c, staged |-> {}], orders, table, session)
    BY <2>1, <2>3, <2>4 DEF Fits, OrderFits, TableFits, ManagerFits, ResolveFits
  <2> QED
    BY <2>1, <2>5, BeginInv
<1>4. \A n \in Quantities : n \in Nat
  BY RestaurantAssumption DEF Quantities
<1>5. ASSUME NEW o \in Orders, NEW i \in Items, NEW n \in Quantities,
             BeginAddLine(k, o, key, orders[o].version, i, n)
      PROVE  Inv' /\ UNCHANGED orders
  BY <1>4, <1>5, BeginOrderStep DEF BeginAddLine, Expected, OrderOps
<1>6. ASSUME NEW o \in Orders, NEW l \in DOMAIN orders[o].lines, NEW n \in Quantities,
             BeginUpdateLine(k, o, l, key, orders[o].version, n)
      PROVE  Inv' /\ UNCHANGED orders
  <2> DEFINE c == Command("update", <<o, l>>, key, orders[o].version, None, n)
  <2>1. /\ c.op = "update" /\ c.target[2] = l /\ c.version = orders[o].version
        /\ c.amount = n /\ Subject(c) = o
    BY DEF Command, Subject
  <2>2. /\ Begin(k, c, {}) /\ AtVersion(o, orders[o].version)
        /\ orders[o].status = "cart"
    BY <1>6 DEF BeginUpdateLine
  <2> HIDE DEF c
  <2>3. Current(c, orders[o])
    BY <2>1, <2>2 DEF Current, Expected
  <2>4. Fits([command |-> c, staged |-> {}], orders, table, session)
    BY <1>4, <2>1, <2>2, <2>3, BeginOrderFits DEF OrderOps
  <2> QED
    BY <2>2, <2>4, BeginInv
<1>7. ASSUME NEW o \in Orders, BeginSubmit(k, o, key, orders[o].version)
      PROVE  Inv' /\ UNCHANGED orders
  BY <1>7, BeginOrderStep DEF BeginSubmit, Expected, OrderOps
<1>8. ASSUME NEW o \in Orders, BeginPayment(k, o, key, orders[o].version)
      PROVE  Inv' /\ UNCHANGED orders
  BY <1>8, BeginOrderStep DEF BeginPayment, Expected, OrderOps
<1>9. ASSUME NEW o \in Orders, BeginCancel(k, o, key, orders[o].version)
      PROVE  Inv' /\ UNCHANGED orders
  BY <1>9, BeginOrderStep DEF BeginCancel, Expected, OrderOps
<1>10. ASSUME NEW o \in Orders, NEW event \in Events,
              BeginKitchen(k, o, event, key, orders[o].version)
       PROVE  Inv' /\ UNCHANGED orders
  BY <1>10, BeginOrderStep DEF BeginKitchen, Expected, OrderOps, Events
<1>11. ASSUME NEW o \in Orders, BeginServe(k, o, key, orders[o].version)
      PROVE  Inv' /\ UNCHANGED orders
  BY <1>11, BeginOrderStep DEF BeginServe, Expected, OrderOps
<1> QED
  BY <1>1, <1>2, <1>3, <1>5, <1>6, <1>7, <1>8, <1>9, <1>10, <1>11
  DEF Begins, TableOps, ManagerOps

-----------------------------------------------------------------------------
(***************************************************************************)
(* The theorems.                                                           *)
(***************************************************************************)
LEMMA NextInv ==
  ASSUME Inv, WorkChosen, Next
  PROVE  /\ Inv' /\ WorkChosen'
         /\ \/ UNCHANGED orders
            \/ \E o, s : CartStep(o, s)
            \/ \E k \in Clients : \E o, row : OrderStep(k, o, row)
<1>1. WorkChosen'
  BY DEF Next, WorkChosen
<1>2. PICK k \in Clients : (\E key \in Keys : Begins(k, key)) \/ Ends(k)
  BY DEF Next
<1>3. CASE \E key \in Keys : Begins(k, key)
  BY <1>1, <1>3, BeginsInv DEF WorkChosen
<1>4. CASE Ends(k)
  BY <1>1, <1>4, OrderCommandStep, ResolveStep, TableStep, ManagerStep, RollbackStep
  DEF Ends, OrderCommand
<1> QED
  BY <1>2, <1>3, <1>4

(* The inductive invariant: types, what commands in flight have read, keys *)
(* used once per scope, payments settled.                                  *)
THEOREM RestaurantInvariant == Spec => [](Inv /\ WorkChosen)
<1>1. Init => Inv /\ WorkChosen
  BY InitInv DEF Init, WorkChosen
<1>2. Inv /\ WorkChosen /\ [Next]_vars => (Inv /\ WorkChosen)'
  <2>1. CASE Next
    BY <2>1, NextInv
  <2>2. CASE UNCHANGED vars
    <3>1. TablesStand /\ req' = req /\ work' = work
      BY <2>2 DEF vars, TablesStand
    <3>2. Inv => (RequestsFit /\ ScopesDiffer)'
      BY <3>1 DEF Inv, TablesStand, RequestsFit, ScopesDiffer, InFlight
    <3> QED
      BY <3>1, <3>2, TablesStandInv DEF Inv, WorkChosen
  <2> QED
    BY <2>1, <2>2
<1> QED
  BY <1>1, <1>2, PTL DEF Spec

(* Every row stays in its domain, and so do the versions of table and items. *)
THEOREM RestaurantTypeOK == Spec => []TypeOK
<1>1. Inv => TypeOK
  <2> SUFFICES ASSUME Inv PROVE TypeOK
    OBVIOUS
  <2>1. \A i \in Items : item[i].available \in BOOLEAN /\ item[i].version \in 0 .. MaxItem
    BY DEF Inv, ItemsTyped, ItemTable
  <2>2. \A o \in Orders : orders[o] \in OrderRow /\ ticket[o] \in Tickets
    BY DEF Inv, RowsTyped
  <2> QED
    BY <2>1, <2>2 DEF TypeOK, Inv, RowsTyped, OrderRow, Line, Tickets
<1> QED
  BY <1>1, RestaurantInvariant, PTL

(* However payments, cancellations and kitchen events race, an order is     *)
(* paid once, with its total, and its ticket follows it (recordPayment,     *)
(* cancelOrder, transitionKitchenTicket).                                   *)
THEOREM PaidOnce == Spec => []PaidOnceAndCooked
<1>1. ASSUME Inv PROVE PaidOnceAndCooked
  <2> SUFFICES ASSUME NEW o \in Orders
      PROVE  LET paid     == Payments(o, "succeeded")
                 reversed == Payments(o, "reversed")
             IN /\ Cardinality(paid) = (IF orders[o].payment = "unpaid" THEN 0 ELSE 1)
                /\ Cardinality(reversed) =
                     (IF orders[o].payment = "reversal-requested" THEN 1 ELSE 0)
                /\ \A p \in paid \cup reversed : p.amount = orders[o].total
                /\ (ticket[o] = "none") <=> (orders[o].payment = "unpaid")
                /\ orders[o].status \in {"paid", "accepted", "preparing", "ready"} =>
                     ticket[o] = orders[o].status
    BY DEF PaidOnceAndCooked, Payments
  <2>1. ASSUME NEW ps, NEW total, Single(ps, total)
        PROVE  Cardinality(ps) = 1 /\ \A p \in ps : p.amount = total
    BY <2>1, FS_Singleton DEF Single
  <2>2. Cardinality({}) = 0
    BY FS_EmptySet
  <2>3. Settled(orders[o], ticket[o], Payments(o, "succeeded"), Payments(o, "reversed"))
    BY <1>1, SettledNow
  <2> QED
    BY <2>1, <2>2, <2>3 DEF Settled
<1> QED
  BY <1>1, RestaurantInvariant, PTL

(* No party is left at a closed table (transitionMerchantTable).            *)
THEOREM ClosedIsEmpty == Spec => []ClosedTableIsEmpty
<1>1. Inv => ClosedTableIsEmpty
  BY DEF Inv
<1> QED
  BY <1>1, RestaurantInvariant, PTL

(* A session has at most one order per key that resolved it                 *)
(* (resolveTableSession under executeCommand).                              *)
THEOREM CartPerKey == Spec => []OneCartPerKey
<1>1. Inv => OneCartPerKey
  BY DEF Inv, CartsCounted, Carts, KeysUsed, OneCartPerKey
<1> QED
  BY <1>1, RestaurantInvariant, PTL

(* The service refines the flow that the Graph declares: a stage is only    *)
(* left by one of its transitions, each a new version.                      *)
THEOREM ServiceFollowsFlow == Spec => ImplementsFlow
<1> USE DEF Flow!Init, Flow!Next, Flow!Creates, Flow!Moves
<1>1. Init => Flow!Init
  BY DEF Init, NoOrder
<1>2. ASSUME Inv, WorkChosen, [Next]_vars
      PROVE  [Flow!Next]_<<[o \in Orders |-> orders[o].status],
                           [o \in Orders |-> orders[o].version]>>
  <2>1. orders \in [Orders -> OrderRow]
    BY <1>2 DEF Inv, RowsTyped
  <2>2. CASE UNCHANGED orders
    BY <2>2
  <2>3. ASSUME NEW o, NEW s, CartStep(o, s) PROVE Flow!Next
    <3> DEFINE cart == [NoOrder EXCEPT !.session = s, !.status = "cart"]
    <3>1. /\ cart.status = "cart" /\ cart.version = 0
          /\ NoOrder.status = "none" /\ NoOrder.version = 0
      BY DEF NoOrder
    <3>2. o \in Orders /\ orders[o] = NoOrder /\ orders' = [orders EXCEPT ![o] = cart]
      BY <2>3 DEF CartStep
    <3> HIDE DEF cart
    <3>3. Flow!Creates(o)
      BY <2>1, <3>1, <3>2
    <3> QED
      BY <3>2, <3>3
  <2>4. ASSUME NEW k \in Clients, NEW o, NEW row, OrderStep(k, o, row) PROVE Flow!Next
    <3>1. Flow!Moves(o, row.status) /\ o \in Orders
      BY <2>1, <2>4 DEF OrderStep
    <3>2. <<orders[o].status, row.status>> \in Flow!Transitions \cup {<<"cart", "cart">>}
      BY <2>4 DEF OrderStep
    <3>3. <<"cart", "submitted">> \in Flow!Transitions
      BY DEF Flow!Transitions
    <3>4. PICK t \in Flow!Transitions : row.status = t[1] \/ row.status = t[2]
      BY <3>2, <3>3
    <3>5. Flow!Moves(o, t[1]) \/ Flow!Moves(o, t[2])
      <4> HIDE DEF Flow!Moves
      <4> QED
        BY <3>1, <3>4
    <3> HIDE DEF Flow!Moves, Flow!Creates
    <3> QED
      BY <3>1, <3>5
  <2>5. CASE Next
    <3> HIDE DEF Flow!Next
    <3>1. CASE \E o, s : CartStep(o, s)
      BY <2>3, <3>1
    <3>2. CASE \E k \in Clients : \E o, row : OrderStep(k, o, row)
      BY <2>4, <3>2
    <3> QED
      BY <1>2, <2>2, <2>5, <3>1, <3>2, NextInv
  <2>6. CASE UNCHANGED vars
    BY <2>2, <2>6 DEF vars
  <2> QED
    BY <1>2, <2>5, <2>6
<1> QED
  BY <1>1, <1>2, RestaurantInvariant, PTL DEF Spec, ImplementsFlow, Flow!Spec

-----------------------------------------------------------------------------
(***************************************************************************)
(* The stock.  The sums of the model, over rows of the ledger, lines of an *)
(* order and items of the menu, as sums of functions.                      *)
(***************************************************************************)
Net(rows) == Total([e \in rows |-> e.delta], rows)

Of(lines, i)    == {l \in DOMAIN lines : lines[l].item = i}
Asked(lines, i) == Total([l \in DOMAIN lines |-> lines[l].quantity], Of(lines, i))
Cost(lines)     == Total([i \in Items |-> Asked(lines, i)], Items)

LEMMA BalanceIsNet ==
  ASSUME NEW rows, IsFiniteSet(rows)
  PROVE  Balance(rows) = Net(rows)
<1> DEFINE f == [e \in rows |-> e.delta]
           D(g) == [s \in SUBSET rows |-> IF s = {} THEN 0 ELSE Any(s).delta + g[s \ {Any(s)}]]
           h == CHOOSE g : g = D(g)
<1>1. Balance(rows) = h[rows]
  BY DEF Balance, MapThenSumSet, MapThenFoldSet, Any
<1>2. ASSUME NEW g PROVE g = D(g) <=> IsSums(g, f, rows)
  <2>1. \A s \in SUBSET rows : s # {} => f[Any(s)] = Any(s).delta
    BY AnyIn
  <2> QED
    BY <2>1 DEF IsSums
<1>3. IsSums(Sums(f, rows), f, rows)
  BY SumsExist
<1>4. h = D(h)
  <2>1. \E g : g = D(g)
    BY <1>2, <1>3
  <2> HIDE DEF D
  <2> QED
    BY <2>1
<1>5. IsSums(h, f, rows)
  BY <1>2, <1>4
<1> HIDE DEF h, f, D
<1>6. h[rows] = Total(f, rows)
  BY <1>5, TotalIs
<1> QED
  BY <1>1, <1>6 DEF Net, f

LEMMA DemandIsAsked ==
  ASSUME NEW o, NEW i, orders[o].lines \in Seq(Line)
  PROVE  Demand(o, i) = Asked(orders[o].lines, i)
<1> DEFINE lines == orders[o].lines
           S == Of(lines, i)
           f == [l \in DOMAIN lines |-> lines[l].quantity]
           D(g) == [s \in SUBSET S |->
                      IF s = {} THEN 0 ELSE lines[Any(s)].quantity + g[s \ {Any(s)}]]
           h == CHOOSE g : g = D(g)
<1>0. IsFiniteSet(S) /\ S \in SUBSET DOMAIN lines
  <2>1. DOMAIN lines = 1 .. Len(lines) /\ Len(lines) \in Nat
    OBVIOUS
  <2>2. IsFiniteSet(1 .. Len(lines))
    BY <2>1, FS_Interval
  <2> QED
    BY <2>1, <2>2, FS_Subset DEF Of
<1>1. Demand(o, i) = h[S]
  BY DEF Demand, MapThenSumSet, MapThenFoldSet, Any, Of
<1> HIDE DEF lines, S
<1>2. ASSUME NEW g PROVE g = D(g) <=> IsSums(g, f, S)
  <2>1. \A s \in SUBSET S : s # {} => f[Any(s)] = lines[Any(s)].quantity
    BY <1>0, AnyIn
  <2> QED
    BY <2>1 DEF IsSums
<1>3. IsSums(Sums(f, S), f, S)
  BY <1>0, SumsExist
<1>4. h = D(h)
  <2>1. \E g : g = D(g)
    BY <1>2, <1>3
  <2> HIDE DEF D
  <2> QED
    BY <2>1
<1>5. IsSums(h, f, S)
  BY <1>2, <1>4
<1> HIDE DEF h, f, D
<1>6. h[S] = Total(f, S)
  BY <1>0, <1>5, TotalIs
<1> QED
  BY <1>1, <1>6 DEF Asked, f, S, lines

LEMMA DemandsAreCost ==
  ASSUME NEW o, orders[o].lines \in Seq(Line)
  PROVE  MapThenSumSet(LAMBDA i : Demand(o, i), Items) = Cost(orders[o].lines)
<1> DEFINE f == [i \in Items |-> Asked(orders[o].lines, i)]
           D(g) == [s \in SUBSET Items |->
                      IF s = {} THEN 0 ELSE Demand(o, Any(s)) + g[s \ {Any(s)}]]
           h == CHOOSE g : g = D(g)
<1>0. IsFiniteSet(Items)
  BY RestaurantAssumption
<1>1. MapThenSumSet(LAMBDA i : Demand(o, i), Items) = h[Items]
  BY DEF MapThenSumSet, MapThenFoldSet, Any
<1>2. ASSUME NEW g PROVE g = D(g) <=> IsSums(g, f, Items)
  <2>1. \A s \in SUBSET Items : s # {} => f[Any(s)] = Demand(o, Any(s))
    BY AnyIn, DemandIsAsked
  <2> QED
    BY <2>1 DEF IsSums
<1>3. IsSums(Sums(f, Items), f, Items)
  BY <1>0, SumsExist
<1>4. h = D(h)
  <2>1. \E g : g = D(g)
    BY <1>2, <1>3
  <2> HIDE DEF D
  <2> QED
    BY <2>1
<1>5. IsSums(h, f, Items)
  BY <1>2, <1>4
<1> HIDE DEF h, f, D
<1>6. h[Items] = Total(f, Items)
  BY <1>0, <1>5, TotalIs
<1> QED
  BY <1>1, <1>6 DEF Cost, f

-----------------------------------------------------------------------------
(***************************************************************************)
(* What lines ask for, as they are edited.                                 *)
(***************************************************************************)
LEMMA LinesFinite ==
  ASSUME NEW lines \in Seq(Line), NEW i
  PROVE  /\ IsFiniteSet(DOMAIN lines) /\ IsFiniteSet(Of(lines, i))
         /\ Of(lines, i) \in SUBSET DOMAIN lines
         /\ \A l \in DOMAIN lines : lines[l].quantity \in Nat /\ lines[l].item \in Items
<1>1. DOMAIN lines = 1 .. Len(lines) /\ Len(lines) \in Nat
  OBVIOUS
<1>2. IsFiniteSet(DOMAIN lines)
  BY <1>1, FS_Interval
<1>3. Of(lines, i) \in SUBSET DOMAIN lines
  BY DEF Of
<1>4. \A l \in DOMAIN lines : lines[l] \in Line
  OBVIOUS
<1> QED
  BY <1>2, <1>3, <1>4, FS_Subset DEF Line

LEMMA AskedNat ==
  ASSUME NEW lines \in Seq(Line), NEW i
  PROVE  Asked(lines, i) \in Nat
<1> DEFINE f == [l \in DOMAIN lines |-> lines[l].quantity]
<1>1. IsFiniteSet(Of(lines, i)) /\ \A l \in Of(lines, i) : f[l] \in Nat
  BY LinesFinite
<1> HIDE DEF f
<1>2. Total(f, Of(lines, i)) \in Nat
  BY <1>1, TotalNat
<1> QED
  BY <1>2 DEF Asked, f

LEMMA CostInt ==
  ASSUME NEW lines \in Seq(Line)
  PROVE  Cost(lines) \in Int
<1> DEFINE f == [i \in Items |-> Asked(lines, i)]
<1>1. \A i \in Items : f[i] \in Nat
  BY AskedNat
<1> HIDE DEF f
<1>2. Total(f, Items) \in Nat
  BY <1>1, TotalNat, RestaurantAssumption
<1> QED
  BY <1>2 DEF Cost, f

\* One item is asked for n more.
LEMMA CostGrows ==
  ASSUME NEW lines \in Seq(Line), NEW new \in Seq(Line), NEW i \in Items, NEW n \in Int,
         Asked(new, i) = Asked(lines, i) + n,
         \A j \in Items : j # i => Asked(new, j) = Asked(lines, j)
  PROVE  Cost(new) = Cost(lines) + n
<1> DEFINE f == [j \in Items |-> Asked(lines, j)]
           g == [j \in Items |-> Asked(new, j)]
<1>1. /\ IsFiniteSet(Items) /\ Numbers(f, Items)
      /\ g[i] = f[i] + n /\ \A j \in Items : j # i => g[j] = f[j]
  BY AskedNat, RestaurantAssumption DEF Numbers
<1> HIDE DEF f, g
<1>2. Total(g, Items) = Total(f, Items) + n
  BY <1>1, TotalGrows
<1> QED
  BY <1>2 DEF Cost, f, g

LEMMA AppendAsks ==
  ASSUME NEW lines \in Seq(Line), NEW line \in Line
  PROVE  Cost(Append(lines, line)) = Cost(lines) + line.quantity
<1> DEFINE new == Append(lines, line)
           last == Len(lines) + 1
           f == [l \in DOMAIN lines |-> lines[l].quantity]
           g == [l \in DOMAIN new |-> new[l].quantity]
<1>1. /\ new \in Seq(Line) /\ Len(lines) \in Nat
      /\ DOMAIN lines = 1 .. Len(lines) /\ DOMAIN new = DOMAIN lines \cup {last}
      /\ last \notin DOMAIN lines /\ new[last] = line
      /\ \A l \in DOMAIN lines : new[l] = lines[l]
  OBVIOUS
<1>2. line.item \in Items /\ line.quantity \in Nat
  BY DEF Line
<1> HIDE DEF new, last
<1>3. ASSUME NEW i \in Items PROVE Total(g, Of(lines, i)) = Asked(lines, i)
  <2>1. \A l \in Of(lines, i) : g[l] = f[l]
    BY <1>1, LinesFinite
  <2>2. IsFiniteSet(Of(lines, i)) /\ Numbers(f, Of(lines, i))
    BY LinesFinite DEF Numbers
  <2> HIDE DEF f, g
  <2>3. Total(g, Of(lines, i)) = Total(f, Of(lines, i))
    BY <2>1, <2>2, TotalEqual
  <2> QED
    BY <2>3 DEF Asked, f
<1>4. ASSUME NEW i \in Items, i # line.item PROVE Asked(new, i) = Asked(lines, i)
  <2>1. Of(new, i) = Of(lines, i)
    BY <1>1, <1>4 DEF Of
  <2> QED
    BY <1>3, <2>1 DEF Asked
<1>5. Asked(new, line.item) = Asked(lines, line.item) + line.quantity
  <2> DEFINE S == Of(lines, line.item)
  <2>1. Of(new, line.item) = S \cup {last}
    BY <1>1 DEF Of
  <2>2. last \notin S /\ g[last] = line.quantity
    BY <1>1 DEF Of
  <2>3. Numbers(g, S \cup {last})
    BY <1>1, <1>2, <2>1, LinesFinite DEF Numbers
  <2>4. IsFiniteSet(S)
    BY LinesFinite
  <2>5. Total(g, S) = Asked(lines, line.item) /\ Asked(lines, line.item) \in Nat
    BY <1>2, <1>3, AskedNat
  <2> HIDE DEF S, g
  <2>6. Total(g, S \cup {last}) = g[last] + Total(g, S)
    BY <2>2, <2>3, <2>4, TotalWith
  <2> QED
    BY <1>2, <2>1, <2>2, <2>5, <2>6 DEF Asked, g
<1> HIDE DEF f, g
<1>6. line.quantity \in Int /\ new \in Seq(Line)
  BY <1>1, <1>2
<1>7. Cost(new) = Cost(lines) + line.quantity
  BY <1>2, <1>4, <1>5, <1>6, CostGrows
<1> QED
  BY <1>7 DEF new

LEMMA UpdateAsks ==
  ASSUME NEW lines \in Seq(Line), NEW l \in DOMAIN lines, NEW n \in Nat
  PROVE  LET new == [lines EXCEPT ![l] = [item |-> lines[l].item, quantity |-> n]]
         IN Cost(new) = Cost(lines) + (n - lines[l].quantity)
<1> DEFINE line == [item |-> lines[l].item, quantity |-> n]
           new == [lines EXCEPT ![l] = line]
           old == lines[l]
           f == [m \in DOMAIN lines |-> lines[m].quantity]
           g == [m \in DOMAIN new |-> new[m].quantity]
<1>1. old.item \in Items /\ old.quantity \in Nat
  BY LinesFinite
<1>2. line \in Line /\ line.item = old.item /\ line.quantity = n
  BY <1>1 DEF Line
<1> HIDE DEF line
<1>3. /\ new \in Seq(Line) /\ DOMAIN new = DOMAIN lines /\ new[l] = line
      /\ \A m \in DOMAIN lines : m # l => new[m] = lines[m]
  BY <1>2
<1> HIDE DEF new
<1>4. ASSUME NEW i \in Items
      PROVE  /\ Of(new, i) = Of(lines, i) /\ IsFiniteSet(Of(lines, i))
             /\ Numbers(f, Of(lines, i)) /\ \A m \in Of(lines, i) : m # l => g[m] = f[m]
  <2>1. Of(new, i) = Of(lines, i)
    BY <1>2, <1>3 DEF Of
  <2>2. IsFiniteSet(Of(lines, i)) /\ Of(lines, i) \in SUBSET DOMAIN lines
    BY LinesFinite
  <2>3. \A m \in DOMAIN lines : f[m] \in Int /\ (m # l => g[m] = f[m])
    BY <1>3, LinesFinite
  <2> HIDE DEF f, g
  <2> QED
    BY <2>1, <2>2, <2>3 DEF Numbers
<1>5. g[l] = f[l] + (n - old.quantity) /\ n - old.quantity \in Int
  BY <1>1, <1>2, <1>3
<1>6. ASSUME NEW i \in Items, i # old.item PROVE Asked(new, i) = Asked(lines, i)
  <2>1. \A m \in Of(lines, i) : g[m] = f[m]
    BY <1>4, <1>6 DEF Of
  <2> HIDE DEF f, g
  <2>2. Total(g, Of(lines, i)) = Total(f, Of(lines, i))
    BY <1>4, <2>1, TotalEqual
  <2> QED
    BY <1>4, <2>2 DEF Asked, f, g
<1>7. Asked(new, old.item) = Asked(lines, old.item) + (n - old.quantity)
  <2>1. l \in Of(lines, old.item)
    BY DEF Of
  <2> HIDE DEF f, g, old
  <2>2. Total(g, Of(lines, old.item)) = Total(f, Of(lines, old.item)) + (n - old.quantity)
    BY <1>1, <1>4, <1>5, <2>1, TotalGrows
  <2> QED
    BY <1>1, <1>4, <2>2 DEF Asked, f, g
<1> HIDE DEF old, f, g
<1>8. Cost(new) = Cost(lines) + (n - old.quantity)
  BY <1>1, <1>3, <1>5, <1>6, <1>7, CostGrows
<1> QED
  BY <1>8 DEF new, old, line

-----------------------------------------------------------------------------
(***************************************************************************)
(* The inductive invariant of the stock: the rows of the ledger that name  *)
(* an order are those its stage calls for, and stock and ledger move       *)
(* together.                                                               *)
(***************************************************************************)
Rows(o, lines, tag, sign) ==
  {Entry(lines[l].item, o, <<tag, o, l>>, sign * lines[l].quantity) : l \in DOMAIN lines}

Reservation(o, order) == Rows(o, order.lines, "reservation", -1)
Release(o, order)     == Rows(o, order.lines, "release", 1)

Held(o, order) ==
  (IF order.status \in {"none", "cart"} THEN {} ELSE Reservation(o, order)) \cup
  (IF order.status = "cancelled" /\ order.payment = "unpaid" THEN Release(o, order) ELSE {})

On(i, rows)      == {e \in rows : e.item = i}
Entries(o, rows) == {e \in rows : e.order = o}

Countable(rows) ==
  IsFiniteSet(rows) /\ \A e \in rows : e.item \in Items /\ e.delta \in Int

Stocked ==
  \A i \in Items : /\ item[i].stock \in Nat
                   /\ item[i].stock = work.supply + Net(On(i, ledger))

Reserved ==
  \A o \in Orders : /\ Entries(o, ledger) = Held(o, orders[o])
                    /\ orders[o].total = Cost(orders[o].lines)

AdjustmentsFit ==
  \A k \in Clients : InFlight(k).op = "stock" => InFlight(k).amount \in Int

StockInv == Countable(ledger) /\ Stocked /\ Reserved /\ AdjustmentsFit

\* Sums of rows.
LEMMA NetInt ==
  ASSUME NEW rows, Countable(rows), NEW S \in SUBSET rows
  PROVE  IsFiniteSet(S) /\ Net(S) \in Int
<1> DEFINE f == [e \in S |-> e.delta]
<1>1. IsFiniteSet(S) /\ Numbers(f, S)
  BY FS_Subset DEF Countable, Numbers
<1> HIDE DEF f
<1>2. Total(f, S) \in Int
  BY <1>1, TotalInt
<1> QED
  BY <1>1, <1>2 DEF Net, f

LEMMA NetUnion ==
  ASSUME NEW S, NEW R, IsFiniteSet(S), IsFiniteSet(R), S \cap R = {},
         \A e \in S \cup R : e.delta \in Int
  PROVE  Net(S \cup R) = Net(S) + Net(R)
<1> DEFINE f == [e \in S \cup R |-> e.delta]
           s == [e \in S |-> e.delta]
           r == [e \in R |-> e.delta]
<1>1. /\ Numbers(f, S \cup R) /\ Numbers(s, S) /\ Numbers(r, R)
      /\ \A e \in S : f[e] = s[e]
      /\ \A e \in R : f[e] = r[e]
  BY DEF Numbers
<1> HIDE DEF f, s, r
<1>2. Total(f, S \cup R) = Total(f, S) + Total(f, R)
  BY <1>1, TotalUnion
<1>3. Total(f, S) = Total(s, S) /\ Total(f, R) = Total(r, R)
  BY <1>1, TotalEqual
<1> QED
  BY <1>2, <1>3 DEF Net, f, s, r

LEMMA NetNone == Net({}) = 0
  BY TotalEmpty DEF Net

LEMMA NetOne ==
  ASSUME NEW e, e.delta \in Int
  PROVE  Net({e}) = e.delta
<1> DEFINE f == [x \in {e} |-> x.delta]
<1>1. f[e] = e.delta
  OBVIOUS
<1> HIDE DEF f
<1>2. Total(f, {e}) = f[e]
  BY <1>1, TotalOne
<1> QED
  BY <1>1, <1>2 DEF Net, f

\* The rows of an order move what its lines ask for.
LEMMA RowsMove ==
  ASSUME NEW o, NEW lines \in Seq(Line), NEW tag, NEW sign \in {-1, 1}
  PROVE  /\ Countable(Rows(o, lines, tag, sign))
         /\ \A e \in Rows(o, lines, tag, sign) : e.order = o /\ e.tag[1] = tag
         /\ \A i \in Items : Net(On(i, Rows(o, lines, tag, sign))) =
              IF sign = 1 THEN Asked(lines, i) ELSE - Asked(lines, i)
<1> DEFINE b == [l \in DOMAIN lines |->
                   Entry(lines[l].item, o, <<tag, o, l>>, sign * lines[l].quantity)]
           rows == Rows(o, lines, tag, sign)
<1>1. \A l \in DOMAIN lines : lines[l].quantity \in Nat /\ lines[l].item \in Items
  BY LinesFinite
<1>2. \A l \in DOMAIN lines :
        /\ b[l].item = lines[l].item /\ b[l].order = o /\ b[l].tag = <<tag, o, l>>
        /\ b[l].delta = (IF sign = 1 THEN lines[l].quantity ELSE - lines[l].quantity)
  BY <1>1 DEF Entry
<1>3. rows = {b[l] : l \in DOMAIN lines} /\ DOMAIN b = DOMAIN lines
  BY DEF Rows
<1> HIDE DEF b, rows
<1>4. IsFiniteSet(rows)
  <2>1. b \in Surjection(DOMAIN lines, rows)
    <3>1. b = [l \in DOMAIN lines |-> b[l]]
      BY DEF b
    <3> QED
      BY <1>3, <3>1 DEF Surjection
  <2> QED
    BY <2>1, LinesFinite, FS_Surjection
<1>5. \A e \in rows : e.item \in Items /\ e.delta \in Int /\ e.order = o /\ e.tag[1] = tag
  BY <1>1, <1>2, <1>3
<1>6. ASSUME NEW i \in Items
      PROVE  Net(On(i, rows)) = IF sign = 1 THEN Asked(lines, i) ELSE - Asked(lines, i)
  <2> DEFINE S == Of(lines, i)
             g == [e \in On(i, rows) |-> e.delta]
             q == [l \in DOMAIN lines |-> lines[l].quantity]
             f == [l \in DOMAIN lines |-> b[l].delta]
  <2>1. On(i, rows) = {b[l] : l \in S} /\ S \in SUBSET DOMAIN lines /\ IsFiniteSet(S)
    BY <1>2, <1>3, LinesFinite DEF On, Of
  <2>2. \A l \in S : g[b[l]] = f[l]
    BY <2>1
  <2>3. \A l, m \in S : b[l] = b[m] => l = m
    <3> TAKE l, m \in S
    <3>1. b[l] = b[m] => b[l].tag[3] = b[m].tag[3]
      OBVIOUS
    <3>2. b[l].tag = <<tag, o, l>> /\ b[m].tag = <<tag, o, m>>
      BY <1>2, <2>1
    <3> QED
      BY <3>1, <3>2
  <2>4. /\ Numbers(f, S) /\ Numbers(q, S)
        /\ \A l \in S : f[l] = IF sign = 1 THEN q[l] ELSE - q[l]
    BY <1>1, <1>2, <2>1 DEF Numbers
  <2> HIDE DEF g, f, q, S
  <2>5. Total(g, On(i, rows)) = Total(f, S)
    BY <2>1, <2>2, <2>3, <2>4, TotalSame
  <2>6. Total(f, S) = IF sign = 1 THEN Total(q, S) ELSE - Total(q, S)
    <3>1. CASE sign = 1
      BY <2>1, <2>4, <3>1, TotalEqual
    <3>2. CASE sign # 1
      BY <2>1, <2>4, <3>2, TotalNegated
    <3> QED
      BY <3>1, <3>2
  <2> QED
    BY <2>5, <2>6 DEF Net, Asked, g, q, S
<1> QED
  BY <1>4, <1>5, <1>6 DEF Countable, rows

LEMMA ReservationMoves ==
  ASSUME NEW o, NEW lines \in Seq(Line)
  PROVE  LET new == Rows(o, lines, "reservation", -1)
         IN /\ Countable(new) /\ \A e \in new : e.order = o /\ e.tag[1] = "reservation"
            /\ \A i \in Items : Net(On(i, new)) = - Asked(lines, i)
<1>1. PICK sign \in {-1, 1} : sign = -1 /\ sign # 1
  OBVIOUS
<1>2. LET new == Rows(o, lines, "reservation", sign)
      IN /\ Countable(new) /\ \A e \in new : e.order = o /\ e.tag[1] = "reservation"
         /\ \A i \in Items : Net(On(i, new)) = - Asked(lines, i)
  BY <1>1, RowsMove
<1> QED
  BY <1>1, <1>2

LEMMA ReleaseMoves ==
  ASSUME NEW o, NEW lines \in Seq(Line)
  PROVE  LET new == Rows(o, lines, "release", 1)
         IN /\ Countable(new) /\ \A e \in new : e.order = o /\ e.tag[1] = "release"
            /\ \A i \in Items : Net(On(i, new)) = Asked(lines, i)
<1>1. PICK tag : tag = "release"
  OBVIOUS
<1>2. PICK sign \in {-1, 1} : sign = 1
  OBVIOUS
<1> DEFINE new == Rows(o, lines, tag, sign)
<1>3. Countable(new) /\ \A e \in new : e.order = o /\ e.tag[1] = tag
  BY RowsMove
<1>4. \A i \in Items : Net(On(i, new)) = IF sign = 1 THEN Asked(lines, i) ELSE - Asked(lines, i)
  BY RowsMove
<1> QED
  BY <1>1, <1>2, <1>3, <1>4

-----------------------------------------------------------------------------
(***************************************************************************)
(* Steps of the stock.                                                     *)
(***************************************************************************)
\* New rows move the stock of every item by what they say.
LEMMA LedgerGrows ==
  ASSUME StockInv, WorkChosen, work' = work, NEW new, Countable(new), new \cap ledger = {},
         ledger' = ledger \cup new,
         \A i \in Items : /\ item'[i].stock \in Nat
                          /\ item'[i].stock = item[i].stock + Net(On(i, new))
  PROVE  Countable(ledger)' /\ Stocked'
<1>1. Countable(ledger')
  BY FS_Union DEF StockInv, Countable
<1>2. ASSUME NEW i \in Items
      PROVE  item'[i].stock = work.supply + Net(On(i, ledger'))
  <2>1. On(i, ledger') = On(i, ledger) \cup On(i, new) /\ On(i, ledger) \cap On(i, new) = {}
    BY DEF On
  <2>2. /\ On(i, ledger) \in SUBSET ledger /\ On(i, new) \in SUBSET new
        /\ \A e \in On(i, ledger) \cup On(i, new) : e.delta \in Int
    BY DEF On, StockInv, Countable
  <2>3. /\ IsFiniteSet(On(i, ledger)) /\ Net(On(i, ledger)) \in Int
        /\ IsFiniteSet(On(i, new)) /\ Net(On(i, new)) \in Int
    BY <2>2, NetInt DEF StockInv
  <2>4. Net(On(i, ledger')) = Net(On(i, ledger)) + Net(On(i, new))
    BY <2>1, <2>2, <2>3, NetUnion
  <2>5. work.supply \in Int
    BY RestaurantAssumption DEF WorkChosen
  <2>6. item[i].stock = work.supply + Net(On(i, ledger))
    BY DEF StockInv, Stocked
  <2>7. item'[i].stock = item[i].stock + Net(On(i, new))
    OBVIOUS
  <2> QED
    BY <2>3, <2>4, <2>5, <2>6, <2>7
<1> QED
  BY <1>1, <1>2 DEF Stocked

\* One order changes, and the new rows are those its new stage calls for.
LEMMA OrderReserved ==
  ASSUME Inv, StockInv, NEW o \in Orders, NEW row, orders' = [orders EXCEPT ![o] = row],
         NEW new, ledger' = ledger \cup new, \A e \in new : e.order = o,
         Held(o, orders[o]) \cup new = Held(o, row), row.total = Cost(row.lines)
  PROVE  Reserved'
<1>1. \A p \in Orders : orders'[p] = IF p = o THEN row ELSE orders[p]
  BY DEF Inv, RowsTyped
<1>2. \A p \in Orders : Entries(p, ledger') = IF p = o THEN Entries(p, ledger) \cup new
                                                       ELSE Entries(p, ledger)
  BY DEF Entries
<1>3. \A p \in Orders : /\ Entries(p, ledger) = Held(p, orders[p])
                        /\ orders[p].total = Cost(orders[p].lines)
  BY DEF StockInv, Reserved
<1>4. \A p \in Orders : /\ Entries(p, ledger') = Held(p, orders'[p])
                        /\ orders'[p].total = Cost(orders'[p].lines)
  BY <1>1, <1>2, <1>3
<1> QED
  BY <1>4 DEF Reserved

\* A command that ends leaves none in flight; one that begins adjusts by an integer.
LEMMA RequestEnds ==
  ASSUME Inv, StockInv, NEW k \in Clients, req' = [req EXCEPT ![k] = Idle]
  PROVE  AdjustmentsFit'
<1>1. \A j \in Clients : InFlight(j)' = IF j = k THEN NoCommand ELSE InFlight(j)
  BY DEF InFlight, Idle, Inv, RequestsFit
<1>2. NoCommand.op # "stock"
  BY DEF NoCommand
<1> QED
  BY <1>1, <1>2 DEF AdjustmentsFit, StockInv

LEMMA BeginStock ==
  ASSUME Inv, StockInv, work' = work, NEW k \in Clients, NEW command, NEW staged,
         Begin(k, command, staged), command.op = "stock" => command.amount \in Int
  PROVE  StockInv'
<1>1. req' = [req EXCEPT ![k] = [command |-> command, staged |-> staged]]
  BY DEF Begin
<1>2. \A j \in Clients : InFlight(j)' = IF j = k THEN command ELSE InFlight(j)
  BY <1>1 DEF InFlight, Inv, RequestsFit
<1>3. AdjustmentsFit'
  BY <1>2 DEF AdjustmentsFit, StockInv
<1>4. UNCHANGED <<orders, item, ledger>>
  BY DEF Begin
<1> QED
  BY <1>3, <1>4 DEF StockInv, Stocked, Reserved, Entries, On

\* No row, no stock: an order moves on, or nothing does.
LEMMA NothingMoves ==
  ASSUME StockInv, work' = work, UNCHANGED <<item, ledger>>
  PROVE  Countable(ledger)' /\ Stocked'
  BY DEF StockInv, Stocked, On

\* The row an order's command writes.
LEMMA RowWritten ==
  ASSUME Inv, NEW k \in Clients, InFlight(k).op \in OrderOps,
         NEW o \in Orders, o = Subject(InFlight(k)), NEW order \in OrderRow,
         UpdateOrder(o, InFlight(k).version, order)
  PROVE  \E row \in OrderRow :
           /\ orders' = [orders EXCEPT ![o] = row]
           /\ row.status = order.status /\ row.payment = order.payment
           /\ row.total = order.total /\ row.lines = order.lines
<1> DEFINE row == Risen(order, InFlight(k).version + 1)
<1>1. InFlight(k).version + 1 \in Nat
  BY CurrentCommand DEF UpdateOrder
<1>2. orders' = [orders EXCEPT ![o] = row]
  BY DEF UpdateOrder, Risen
<1>3. /\ row \in OrderRow /\ row.status = order.status /\ row.payment = order.payment
      /\ row.total = order.total /\ row.lines = order.lines
  BY <1>1, RowRises
<1> HIDE DEF row
<1> QED
  BY <1>2, <1>3

\* A command of an order that takes no stock: the stages before and after it hold the
\* same of the ledger.
LEMMA OrderStock ==
  ASSUME Inv, StockInv, work' = work, NEW k \in Clients, InFlight(k).op \in OrderOps,
         Succeed(k), NEW o \in Orders, o = Subject(InFlight(k)), NEW order \in OrderRow,
         UpdateOrder(o, InFlight(k).version, order), UNCHANGED <<item, ledger>>,
         Held(o, order) = Held(o, orders[o]), order.total = Cost(order.lines)
  PROVE  StockInv'
<1>1. PICK row \in OrderRow : /\ orders' = [orders EXCEPT ![o] = row]
                              /\ row.status = order.status /\ row.payment = order.payment
                              /\ row.total = order.total /\ row.lines = order.lines
  BY RowWritten
<1>2. Held(o, row) = Held(o, order)
  BY <1>1 DEF Held, Reservation, Release
<1>3. Reserved'
  <2> DEFINE new == {}
  <2>1. ledger' = ledger \cup new /\ \A e \in new : e.order = o
    OBVIOUS
  <2>2. Held(o, orders[o]) \cup new = Held(o, row) /\ row.total = Cost(row.lines)
    BY <1>1, <1>2
  <2> HIDE DEF new
  <2> QED
    BY <1>1, <2>1, <2>2, OrderReserved
<1> QED
  BY <1>3, NothingMoves, RequestEnds DEF StockInv, Succeed

\* A command that is still current: its order, its stage and what is held for it.
LEMMA OrderNow ==
  ASSUME Inv, StockInv, NEW k \in Clients, InFlight(k).op \in OrderOps,
         NEW o, o = Subject(InFlight(k)), StillAtVersion(o, InFlight(k).version)
  PROVE  /\ o \in Orders /\ Current(InFlight(k), orders[o])
         /\ orders[o] \in OrderRow /\ orders[o].lines \in Seq(Line) /\ orders[o].total \in Int
         /\ orders[o].total = Cost(orders[o].lines)
         /\ Entries(o, ledger) = Held(o, orders[o])
<1>1. o \in Orders /\ Current(InFlight(k), orders[o])
  BY CurrentCommand
<1>2. orders[o] \in OrderRow
  BY <1>1, SettledNow
<1>3. orders[o].lines \in Seq(Line) /\ orders[o].total \in Int
  BY <1>2 DEF OrderRow
<1> QED
  BY <1>1, <1>2, <1>3 DEF StockInv, Reserved

LEMMA AddLineStock ==
  ASSUME Inv, StockInv, work' = work, NEW k \in Clients, AddLine(k)
  PROVE  StockInv'
<1> DEFINE c == InFlight(k)
           o == c.target
           line == [item |-> c.item, quantity |-> c.amount]
           lines == Append(orders[o].lines, line)
           total == orders[o].total + c.amount
           order == Edited(orders[o], total, lines)
<1>1. c.op = "add" /\ o = Subject(c) /\ UpdateOrder(o, c.version, order) /\ Succeed(k)
  BY DEF AddLine, Commits, Subject, Edited
<1>2. /\ o \in Orders /\ orders[o] \in OrderRow /\ orders[o].lines \in Seq(Line)
      /\ orders[o].total = Cost(orders[o].lines) /\ Expected("add", orders[o].status)
  BY <1>1, OrderNow DEF OrderOps, Current, UpdateOrder
<1>3. c.item \in Items /\ c.amount \in Nat
  BY <1>1, CurrentCommand DEF OrderOps, UpdateOrder
<1>4. orders[o].status = "cart"
  BY <1>2 DEF Expected, Events
<1>5. line \in Line /\ line.quantity = c.amount
  BY <1>3 DEF Line
<1> HIDE DEF line
<1>6. lines \in Seq(Line) /\ Cost(lines) = total /\ total \in Int
  <2>1. lines \in Seq(Line)
    BY <1>2, <1>5
  <2>2. Cost(lines) = Cost(orders[o].lines) + line.quantity
    BY <1>2, <1>5, AppendAsks
  <2>3. Cost(lines) \in Int
    BY <2>1, CostInt
  <2> QED
    BY <1>2, <1>5, <2>1, <2>2, <2>3
<1> HIDE DEF lines, total
<1>7. /\ order \in OrderRow /\ order.status = orders[o].status
      /\ order.total = total /\ order.lines = lines
  BY <1>2, <1>6, CartEdited
<1> HIDE DEF order
<1>8. Held(o, order) = Held(o, orders[o])
  BY <1>4, <1>7 DEF Held
<1>9. UNCHANGED <<item, ledger>>
  BY DEF AddLine
<1> QED
  BY <1>1, <1>2, <1>6, <1>7, <1>8, <1>9, OrderStock DEF OrderOps

LEMMA UpdateLineStock ==
  ASSUME Inv, StockInv, work' = work, NEW k \in Clients, UpdateLine(k)
  PROVE  StockInv'
<1> DEFINE c == InFlight(k)
           o == c.target[1]
           l == c.target[2]
           old == orders[o].lines[l]
           lines == [orders[o].lines EXCEPT ![l] = [item |-> old.item, quantity |-> c.amount]]
           total == orders[o].total + c.amount - old.quantity
           order == Edited(orders[o], total, lines)
<1>1. c.op = "update" /\ o = Subject(c) /\ Succeed(k) /\ StillAtVersion(o, c.version)
  BY DEF UpdateLine, Commits, Subject, UpdateOrder
<1>2. /\ o \in Orders /\ orders[o] \in OrderRow /\ orders[o].lines \in Seq(Line)
      /\ orders[o].total \in Int /\ orders[o].total = Cost(orders[o].lines)
      /\ Expected("update", orders[o].status) /\ l \in DOMAIN orders[o].lines
  BY <1>1, OrderNow DEF OrderOps, Current
<1>3. c.amount \in Nat /\ old.item \in Items /\ old.quantity \in Nat
      /\ old = [item |-> old.item, quantity |-> old.quantity]
  <2>1. c.amount \in Nat
    BY <1>1, CurrentCommand DEF OrderOps
  <2>2. old \in Line
    <3> HIDE DEF c, o, l
    <3> QED
      BY <1>2
  <2> HIDE DEF old
  <2> QED
    BY <2>1, <2>2 DEF Line
<1>4. orders[o].status = "cart"
  BY <1>2 DEF Expected, Events
<1>5. UpdateOrder(o, c.version, order)
  <2>1. [old EXCEPT !.quantity = c.amount] = [item |-> old.item, quantity |-> c.amount]
    <3> HIDE DEF old, c
    <3> QED
      BY <1>3
  <2>2. UpdateOrder(o, c.version,
          [orders[o] EXCEPT !.total = total,
             !.lines = [orders[o].lines EXCEPT ![l] = [old EXCEPT !.quantity = c.amount]]])
    BY DEF UpdateLine
  <2> QED
    BY <2>1, <2>2 DEF Edited
<1>6. lines \in Seq(Line) /\ Cost(lines) = total /\ total \in Int
  <2>1. [item |-> old.item, quantity |-> c.amount] \in Line
    BY <1>3 DEF Line
  <2>2. lines \in Seq(Line)
    BY <1>2, <2>1
  <2>3. Cost(lines) = Cost(orders[o].lines) + (c.amount - old.quantity)
    BY <1>2, <1>3, UpdateAsks
  <2> HIDE DEF c, o, l, old, lines
  <2> QED
    BY <1>2, <1>3, <2>2, <2>3
<1> HIDE DEF lines, total
<1>7. /\ order \in OrderRow /\ order.status = orders[o].status
      /\ order.total = total /\ order.lines = lines
  BY <1>2, <1>6, CartEdited
<1> HIDE DEF order
<1>8. Held(o, order) = Held(o, orders[o])
  BY <1>4, <1>7 DEF Held
<1>9. UNCHANGED <<item, ledger>>
  BY DEF UpdateLine
<1> QED
  BY <1>1, <1>2, <1>5, <1>6, <1>7, <1>8, <1>9, OrderStock DEF OrderOps

\* The rows of an order that moves the stock, and the row of the order.
LEMMA OrderMovesStock ==
  ASSUME Inv, StockInv, WorkChosen, work' = work,
         NEW k \in Clients, InFlight(k).op \in OrderOps, Succeed(k),
         NEW o \in Orders, o = Subject(InFlight(k)), NEW order \in OrderRow,
         UpdateOrder(o, InFlight(k).version, order),
         NEW new, Countable(new), ledger' = ledger \cup new, \A e \in new : e.order = o,
         new \cap Held(o, orders[o]) = {}, Held(o, orders[o]) \cup new = Held(o, order),
         order.total = Cost(order.lines),
         \A i \in Items : /\ item'[i].stock \in Nat
                          /\ item'[i].stock = item[i].stock + Net(On(i, new))
  PROVE  StockInv'
<1>1. PICK row \in OrderRow : /\ orders' = [orders EXCEPT ![o] = row]
                              /\ row.status = order.status /\ row.payment = order.payment
                              /\ row.total = order.total /\ row.lines = order.lines
  BY RowWritten
<1>2. Held(o, row) = Held(o, order) /\ row.total = Cost(row.lines)
  BY <1>1 DEF Held, Reservation, Release
<1>3. Reserved'
  BY <1>1, <1>2, OrderReserved
<1>4. new \cap ledger = {}
  <2>1. Entries(o, ledger) = Held(o, orders[o])
    BY DEF StockInv, Reserved
  <2> QED
    BY <2>1 DEF Entries
<1>5. Countable(ledger)' /\ Stocked'
  BY <1>4, LedgerGrows
<1>6. AdjustmentsFit'
  BY RequestEnds DEF Succeed
<1> QED
  BY <1>3, <1>5, <1>6 DEF StockInv

LEMMA StockSet ==
  ASSUME Inv, NEW i \in Items, NEW n
  PROVE  [item[i] EXCEPT !.stock = n].stock = n
  BY DEF Inv, ItemsTyped, ItemTable

LEMMA SubmitStock ==
  ASSUME Inv, StockInv, WorkChosen, work' = work, NEW k \in Clients, SubmitOrder(k)
  PROVE  StockInv'
<1> DEFINE c == InFlight(k)
           o == c.target
           order == [orders[o] EXCEPT !.status = "submitted"]
           lines == orders[o].lines
           new == Rows(o, lines, "reservation", -1)
<1>1. c.op = "submit" /\ o = Subject(c) /\ UpdateOrder(o, c.version, order) /\ Succeed(k)
  BY DEF SubmitOrder, Commits, Subject
<1>2. /\ o \in Orders /\ orders[o] \in OrderRow /\ lines \in Seq(Line)
      /\ orders[o].total = Cost(lines) /\ Expected("submit", orders[o].status)
  BY <1>1, OrderNow DEF OrderOps, Current, UpdateOrder
<1>3. orders[o].status = "cart"
  BY <1>2 DEF Expected, Events
<1>4. /\ order \in OrderRow /\ order.status = "submitted" /\ order.payment = orders[o].payment
      /\ order.total = orders[o].total /\ order.lines = lines
  <2>1. "submitted" \in Statuses
    BY DEF Statuses, Open
  <2> QED
    BY <1>2, <2>1, StageRow
<1>5. ledger' = ledger \cup new
  BY DEF SubmitOrder, LineEntries, Rows
<1>6. /\ Countable(new) /\ \A e \in new : e.order = o
      /\ \A i \in Items : Net(On(i, new)) = - Asked(lines, i)
  BY <1>2, ReservationMoves
<1>7. ASSUME NEW i \in Items
      PROVE  item'[i].stock \in Nat /\ item'[i].stock = item[i].stock + Net(On(i, new))
  <2>1. Demand(o, i) = Asked(lines, i) /\ Asked(lines, i) \in Nat
    BY <1>2, DemandIsAsked, AskedNat
  <2>2. item'[i].stock = item[i].stock - Demand(o, i)
    <3>1. item'[i] = [item[i] EXCEPT !.stock = item[i].stock - Demand(o, i)]
      BY DEF SubmitOrder
    <3> QED
      BY <3>1, StockSet
  <2>3. Demand(o, i) > 0 => item[i].stock >= Demand(o, i)
    BY DEF SubmitOrder, StockCovers
  <2>4. item[i].stock \in Nat
    BY DEF StockInv, Stocked
  <2>5. Net(On(i, new)) = - Asked(lines, i)
    BY <1>6
  <2> HIDE DEF c, o, order, lines, new
  <2> QED
    BY <2>1, <2>2, <2>3, <2>4, <2>5
<1> HIDE DEF order
<1>8. Held(o, orders[o]) = {} /\ Held(o, order) = new
  BY <1>3, <1>4 DEF Held, Reservation
<1> HIDE DEF new
<1>9. new \cap Held(o, orders[o]) = {} /\ Held(o, orders[o]) \cup new = Held(o, order)
  BY <1>8
<1>10. order.total = Cost(order.lines) /\ c.op \in OrderOps
  BY <1>1, <1>2, <1>4 DEF OrderOps
<1> HIDE DEF lines
<1> QED
  BY <1>1, <1>2, <1>4, <1>5, <1>6, <1>7, <1>9, <1>10, OrderMovesStock

LEMMA CancelStock ==
  ASSUME Inv, StockInv, WorkChosen, work' = work, NEW k \in Clients, CancelOrder(k)
  PROVE  StockInv'
<1> DEFINE c == InFlight(k)
           o == c.target
           payment == IF orders[o].status = "paid" THEN "reversal-requested"
                                                   ELSE orders[o].payment
           order == Moved(orders[o], "cancelled", payment)
           lines == orders[o].lines
           new == Rows(o, lines, "release", 1)
<1>1. c.op = "cancel" /\ o = Subject(c) /\ UpdateOrder(o, c.version, order) /\ Succeed(k)
  BY DEF CancelOrder, Commits, Subject, Moved
<1>2. /\ o \in Orders /\ orders[o] \in OrderRow /\ lines \in Seq(Line)
      /\ orders[o].total = Cost(lines) /\ Expected("cancel", orders[o].status)
  BY <1>1, OrderNow DEF OrderOps, Current, UpdateOrder
<1>3. orders[o].status \in {"submitted", "paid"}
  BY <1>2 DEF Expected, Events
<1>4. /\ orders[o].status = "submitted" => payment = "unpaid"
      /\ orders[o].status = "paid" => payment = "reversal-requested"
  BY <1>2, SettledNow DEF Settled
<1>5. payment \in {"unpaid", "paid", "reversal-requested"} /\ "cancelled" \in Statuses
  BY <1>3, <1>4 DEF Statuses
<1> HIDE DEF payment
<1>6. /\ order \in OrderRow /\ order.status = "cancelled" /\ order.payment = payment
      /\ order.total = orders[o].total /\ order.lines = lines
  BY <1>2, <1>5, OrderMoved, SMTT(30)
<1>7. order.total = Cost(order.lines) /\ c.op \in OrderOps
  BY <1>1, <1>2, <1>6 DEF OrderOps
<1>8. CASE orders[o].status = "paid"
  <2>1. UNCHANGED <<item, ledger>>
    BY <1>8 DEF CancelOrder
  <2> HIDE DEF order
  <2>2. Held(o, order) = Held(o, orders[o])
    BY <1>4, <1>6, <1>8 DEF Held, Reservation
  <2> QED
    BY <1>1, <1>2, <1>6, <1>7, <2>1, <2>2, OrderStock
<1>9. CASE orders[o].status = "submitted"
  <2>1. ledger' = ledger \cup new
    BY <1>9 DEF CancelOrder, LineEntries, Rows
  <2>2. /\ Countable(new) /\ \A e \in new : e.order = o /\ e.tag[1] = "release"
        /\ \A i \in Items : Net(On(i, new)) = Asked(lines, i)
    BY <1>2, ReleaseMoves
  <2>3. ASSUME NEW i \in Items
        PROVE  item'[i].stock \in Nat /\ item'[i].stock = item[i].stock + Net(On(i, new))
    <3>1. Demand(o, i) = Asked(lines, i) /\ Asked(lines, i) \in Nat
      BY <1>2, DemandIsAsked, AskedNat
    <3>2. item'[i].stock = item[i].stock + Demand(o, i)
      <4>1. item'[i] = [item[i] EXCEPT !.stock = item[i].stock + Demand(o, i)]
        BY <1>9 DEF CancelOrder
      <4> QED
        BY <4>1, StockSet
    <3>3. item[i].stock \in Nat
      BY DEF StockInv, Stocked
    <3>4. Net(On(i, new)) = Asked(lines, i)
      BY <2>2
    <3> HIDE DEF c, o, order, lines, new
    <3> QED
      BY <3>1, <3>2, <3>3, <3>4
  <2> DEFINE old == Rows(o, lines, "reservation", -1)
  <2> HIDE DEF order
  <2>4. Held(o, orders[o]) = old /\ Held(o, order) = old \cup new
    BY <1>4, <1>6, <1>9 DEF Held, Reservation, Release
  <2>5. \A e \in old : e.tag[1] = "reservation"
    BY <1>2, ReservationMoves
  <2> HIDE DEF old, new
  <2>6. new \cap Held(o, orders[o]) = {} /\ Held(o, orders[o]) \cup new = Held(o, order)
    BY <2>2, <2>4, <2>5
  <2>7. \A e \in new : e.order = o
    BY <2>2
  <2> HIDE DEF lines
  <2> QED
    BY <1>1, <1>2, <1>6, <1>7, <2>1, <2>2, <2>3, <2>6, <2>7, OrderMovesStock
<1> QED
  BY <1>3, <1>8, <1>9

LEMMA PaymentStock ==
  ASSUME Inv, StockInv, work' = work, NEW k \in Clients, RecordPayment(k)
  PROVE  StockInv'
<1> DEFINE c == InFlight(k)
           o == c.target
           order == Moved(orders[o], "paid", "paid")
<1>1. c.op = "pay" /\ o = Subject(c) /\ UpdateOrder(o, c.version, order) /\ Succeed(k)
  BY DEF RecordPayment, Commits, Subject, Moved
<1>2. /\ o \in Orders /\ orders[o] \in OrderRow
      /\ orders[o].total = Cost(orders[o].lines) /\ Expected("pay", orders[o].status)
  BY <1>1, OrderNow DEF OrderOps, Current, UpdateOrder
<1>3. orders[o].status = "submitted" /\ "paid" \in Statuses
  BY <1>2 DEF Expected, Events, Statuses, Open
<1>4. /\ order \in OrderRow /\ order.status = "paid"
      /\ order.total = orders[o].total /\ order.lines = orders[o].lines
  BY <1>2, <1>3, OrderMoved, SMTT(30)
<1> HIDE DEF order
<1>5. Held(o, order) = Held(o, orders[o])
  BY <1>3, <1>4 DEF Held, Reservation
<1>6. UNCHANGED <<item, ledger>>
  BY DEF RecordPayment
<1> QED
  BY <1>1, <1>2, <1>4, <1>5, <1>6, OrderStock DEF OrderOps

\* The kitchen's events and the serving of an order.
LEMMA StageStock ==
  ASSUME Inv, StockInv, work' = work, NEW k \in Clients,
         (\E event \in Events : TransitionKitchenTicket(k, event)) \/ ServeOrder(k)
  PROVE  StockInv'
<1> DEFINE c == InFlight(k)
           o == c.target
<1>1. PICK stage \in Statuses :
        /\ c.op \in Events \cup {"serve"} /\ Succeed(k) /\ UNCHANGED <<item, ledger>>
        /\ UpdateOrder(o, c.version, [orders[o] EXCEPT !.status = stage])
        /\ stage \notin {"none", "cart", "cancelled"}
  <2>1. CASE ServeOrder(k)
    <3>1. "served" \in Statuses
      BY DEF Statuses
    <3> QED
      BY <2>1, <3>1 DEF ServeOrder, Commits
  <2>2. ASSUME NEW event \in Events, TransitionKitchenTicket(k, event)
        PROVE  \E stage \in Statuses :
                 /\ c.op \in Events \cup {"serve"} /\ Succeed(k) /\ UNCHANGED <<item, ledger>>
                 /\ UpdateOrder(o, c.version, [orders[o] EXCEPT !.status = stage])
                 /\ stage \notin {"none", "cart", "cancelled"}
    <3>1. After[event] \in {"accepted", "preparing", "ready"}
      BY DEF Events, After
    <3>2. After[event] \in Statuses
      BY <3>1 DEF Statuses, Open
    <3> QED
      BY <2>2, <3>1, <3>2 DEF TransitionKitchenTicket, Commits
  <2> QED
    BY <2>1, <2>2
<1> DEFINE order == [orders[o] EXCEPT !.status = stage]
<1>2. o = Subject(c) /\ c.op \in OrderOps
  BY <1>1 DEF Subject, OrderOps, Events
<1>3. /\ o \in Orders /\ orders[o].total = Cost(orders[o].lines)
      /\ Expected(c.op, orders[o].status)
  BY <1>1, <1>2, OrderNow DEF Current, UpdateOrder
<1>4. orders[o].status \in {"paid", "accepted", "preparing", "ready"}
  BY <1>1, <1>3 DEF Expected, Events, Before
<1>5. /\ order \in OrderRow /\ order.status = stage
      /\ order.total = orders[o].total /\ order.lines = orders[o].lines
  BY <1>3, StageRow
<1>6. UpdateOrder(o, c.version, order)
  BY <1>1
<1> HIDE DEF order
<1>7. Held(o, order) = Held(o, orders[o])
  BY <1>1, <1>4, <1>5 DEF Held, Reservation
<1> QED
  BY <1>1, <1>2, <1>3, <1>5, <1>6, <1>7, OrderStock

LEMMA ResolveStock ==
  ASSUME Inv, StockInv, work' = work, NEW k \in Clients, ResolveTableSession(k)
  PROVE  StockInv'
<1> DEFINE c == InFlight(k)
<1>1. Succeed(k) /\ UNCHANGED <<item, ledger>>
  BY DEF ResolveTableSession
<1>2. Countable(ledger)' /\ Stocked' /\ AdjustmentsFit'
  BY <1>1, NothingMoves, RequestEnds DEF Succeed
<1>3. CASE UNCHANGED orders
  BY <1>1, <1>2, <1>3 DEF StockInv, Reserved, Entries
<1>4. ASSUME NEW o \in Orders, orders[o] = NoOrder,
             orders' = [orders EXCEPT ![o].session = c.target, ![o].status = "cart"]
      PROVE  StockInv'
  <2> DEFINE cart == [NoOrder EXCEPT !.session = c.target, !.status = "cart"]
             new == {}
  <2>1. orders' = [orders EXCEPT ![o] = cart]
    BY <1>4 DEF NoOrder
  <2>2. /\ cart.status = "cart" /\ cart.total = NoOrder.total /\ cart.lines = NoOrder.lines
        /\ NoOrder.status = "none"
    BY DEF NoOrder
  <2> HIDE DEF cart
  <2>3. Held(o, orders[o]) \cup new = Held(o, cart)
    BY <1>4, <2>2 DEF Held
  <2>4. cart.total = Cost(cart.lines)
    BY <1>4, <2>2 DEF StockInv, Reserved
  <2>5. ledger' = ledger \cup new /\ \A e \in new : e.order = o
    BY <1>1
  <2> HIDE DEF new
  <2>6. Reserved'
    BY <2>1, <2>3, <2>4, <2>5, OrderReserved
  <2> QED
    BY <1>2, <2>6 DEF StockInv
<1> QED
  BY <1>3, <1>4 DEF ResolveTableSession

LEMMA ManagerStock ==
  ASSUME Inv, StockInv, WorkChosen, work' = work, NEW k \in Clients,
         SetMenuItemAvailability(k) \/ AdjustMenuItemStock(k)
  PROVE  StockInv'
<1> DEFINE c == InFlight(k)
           t == c.target
           n == IF c.op = "stock" THEN c.amount ELSE 0
           row == Entry(t, None, <<"manager", c.key>>, n)
           new == {row}
<1>1. /\ c.op \in ManagerOps /\ Succeed(k) /\ UNCHANGED orders
      /\ TagFree(<<"manager", c.key>>) /\ ledger' = ledger \cup new
  BY DEF SetMenuItemAvailability, AdjustMenuItemStock, Commits, ManagerOps
<1>2. t \in Items /\ n \in Int
  BY <1>1 DEF Inv, RequestsFit, Fits, ManagerFits, InFlight, StockInv, AdjustmentsFit
<1>3. ASSUME NEW i \in Items
      PROVE  /\ item'[i].stock \in Nat
             /\ item'[i].stock = item[i].stock + (IF i = t THEN n ELSE 0)
  <2>0. \A j \in Items : item[j].stock \in Nat
    BY DEF StockInv, Stocked
  <2>1. PICK stock : \E available \in [Items -> BOOLEAN] : \E version \in [Items -> 0 .. MaxItem] :
          item = ItemTable(stock, available, version)
    BY DEF Inv, ItemsTyped
  <2>2. PICK available \in [Items -> BOOLEAN] : \E version \in [Items -> 0 .. MaxItem] :
          item = ItemTable(stock, available, version)
    BY <2>1
  <2>3. PICK version \in [Items -> 0 .. MaxItem] : item = ItemTable(stock, available, version)
    BY <2>2
  <2>4. CASE SetMenuItemAvailability(k)
    <3>1. c.op = "availability"
      BY <2>4 DEF SetMenuItemAvailability, Commits
    <3>2. item' = [item EXCEPT ![t].available = (c.amount = 1), ![t].version = c.version + 1]
      BY <2>4 DEF SetMenuItemAvailability
    <3>3. item'[i].stock = item[i].stock
      BY <1>2, <2>3, <3>2 DEF ItemTable
    <3> QED
      BY <2>0, <3>1, <3>3
  <2>5. CASE AdjustMenuItemStock(k)
    <3>1. c.op = "stock" /\ item[t].stock >= - c.amount
      BY <2>5 DEF AdjustMenuItemStock, Commits, StockCovers
    <3>2. item' = [item EXCEPT ![t].stock = @ + c.amount, ![t].version = c.version + 1]
      BY <2>5 DEF AdjustMenuItemStock
    <3>3. item'[i].stock = IF i = t THEN item[i].stock + c.amount ELSE item[i].stock
      BY <1>2, <2>3, <3>2 DEF ItemTable
    <3>4. n = c.amount /\ c.amount \in Int
      BY <1>2, <3>1
    <3> HIDE DEF c, t, n
    <3> QED
      BY <2>0, <3>1, <3>3, <3>4
  <2> QED
    BY <2>4, <2>5
<1>4. row.item = t /\ row.delta = n /\ row.order = None /\ row.tag = <<"manager", c.key>>
  BY DEF Entry
<1> HIDE DEF row
<1>5. new \cap ledger = {}
  BY <1>1, <1>4 DEF TagFree
<1>6. Countable(new)
  BY <1>2, <1>4, FS_Singleton DEF Countable
<1>7. ASSUME NEW i \in Items PROVE Net(On(i, new)) = IF i = t THEN n ELSE 0
  <2>1. On(i, new) = IF i = t THEN {row} ELSE {}
    BY <1>4 DEF On
  <2> HIDE DEF n, new
  <2> QED
    BY <1>2, <1>4, <2>1, NetOne, NetNone
<1>8. Countable(ledger)' /\ Stocked'
  <2> HIDE DEF n, new
  <2> QED
    BY <1>1, <1>3, <1>5, <1>6, <1>7, LedgerGrows
<1>9. Reserved'
  <2>1. \A o \in Orders : Entries(o, ledger') = Entries(o, ledger)
    BY <1>1, <1>4, RestaurantAssumption DEF Entries
  <2> QED
    BY <1>1, <2>1 DEF StockInv, Reserved
<1>10. AdjustmentsFit'
  BY <1>1, RequestEnds DEF Succeed
<1> QED
  BY <1>8, <1>9, <1>10 DEF StockInv

LEMMA BeginsStock ==
  ASSUME Inv, StockInv, WorkChosen, work' = work, NEW k \in Clients, NEW key,
         Begins(k, key)
  PROVE  StockInv'
<1>1. \A n \in Quantities \cup {-m : m \in Quantities} : n \in Int
  BY RestaurantAssumption DEF Quantities, WorkChosen
<1>2. \E command, staged : /\ Begin(k, command, staged)
                           /\ command.op = "stock" => command.amount \in Int
  <2>1. ASSUME NEW op, NEW target, NEW version, NEW i, NEW n, NEW staged,
               Begin(k, Command(op, target, key, version, i, n), staged),
               op = "stock" => n \in Int
        PROVE  \E command, s : /\ Begin(k, command, s)
                               /\ command.op = "stock" => command.amount \in Int
    BY <2>1 DEF Command
  <2>2. ASSUME NEW s \in Sessions, BeginResolve(k, s, key)
        PROVE  \E command, t : /\ Begin(k, command, t)
                               /\ command.op = "stock" => command.amount \in Int
    BY <2>1, <2>2 DEF BeginResolve
  <2>3. ASSUME NEW event \in {"open", "seat", "close"}, NEW v, BeginTable(k, event, key, v)
        PROVE  \E command, t : /\ Begin(k, command, t)
                               /\ command.op = "stock" => command.amount \in Int
    BY <2>1, <2>3 DEF BeginTable
  <2>4. ASSUME NEW i, NEW v, NEW n, NEW op, BeginManager(k, op, i, key, v, n),
               op = "stock" => n \in Int
        PROVE  \E command, t : /\ Begin(k, command, t)
                               /\ command.op = "stock" => command.amount \in Int
    BY <2>1, <2>4 DEF BeginManager
  <2>5. ASSUME NEW op, NEW o, NEW v, NEW i, NEW n, BeginOrder(k, op, o, key, v, i, n),
               op # "stock"
        PROVE  \E command, t : /\ Begin(k, command, t)
                               /\ command.op = "stock" => command.amount \in Int
    BY <2>1, <2>5 DEF BeginOrder
  <2>6. ASSUME NEW o, NEW l, NEW v, NEW n, BeginUpdateLine(k, o, l, key, v, n)
        PROVE  \E command, t : /\ Begin(k, command, t)
                               /\ command.op = "stock" => command.amount \in Int
    BY <2>1, <2>6 DEF BeginUpdateLine
  <2>7. ASSUME NEW o \in Orders, NEW v,
               \/ \E i \in Items, n \in Quantities : BeginAddLine(k, o, key, v, i, n)
               \/ BeginSubmit(k, o, key, v) \/ BeginPayment(k, o, key, v)
               \/ BeginCancel(k, o, key, v) \/ BeginServe(k, o, key, v)
               \/ \E event \in Events : BeginKitchen(k, o, event, key, v)
        PROVE  \E command, t : /\ Begin(k, command, t)
                               /\ command.op = "stock" => command.amount \in Int
    <3>1. \E op, i, n : BeginOrder(k, op, o, key, v, i, n) /\ op # "stock"
      BY <2>7 DEF BeginAddLine, BeginSubmit, BeginPayment, BeginCancel, BeginServe,
                  BeginKitchen, Events
    <3> QED
      BY <2>5, <3>1
  <2> HIDE DEF Events
  <2> QED
    BY <1>1, <2>2, <2>3, <2>4, <2>6, <2>7 DEF Begins
<1> QED
  BY <1>2, BeginStock

LEMMA InitStock == Init => StockInv
<1> SUFFICES ASSUME Init PROVE StockInv
  OBVIOUS
<1>1. work.supply \in Nat
  BY RestaurantAssumption DEF Init
<1>2. Countable(ledger) /\ \A i : On(i, ledger) = {}
  BY FS_EmptySet DEF Init, Countable, On
<1>3. Stocked
  <2>1. \A i \in Items : Net(On(i, ledger)) = 0 /\ item[i].stock = work.supply
    BY <1>2, NetNone DEF Init
  <2> QED
    BY <1>1, <2>1 DEF Stocked
<1>4. Reserved
  <2> DEFINE none == <<>>
  <2>1. none \in Seq(Line) /\ \A i : Of(none, i) = {}
    BY DEF Of
  <2>2. \A i : Asked(none, i) = 0
    BY <2>1, TotalEmpty DEF Asked
  <2> DEFINE f == [i \in Items |-> Asked(none, i)]
  <2>3. /\ IsFiniteSet(Items) /\ Numbers(f, Items)
        /\ \A i \in Items : f[i] = - f[i]
    BY <2>2, RestaurantAssumption DEF Numbers
  <2> HIDE DEF f
  <2>4. Total(f, Items) = - Total(f, Items) /\ Total(f, Items) \in Int
    BY <2>3, TotalNegated, TotalInt
  <2>5. Cost(none) = 0
    BY <2>4 DEF Cost, f
  <2>6. NoOrder.lines = none /\ NoOrder.total = 0 /\ NoOrder.status = "none"
    BY DEF NoOrder
  <2> HIDE DEF none
  <2> QED
    BY <2>5, <2>6 DEF Init, Reserved, Held, Entries
<1>5. AdjustmentsFit
  BY DEF Init, AdjustmentsFit, InFlight, Idle, NoCommand
<1> QED
  BY <1>2, <1>3, <1>4, <1>5 DEF StockInv

(* The inductive invariant of the stock.                                    *)
THEOREM StockInvariant == Spec => []StockInv
<1>1. ASSUME Inv, WorkChosen, StockInv, [Next]_vars PROVE StockInv'
  <2>1. CASE UNCHANGED vars
    BY <1>1, <2>1 DEF vars, StockInv, Stocked, Reserved, Entries, On, AdjustmentsFit, InFlight
  <2>2. CASE Next
    <3>1. work' = work
      BY <2>2 DEF Next
    <3>2. PICK k \in Clients : (\E key \in Keys : Begins(k, key)) \/ Ends(k)
      BY <2>2 DEF Next
    <3>3. CASE Rollback(k)
      <4>1. UNCHANGED <<orders, item, ledger>> /\ req' = [req EXCEPT ![k] = Idle]
        BY <3>3 DEF Rollback
      <4>2. AdjustmentsFit'
        BY <1>1, <4>1, RequestEnds
      <4> QED
        BY <1>1, <3>1, <4>1, <4>2 DEF StockInv, Stocked, Reserved, Entries, On
    <3>4. ASSUME NEW event, TransitionMerchantTable(k, event) PROVE StockInv'
      <4>1. UNCHANGED <<orders, item, ledger>> /\ req' = [req EXCEPT ![k] = Idle]
        BY <3>4 DEF TransitionMerchantTable, Succeed
      <4>2. AdjustmentsFit'
        BY <1>1, <4>1, RequestEnds
      <4> QED
        BY <1>1, <3>1, <4>1, <4>2 DEF StockInv, Stocked, Reserved, Entries, On
    <3>5. CASE \E key \in Keys : Begins(k, key)
      BY <1>1, <3>1, <3>5, BeginsStock
    <3>6. CASE Ends(k)
      BY <1>1, <3>1, <3>3, <3>4, <3>6, ResolveStock, ManagerStock, AddLineStock,
         UpdateLineStock, SubmitStock, PaymentStock, CancelStock, StageStock DEF Ends
    <3> QED
      BY <3>2, <3>5, <3>6
  <2> QED
    BY <1>1, <2>1, <2>2
<1> QED
  BY <1>1, InitStock, RestaurantInvariant, PTL DEF Spec

(* Whatever commands race for the stock, no item is sold that is not there, *)
(* and the ledger adds up (submitOrder, cancelOrder, adjustMenuItemStock).  *)
THEOREM StockIsAccounted == Spec => []StockAccounted
<1>1. ASSUME StockInv PROVE StockAccounted
  <2> SUFFICES ASSUME NEW i \in Items
               PROVE  /\ item[i].stock >= 0
                      /\ item[i].stock = work.supply + Balance({e \in ledger : e.item = i})
    BY DEF StockAccounted
  <2>1. Balance(On(i, ledger)) = Net(On(i, ledger))
    BY <1>1, NetInt, BalanceIsNet DEF StockInv, On
  <2> QED
    BY <1>1, <2>1 DEF StockInv, Stocked, On
<1> QED
  BY <1>1, StockInvariant, PTL

(* An order holds of every item what its lines ask for, and costs that.     *)
THEOREM OrdersHoldTheirLines == Spec => []ReservationMatchesOrder
<1>1. ASSUME Inv, StockInv PROVE ReservationMatchesOrder
  <2> SUFFICES ASSUME NEW o \in Orders
      PROVE  /\ orders[o].total = MapThenSumSet(LAMBDA i : Demand(o, i), Items)
             /\ \A i \in Items :
                  Balance({e \in ledger : e.order = o /\ e.item = i}) =
                    IF \/ orders[o].status \in {"none", "cart"}
                       \/ orders[o].status = "cancelled" /\ orders[o].payment = "unpaid"
                    THEN 0 ELSE - Demand(o, i)
    BY DEF ReservationMatchesOrder
  <2>1. orders[o].lines \in Seq(Line)
    BY <1>1, SettledNow DEF OrderRow
  <2>2. orders[o].total = MapThenSumSet(LAMBDA i : Demand(o, i), Items)
    BY <1>1, <2>1, DemandsAreCost DEF StockInv, Reserved
  <2>3. ASSUME NEW i \in Items
        PROVE  Balance({e \in ledger : e.order = o /\ e.item = i}) =
                 IF \/ orders[o].status \in {"none", "cart"}
                    \/ orders[o].status = "cancelled" /\ orders[o].payment = "unpaid"
                 THEN 0 ELSE - Demand(o, i)
    <3> DEFINE rows == {e \in ledger : e.order = o /\ e.item = i}
               held == Rows(o, orders[o].lines, "reservation", -1)
               free == Rows(o, orders[o].lines, "release", 1)
    <3>1. Balance(rows) = Net(rows)
      BY <1>1, NetInt, BalanceIsNet DEF StockInv
    <3>2. rows = On(i, Held(o, orders[o]))
      BY <1>1 DEF StockInv, Reserved, Entries, On
    <3>3. Demand(o, i) = Asked(orders[o].lines, i) /\ Asked(orders[o].lines, i) \in Nat
      BY <2>1, DemandIsAsked, AskedNat
    <3>4. /\ Countable(held) /\ \A e \in held : e.tag[1] = "reservation"
          /\ Net(On(i, held)) = - Asked(orders[o].lines, i)
      BY <2>1, ReservationMoves
    <3>5. /\ Countable(free) /\ \A e \in free : e.tag[1] = "release"
          /\ Net(On(i, free)) = Asked(orders[o].lines, i)
      BY <2>1, ReleaseMoves
    <3>6. Held(o, orders[o]) =
            (IF orders[o].status \in {"none", "cart"} THEN {} ELSE held) \cup
            (IF orders[o].status = "cancelled" /\ orders[o].payment = "unpaid"
             THEN free ELSE {})
      BY DEF Held, Reservation, Release
    <3> HIDE DEF rows, held, free
    <3>7. CASE orders[o].status \in {"none", "cart"}
      <4>1. rows = {}
        BY <3>2, <3>6, <3>7 DEF On
      <4> QED
        BY <3>1, <3>7, <4>1, NetNone DEF rows
    <3>8. CASE orders[o].status = "cancelled" /\ orders[o].payment = "unpaid"
      <4>1. rows = On(i, held) \cup On(i, free)
        BY <3>2, <3>6, <3>8 DEF On
      <4>2. /\ On(i, held) \cap On(i, free) = {}
            /\ \A e \in On(i, held) \cup On(i, free) : e.delta \in Int
            /\ On(i, held) \in SUBSET held /\ On(i, free) \in SUBSET free
        BY <3>4, <3>5 DEF On, Countable
      <4>3. IsFiniteSet(On(i, held)) /\ IsFiniteSet(On(i, free))
        BY <3>4, <3>5, <4>2, NetInt
      <4>4. Net(rows) = Net(On(i, held)) + Net(On(i, free))
        BY <4>1, <4>2, <4>3, NetUnion
      <4>5. Net(rows) = 0
        BY <3>3, <3>4, <3>5, <4>4
      <4> QED
        BY <3>1, <3>8, <4>5 DEF rows
    <3>9. CASE ~ \/ orders[o].status \in {"none", "cart"}
                 \/ orders[o].status = "cancelled" /\ orders[o].payment = "unpaid"
      <4>1. rows = On(i, held)
        BY <3>2, <3>6, <3>9 DEF On
      <4> QED
        BY <3>1, <3>3, <3>4, <3>9, <4>1 DEF rows
    <3> QED
      BY <3>7, <3>8, <3>9
  <2> QED
    BY <2>2, <2>3
<1> QED
  BY <1>1, StockInvariant, RestaurantInvariant, PTL
=============================================================================
