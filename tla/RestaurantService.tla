-------------------------- MODULE RestaurantService --------------------------
(***************************************************************************)
(* The command service of a generated Restaurant application               *)
(* (RestaurantCommandService, rendered by                                  *)
(* packages/compiler/src/restaurant-runtime.ts).                           *)
(*                                                                         *)
(* A command is one READ COMMITTED transaction in three parts: it inserts  *)
(* its RestaurantCommand row, which makes a command of the same scope and  *)
(* key wait; it reads and checks; it writes, each write conditional on     *)
(* the row's version or stock, and commits, or throws and leaves nothing.  *)
(* The writes of a transaction lock their rows until it ends, so they are  *)
(* one step with the commit, and what it read may be stale by then.        *)
(*                                                                         *)
(* Every item costs one.  The outbox, audit and capability rows, which     *)
(* commit with the change they record and are never read, are left out.    *)
(***************************************************************************)
EXTENDS Integers, Sequences, FiniteSets, FiniteSetsExt

CONSTANTS
  Orders,      \* order identities (cuid)
  Sessions,    \* table session identities (cuid)
  Items,       \* menu items
  Clients,     \* concurrent HTTP requests
  Keys,        \* idempotency keys
  None,
  MaxTable,    \* bound: version of the table
  MaxItem,     \* bound: version of a menu item
  Workloads    \* bound: the commands a behaviour is made of, the stock the items are
               \* seeded with, how often a cart is edited, and the largest quantity
               \* of a line or of an adjustment of the stock

ASSUME RestaurantAssumption ==
  /\ None \notin Orders \cup Sessions \cup Items
  /\ IsFiniteSet(Items)
  /\ MaxTable \in Nat /\ MaxItem \in Nat
  /\ Workloads \subseteq [commands : SUBSET STRING, supply : Nat, edits : Nat, quantity : Nat]

VARIABLES
  orders,     \* Order rows with their lines
  payments,   \* PaymentAttempt rows
  ticket,     \* status of the KitchenTicket of an order, "none" without one
  item,       \* MenuItem rows
  ledger,     \* InventoryLedger rows
  table,      \* the RestaurantTable row, of the one location
  session,    \* TableSession rows
  commands,   \* RestaurantCommand rows of committed commands
  req,        \* the command each client has in flight
  work        \* the workload of this behaviour (bound only)

vars == <<orders, payments, ticket, item, ledger, table, session, commands, req, work>>

Open    == {"cart", "submitted", "paid", "accepted", "preparing", "ready"}
Events  == {"accept", "start-preparing", "mark-ready"}
Before  == [e \in Events |-> CASE e = "accept" -> "paid"
                                [] e = "start-preparing" -> "accepted"
                                [] e = "mark-ready" -> "preparing"]
After   == [e \in Events |-> CASE e = "accept" -> "accepted"
                                [] e = "start-preparing" -> "preparing"
                                [] e = "mark-ready" -> "ready"]
Quantities == 1 .. work.quantity

NoOrder == [session |-> None, status |-> "none", payment |-> "unpaid",
            version |-> 0, total |-> 0, lines |-> <<>>]
NoCommand == [op |-> "none", target |-> None, key |-> None, version |-> 0,
              item |-> None, amount |-> 0]
Idle == [command |-> NoCommand, staged |-> {}]

Command(op, target, key, version, i, n) ==
  [op |-> op, target |-> target, key |-> key, version |-> version, item |-> i, amount |-> n]

InFlight(k) == req[k].command

(***************************************************************************)
(* executeCommand.  A key that succeeded is replayed, or refused when its  *)
(* payload differs; either way nothing is written.                         *)
(***************************************************************************)
\* Mutant of KeyFree: RestaurantCommand without @@unique([scope, idempotencyKey]).
KeyAny(op, target, key) == TRUE

KeyFree(op, target, key) ==
  \A c \in commands \cup {InFlight(k) : k \in Clients} :
    <<c.op, c.target, c.key>> # <<op, target, key>>

Begin(k, command, staged) ==
  /\ req[k] = Idle
  /\ command.op \in work.commands
  /\ KeyFree(command.op, command.target, command.key)
  /\ req' = [req EXCEPT ![k] = [command |-> command, staged |-> staged]]
  /\ UNCHANGED <<orders, payments, ticket, item, ledger, table, session, commands>>

Succeed(k) ==
  /\ commands' = commands \cup {InFlight(k)}
  /\ req' = [req EXCEPT ![k] = Idle]

\* A check or a conditional write fails, or the connection is lost: rolled back.
Rollback(k) ==
  /\ req[k] # Idle
  /\ req' = [req EXCEPT ![k] = Idle]
  /\ UNCHANGED <<orders, payments, ticket, item, ledger, table, session, commands>>

\* assertOrderSession: the order's table is active; a customer's session too.
TableActive == table.status # "closed"
Serves(s)   == TableActive /\ session[s] = "active"

\* orderAtVersion, then the compare and set of orderVersion that ends a command.
AtVersion(o, version) == orders[o].status # "none" /\ orders[o].version = version

\* Mutant of StillAtVersion: the update names the order by its id alone.
UpdateById(o, version) == TRUE

StillAtVersion(o, version) == orders[o].version = version

UpdateOrder(o, version, order) ==
  /\ StillAtVersion(o, version)
  /\ orders' = [orders EXCEPT ![o] = [order EXCEPT !.version = version + 1]]

BeginOrder(k, op, o, key, version, i, n) ==
  /\ AtVersion(o, version)
  /\ TableActive
  /\ Begin(k, Command(op, o, key, version, i, n), {})

Commits(k, op) == req[k] # Idle /\ InFlight(k).op = op

(***************************************************************************)
(* resolveTableSession: the newest open order of the session, or a new     *)
(* cart.  No constraint keeps two commands from each creating one.         *)
(***************************************************************************)
BeginResolve(k, s, key) ==
  /\ Serves(s)
  /\ LET open == {o \in Orders : orders[o].session = s /\ orders[o].status \in Open}
     IN Begin(k, Command("resolve", s, key, 0, None, 0), open)

ResolveTableSession(k) ==
  /\ Commits(k, "resolve")
  /\ IF req[k].staged # {}
     THEN UNCHANGED orders
     ELSE \E o \in Orders :
            /\ orders[o] = NoOrder
            /\ orders' = [orders EXCEPT ![o].session = InFlight(k).target,
                                        ![o].status = "cart"]
  /\ Succeed(k)
  /\ UNCHANGED <<payments, ticket, item, ledger, table, session>>

(***************************************************************************)
(* transitionMerchantTable: open, seat and close.  Closing updates the     *)
(* sessions it sees before it updates the table.                           *)
(***************************************************************************)
BeginTable(k, event, key, version) ==
  /\ table.version = version
  /\ version < MaxTable
  /\ event = "open" => table.status = "closed"
  /\ event = "seat" => table.status = "open"
  /\ Begin(k, Command(event, None, key, version, None, 0),
           IF event = "close" THEN {s \in Sessions : session[s] = "active"} ELSE {})

\* Mutant of TableStillAt: the table is updated by its id alone.
TableAnyVersion(version) == TRUE

TableStillAt(version) == table.version = version

TransitionMerchantTable(k, event) ==
  /\ event \in {"open", "seat", "close"}
  /\ Commits(k, event)
  /\ TableStillAt(InFlight(k).version)
  /\ IF event = "seat"
     THEN \E s \in Sessions : session[s] = "none"
                              /\ session' = [session EXCEPT ![s] = "active"]
     ELSE session' = [s \in Sessions |-> IF s \in req[k].staged THEN "closed"
                                                                 ELSE session[s]]
  /\ table' = [status |-> CASE event = "open" -> "open" [] event = "seat" -> "seated"
                            [] event = "close" -> "closed",
               version |-> InFlight(k).version + 1]
  /\ Succeed(k)
  /\ UNCHANGED <<orders, payments, ticket, item, ledger>>

(***************************************************************************)
(* The inventory.  A manager's row in the ledger carries the bare key,     *)
(* unique in the location for all items and both commands; those of an     *)
(* order carry its key and the line.                                       *)
(***************************************************************************)
Entry(i, o, tag, delta) == [item |-> i, order |-> o, tag |-> tag, delta |-> delta]

TagFree(tag) == \A e \in ledger : e.tag # tag

BeginManager(k, op, i, key, version, n) ==
  /\ item[i].version = version
  /\ version < MaxItem
  /\ op = "stock" => item[i].stock + n >= 0
  /\ Begin(k, Command(op, i, key, version, None, n), {})

SetMenuItemAvailability(k) ==
  /\ Commits(k, "availability")
  /\ LET c == InFlight(k)
     IN /\ item[c.target].version = c.version
        /\ TagFree(<<"manager", c.key>>)
        /\ item' = [item EXCEPT ![c.target].available = (c.amount = 1),
                                ![c.target].version = c.version + 1]
        /\ ledger' = ledger \cup {Entry(c.target, None, <<"manager", c.key>>, 0)}
  /\ Succeed(k)
  /\ UNCHANGED <<orders, payments, ticket, table, session>>

\* Mutant of StockCovers: the checked stock is not checked again as it is written.
StockAny(i, n) == TRUE

StockCovers(i, n) == item[i].stock >= n

AdjustMenuItemStock(k) ==
  /\ Commits(k, "stock")
  /\ LET c == InFlight(k)
     IN /\ item[c.target].version = c.version
        /\ StockCovers(c.target, -c.amount)
        /\ TagFree(<<"manager", c.key>>)
        /\ item' = [item EXCEPT ![c.target].stock = @ + c.amount,
                                ![c.target].version = c.version + 1]
        /\ ledger' = ledger \cup {Entry(c.target, None, <<"manager", c.key>>, c.amount)}
  /\ Succeed(k)
  /\ UNCHANGED <<orders, payments, ticket, table, session>>

(***************************************************************************)
(* The cart: a line is checked against the stock, which is not reserved.   *)
(***************************************************************************)
BeginAddLine(k, o, key, version, i, n) ==
  /\ orders[o].status = "cart"
  /\ session[orders[o].session] = "active"
  /\ item[i].available /\ item[i].stock >= n
  /\ version < work.edits
  /\ BeginOrder(k, "add", o, key, version, i, n)

AddLine(k) ==
  /\ Commits(k, "add")
  /\ LET c == InFlight(k)
         order == orders[c.target]
     IN UpdateOrder(c.target, c.version,
          [order EXCEPT !.total = @ + c.amount,
                        !.lines = Append(@, [item |-> c.item, quantity |-> c.amount])])
  /\ Succeed(k)
  /\ UNCHANGED <<payments, ticket, item, ledger, table, session>>

\* The scope of an update names the line; here the target is the order and its line.
BeginUpdateLine(k, o, l, key, version, n) ==
  /\ AtVersion(o, version)
  /\ Serves(orders[o].session)
  /\ orders[o].status = "cart"
  /\ version < work.edits
  /\ LET i == orders[o].lines[l].item IN item[i].available /\ item[i].stock >= n
  /\ Begin(k, Command("update", <<o, l>>, key, version, None, n), {})

UpdateLine(k) ==
  /\ Commits(k, "update")
  /\ LET c == InFlight(k)
         o == c.target[1]
         l == c.target[2]
     IN UpdateOrder(o, c.version,
          [orders[o] EXCEPT !.total = @ + c.amount - orders[o].lines[l].quantity,
                            !.lines[l].quantity = c.amount])
  /\ Succeed(k)
  /\ UNCHANGED <<payments, ticket, item, ledger, table, session>>

\* What the lines of an order ask of an item together.
Demand(o, i) ==
  MapThenSumSet(LAMBDA l : orders[o].lines[l].quantity,
                {l \in DOMAIN orders[o].lines : orders[o].lines[l].item = i})

LineEntries(o, tag, sign) ==
  {Entry(orders[o].lines[l].item, o, <<tag, o, l>>, sign * orders[o].lines[l].quantity) :
     l \in DOMAIN orders[o].lines}

(***************************************************************************)
(* submitOrder checks each line against the stock by itself; the writes    *)
(* then reserve line after line, and one that does not fit undoes all.     *)
(***************************************************************************)
BeginSubmit(k, o, key, version) ==
  /\ orders[o].status = "cart"
  /\ session[orders[o].session] = "active"
  /\ orders[o].lines # <<>>
  /\ \A l \in DOMAIN orders[o].lines :
       LET line == orders[o].lines[l]
       IN item[line.item].available /\ item[line.item].stock >= line.quantity
  /\ BeginOrder(k, "submit", o, key, version, None, 0)

SubmitOrder(k) ==
  /\ Commits(k, "submit")
  /\ LET c == InFlight(k)
         o == c.target
     IN /\ \A i \in Items :
             Demand(o, i) > 0 => item[i].available /\ StockCovers(i, Demand(o, i))
        /\ item' = [i \in Items |-> [item[i] EXCEPT !.stock = @ - Demand(o, i)]]
        /\ ledger' = ledger \cup LineEntries(o, "reservation", -1)
        /\ UpdateOrder(o, c.version, [orders[o] EXCEPT !.status = "submitted"])
  /\ Succeed(k)
  /\ UNCHANGED <<payments, ticket, table, session>>

(***************************************************************************)
(* recordPayment, by the customer or the cashier: the full total, and a    *)
(* ticket for the kitchen.                                                 *)
(***************************************************************************)
Payment(o, key, status, amount) ==
  [order |-> o, key |-> key, status |-> status, amount |-> amount]

BeginPayment(k, o, key, version) ==
  /\ orders[o].status = "submitted" /\ orders[o].payment = "unpaid"
  /\ BeginOrder(k, "pay", o, key, version, None, orders[o].total)

RecordPayment(k) ==
  /\ Commits(k, "pay")
  /\ LET c == InFlight(k)
         o == c.target
     IN /\ payments' = payments \cup {Payment(o, c.key, "succeeded", c.amount)}
        /\ ticket[o] = "none"
        /\ ticket' = [ticket EXCEPT ![o] = "paid"]
        /\ UpdateOrder(o, c.version,
             [orders[o] EXCEPT !.status = "paid", !.payment = "paid"])
  /\ Succeed(k)
  /\ UNCHANGED <<item, ledger, table, session>>

(***************************************************************************)
(* cancelOrder: a submitted order releases what it reserved; a paid one    *)
(* asks for its payment to be reversed and keeps its stock and its ticket. *)
(***************************************************************************)
BeginCancel(k, o, key, version) ==
  /\ orders[o].status \in {"submitted", "paid"}
  /\ BeginOrder(k, "cancel", o, key, version, None, 0)

CancelOrder(k) ==
  /\ Commits(k, "cancel")
  /\ LET c == InFlight(k)
         o == c.target
         order == orders[o]
     IN /\ IF order.status = "submitted"
           THEN /\ item' = [i \in Items |-> [item[i] EXCEPT !.stock = @ + Demand(o, i)]]
                /\ ledger' = ledger \cup LineEntries(o, "release", 1)
                /\ UNCHANGED payments
           ELSE /\ payments' = payments \cup
                     {Payment(o, <<c.key, "reversal">>, "reversed", order.total)}
                /\ UNCHANGED <<item, ledger>>
        /\ UpdateOrder(o, c.version,
             [order EXCEPT !.status = "cancelled",
                !.payment = IF order.status = "paid" THEN "reversal-requested" ELSE @])
  /\ Succeed(k)
  /\ UNCHANGED <<ticket, table, session>>

(***************************************************************************)
(* transitionKitchenTicket moves ticket and order together; serveOrder.    *)
(***************************************************************************)
BeginKitchen(k, o, event, key, version) ==
  /\ ticket[o] = Before[event] /\ orders[o].status = Before[event]
  /\ BeginOrder(k, event, o, key, version, None, 0)

TransitionKitchenTicket(k, event) ==
  /\ Commits(k, event)
  /\ LET c == InFlight(k)
         o == c.target
     IN /\ ticket' = [ticket EXCEPT ![o] = After[event]]
        /\ UpdateOrder(o, c.version, [orders[o] EXCEPT !.status = After[event]])
  /\ Succeed(k)
  /\ UNCHANGED <<payments, item, ledger, table, session>>

BeginServe(k, o, key, version) ==
  /\ orders[o].status = "ready"
  /\ BeginOrder(k, "serve", o, key, version, None, 0)

\* Mutant of ServeOrder: the ticket too gets a status no kitchen event gives it.
ServeOrderAndTicket(k) ==
  /\ Commits(k, "serve")
  /\ LET c == InFlight(k)
     IN /\ ticket' = [ticket EXCEPT ![c.target] = "served"]
        /\ UpdateOrder(c.target, c.version,
             [orders[c.target] EXCEPT !.status = "served"])
  /\ Succeed(k)
  /\ UNCHANGED <<payments, item, ledger, table, session>>

ServeOrder(k) ==
  /\ Commits(k, "serve")
  /\ LET c == InFlight(k)
     IN UpdateOrder(c.target, c.version, [orders[c.target] EXCEPT !.status = "served"])
  /\ Succeed(k)
  /\ UNCHANGED <<payments, ticket, item, ledger, table, session>>

\* The seed opens the table with one active session.
Init ==
  /\ work \in Workloads
  /\ orders = [o \in Orders |-> NoOrder]
  /\ payments = {}
  /\ ticket = [o \in Orders |-> "none"]
  /\ item = [i \in Items |-> [stock |-> work.supply, available |-> TRUE, version |-> 0]]
  /\ ledger = {}
  /\ table = [status |-> "open", version |-> 0]
  /\ \E s \in Sessions : session = [t \in Sessions |-> IF t = s THEN "active" ELSE "none"]
  /\ commands = {}
  /\ req = [k \in Clients |-> Idle]

Begins(k, key) ==
  \/ \E s \in Sessions : BeginResolve(k, s, key)
  \/ \E event \in {"open", "seat", "close"} : BeginTable(k, event, key, table.version)
  \/ \E i \in Items :
       \/ \E n \in {0, 1} : BeginManager(k, "availability", i, key, item[i].version, n)
       \/ \E n \in Quantities \cup {-m : m \in Quantities} :
            BeginManager(k, "stock", i, key, item[i].version, n)
  \/ \E o \in Orders :
       LET version == orders[o].version
       IN \/ \E i \in Items, n \in Quantities : BeginAddLine(k, o, key, version, i, n)
          \/ \E l \in DOMAIN orders[o].lines, n \in Quantities :
               BeginUpdateLine(k, o, l, key, version, n)
          \/ BeginSubmit(k, o, key, version)
          \/ BeginPayment(k, o, key, version)
          \/ BeginCancel(k, o, key, version)
          \/ \E event \in Events : BeginKitchen(k, o, event, key, version)
          \/ BeginServe(k, o, key, version)

Ends(k) ==
  \/ ResolveTableSession(k)
  \/ \E event \in {"open", "seat", "close"} : TransitionMerchantTable(k, event)
  \/ SetMenuItemAvailability(k)
  \/ AdjustMenuItemStock(k)
  \/ AddLine(k)
  \/ UpdateLine(k)
  \/ SubmitOrder(k)
  \/ RecordPayment(k)
  \/ CancelOrder(k)
  \/ \E event \in Events : TransitionKitchenTicket(k, event)
  \/ ServeOrder(k)
  \/ Rollback(k)

Next ==
  /\ \E k \in Clients : (\E key \in Keys : Begins(k, key)) \/ Ends(k)
  /\ UNCHANGED work

Spec == Init /\ [][Next]_vars
=============================================================================
