----------------------------- MODULE TableFloor -----------------------------
(***************************************************************************)
(* The dining tables of the shops and the floor plan a merchant sees:      *)
(* TableService (apps/order-service/src/table/table.service.ts), the part  *)
(* of createOrder that finds a table for a dine-in order, the              *)
(* tableStatusChanged events of OrderService, and the floor page of        *)
(* admin-web, which applies events and polls.                              *)
(*                                                                         *)
(* Deleting counts orders and then deletes; placing finds a table and then *)
(* inserts; an event is put together from two reads after the commit it    *)
(* reports.  None of them holds a lock across its awaits.                  *)
(***************************************************************************)
EXTENDS FiniteSets, OrderColumns

CONSTANTS
  Shops,
  Viewer,    \* the shop whose floor page is open
  TableIds,  \* the tables there are at first
  DemoId,    \* test-table-001
  Names,     \* table numbers
  DemoName,  \* VIP-1
  Requests,  \* handler executions; each runs at most once
  Inputs,    \* what they are asked to do (see Input)
  InitialTables,
  NoTable,
  Emitters   \* bound: events under way at once

\* A created table is named after the request that created it.
Ids == TableIds \cup {DemoId} \cup Requests
Row == [shop: Shops, name: Names]

\* Placing names a table by its id or its number.
Input ==
  [op: {"createOrder"}, shop: Shops, ref: Ids \cup Names]
    \cup [op: {"updateTable"}, shop: Shops, table: Ids, name: Names]
    \cup [op: {"createTable"}, shop: Shops]
    \cup [op: {"deleteTable"}, shop: Shops, table: Ids]

ASSUME TableAssumption ==
  /\ Viewer \in Shops /\ DemoName \in Names /\ NoTable \notin Ids
  /\ DemoId \notin TableIds \cup Requests /\ TableIds \cap Requests = {}
  /\ Ids \cap Names = {}
  /\ InitialTables \in [TableIds -> Row]
  /\ \A t, u \in TableIds : InitialTables[t] = InitialTables[u] => t = u
ASSUME InputAssumption == Inputs \subseteq Input

VARIABLES
  table,    \* DiningTable rows, by id
  order,    \* dine-in Order rows, by the request that placed them
  floor,    \* the rows the page of Viewer's shop shows, by id
  poll,     \* the page's GET_TABLES query
  emission, \* events under way
  request   \* local state of each execution

vars == <<table, order, floor, poll, emission, request>>
database == <<table, order>>
page == <<floor, poll>>

-----------------------------------------------------------------------------
(* What the service reads. *)

TablesOf(shop) == {t \in DOMAIN table : table[t].shop = shop}

ACTIVE_ORDER_STATES == {"PENDING_PAYMENT", "PAID", "PREPARING", "READY"}

Occupied(shop, t) ==
  \E o \in DOMAIN order :
    /\ order[o].shop = shop /\ order[o].table = t
    /\ order[o].state \in ACTIVE_ORDER_STATES

\* Mutant: an order blocks the deletion only when it is being prepared.
BlocksWhenPreparing(o, t) ==
  order[o].table = t /\ merchantStatusFromOrderState(order[o].state) = "PREPARING"

\* Off delivery the kitchen column follows from the state (BoardAgreesOffDelivery
\* of OrderLifecycle).
Blocks(o, t) ==
  /\ order[o].table = t
  /\ merchantStatusFromOrderState(order[o].state) \in {"PENDING", "PREPARING"}

\* getTables at one instant.  Nothing sets visualState to DIRTY.
FloorNow ==
  [t \in TablesOf(Viewer) |-> [name |-> table[t].name, occupied |-> Occupied(Viewer, t)]]

Quiet == [pc |-> "quiet"]

Init ==
  /\ table = InitialTables
  /\ order = << >>
  /\ floor = FloorNow
  /\ poll = Quiet
  /\ emission = [e \in Emitters |-> Quiet]
  /\ request \in [Requests -> [pc: {"idle"}, input: Inputs, table: {NoTable},
                               seen: {{}}]]

-----------------------------------------------------------------------------
(* Executions. *)

At(r, op, pc) == request[r].input.op = op /\ request[r].pc = pc
Become(r, pc) == request' = [request EXCEPT ![r].pc = pc]

\* An await throws, or the process dies: the database keeps what was written.
Abort(r) ==
  /\ request[r].pc \notin {"idle", "done", "blocked"}
  /\ Become(r, "done")
  /\ UNCHANGED <<database, page, emission>>

NameTaken(shop, name, except) ==
  \E t \in TablesOf(shop) \ {except} : table[t].name = name

AddTable(t, shop, name) ==
  table' = [i \in DOMAIN table \cup {t} |->
              IF i = t THEN [shop |-> shop, name |-> name] ELSE table[i]]

\* An event about an order's table starts; its reads come later.
Emit(shop, t) ==
  \E e \in Emitters :
    /\ emission[e] = Quiet
    /\ emission' = [emission EXCEPT ![e] = [pc |-> "row", shop |-> shop, table |-> t]]

Resolved(r, t) ==
  request' = [request EXCEPT ![r].pc = "insert", ![r].table = t]

\* Mutant: the lookup by id forgets the shop.
NamedInAnyShop(shop, ref) ==
  {t \in DOMAIN table : t = ref} \cup {t \in TablesOf(shop) : table[t].name = ref}

Named(shop, ref) == {t \in TablesOf(shop) : t = ref \/ table[t].name = ref}

\* resolveDineInTableId, first half: findFirst by id or by number.
ResolveTable(r) ==
  LET found == Named(request[r].input.shop, request[r].input.ref) IN
  /\ At(r, "createOrder", "idle")
  /\ \/ found = {} /\ Become(r, "fallback")
     \/ \E t \in found : Resolved(r, t)
  /\ UNCHANGED <<database, page, emission>>

\* Second half: VIP-1 is upserted under one fixed id.  When the shop has no
\* such number and the id is in use, the insert fails on the primary key and
\* nothing catches it.
FallbackTable(r) ==
  LET shop == request[r].input.shop
      found == {t \in TablesOf(shop) : table[t].name = DemoName}
  IN /\ At(r, "createOrder", "fallback")
     /\ \/ /\ \E t \in found : Resolved(r, t)
           /\ UNCHANGED table
        \/ /\ found = {} /\ DemoId \notin DOMAIN table
           /\ AddTable(DemoId, shop, DemoName)
           /\ Resolved(r, DemoId)
        \/ /\ found = {} /\ DemoId \in DOMAIN table
           /\ Become(r, "blocked")
           /\ UNCHANGED table
     /\ UNCHANGED <<order, page, emission>>

\* The insert fails on the foreign key when the table has gone.  (An append to
\* an open order changes nothing on the floor and sends no event.)
PlaceOrder(r) ==
  LET t == request[r].table IN
  /\ At(r, "createOrder", "insert")
  /\ IF t \in DOMAIN table
     THEN /\ order' = [o \in DOMAIN order \cup {r} |->
               IF o = r THEN [shop |-> request[r].input.shop, table |-> t,
                              state |-> "PENDING_PAYMENT"]
               ELSE order[o]]
          /\ Emit(request[r].input.shop, t)
     ELSE UNCHANGED <<order, emission>>
  /\ Become(r, "done")
  /\ UNCHANGED <<table, page>>

-----------------------------------------------------------------------------
(* Maintenance of the tables. *)

\* The number is made from the clock.
CreateTable(r) ==
  LET shop == request[r].input.shop IN
  /\ At(r, "createTable", "idle")
  /\ \E name \in Names \ {DemoName} :
       ~NameTaken(shop, name, NoTable) /\ AddTable(r, shop, name)
  /\ Become(r, "done")
  /\ UNCHANGED <<order, page, emission>>

\* updateTable: the row and the number are looked up first.
CheckName(r) ==
  LET q == request[r].input IN
  /\ At(r, "updateTable", "idle")
  /\ q.table \in TablesOf(q.shop)
  /\ ~NameTaken(q.shop, q.name, q.table)
  /\ Become(r, "rename")
  /\ UNCHANGED <<database, page, emission>>

\* Mutant: no unique index on (shopId, name).
Anyway(t, name) == t \in DOMAIN table

\* The update by id fails when the row has gone or the index has the number.
MayRename(t, name) == t \in DOMAIN table /\ ~NameTaken(table[t].shop, name, t)

RenameTable(r) ==
  LET q == request[r].input IN
  /\ At(r, "updateTable", "rename")
  /\ table' = IF MayRename(q.table, q.name)
              THEN [table EXCEPT ![q.table].name = q.name] ELSE table
  /\ Become(r, "done")
  /\ UNCHANGED <<order, page, emission>>

\* deleteTable: the count.  seen remembers which orders there were.
CountBlocking(r) ==
  LET q == request[r].input IN
  /\ At(r, "deleteTable", "idle")
  /\ q.table \in TablesOf(q.shop)
  /\ \A o \in DOMAIN order : ~Blocks(o, q.table)
  /\ request' = [request EXCEPT ![r].pc = "delete", ![r].seen = DOMAIN order]
  /\ UNCHANGED <<database, page, emission>>

\* The delete by id; orders keep NULL (ON DELETE SET NULL).
DeleteTable(r) ==
  LET gone == request[r].input.table IN
  /\ At(r, "deleteTable", "delete")
  /\ table' = [t \in DOMAIN table \ {gone} |-> table[t]]
  /\ order' = [o \in DOMAIN order |->
       IF order[o].table = gone THEN [order[o] EXCEPT !.table = NoTable]
       ELSE order[o]]
  /\ Become(r, "done")
  /\ UNCHANGED <<page, emission>>

-----------------------------------------------------------------------------
(* An order moves on, as one handler of OrderLifecycle at a time makes it.   *)
(* The merchant's steps and a payment send an event; a failed payment and    *)
(* the customer's cancellation do not.                                       *)

Announced ==
  {<<"PENDING_PAYMENT", "PAID">>, <<"PENDING_PAYMENT", "CANCELLED">>,
   <<"PAID", "PREPARING">>, <<"PAID", "CANCELLED">>,
   <<"PREPARING", "COMPLETED">>, <<"PREPARING", "CANCELLED">>,
   <<"PAYMENT_FAILED", "CANCELLED">>}
Silent ==
  {<<"PENDING_PAYMENT", "PAYMENT_FAILED">>, <<"PENDING_PAYMENT", "CANCELLED">>,
   <<"PAYMENT_FAILED", "CANCELLED">>}

MoveOrder(o, to) ==
  /\ order' = [order EXCEPT ![o].state = to]
  /\ \/ /\ <<order[o].state, to>> \in Announced
        /\ order[o].table # NoTable
        /\ Emit(order[o].shop, order[o].table)
     \/ /\ \/ <<order[o].state, to>> \in Silent
           \/ <<order[o].state, to>> \in Announced /\ order[o].table = NoTable
        /\ UNCHANGED emission
  /\ UNCHANGED <<table, page, request>>

-----------------------------------------------------------------------------
(* emitTableStatusChanged, which nobody awaits: the row, the open orders,    *)
(* the publication.                                                          *)

EmitRow(e) ==
  LET t == emission[e].table IN
  /\ emission[e].pc = "row"
  /\ emission' = [emission EXCEPT ![e] =
       IF t \in TablesOf(emission[e].shop) THEN [pc |-> "orders", table |-> t, row |-> table[t]]
       ELSE Quiet]
  /\ UNCHANGED <<database, page, request>>

EmitOrders(e) ==
  LET m == emission[e] IN
  /\ m.pc = "orders"
  /\ emission' = [emission EXCEPT ![e] =
       [pc |-> "publish", table |-> m.table, row |-> m.row,
        occupied |-> Occupied(m.row.shop, m.table)]]
  /\ UNCHANGED <<database, page, request>>

\* The page merges the event into a row it already shows.
Publish(e) ==
  LET m == emission[e] IN
  /\ m.pc = "publish"
  /\ floor' = IF m.row.shop = Viewer /\ m.table \in DOMAIN floor
              THEN [floor EXCEPT ![m.table] =
                      [name |-> m.row.name, occupied |-> m.occupied]]
              ELSE floor
  /\ emission' = [emission EXCEPT ![e] = Quiet]
  /\ UNCHANGED <<database, poll, request>>

\* A read fails, or the page is not connected to the instance that publishes.
LoseEvent(e) ==
  /\ emission[e] # Quiet
  /\ emission' = [emission EXCEPT ![e] = Quiet]
  /\ UNCHANGED <<database, page, request>>

-----------------------------------------------------------------------------
(* The page polls: getTables reads the tables, then the open orders.         *)

PollTables ==
  /\ poll = Quiet
  /\ poll' = [pc |-> "orders", names |-> [t \in TablesOf(Viewer) |-> table[t].name]]
  /\ UNCHANGED <<database, floor, emission, request>>

PollOrders ==
  /\ poll.pc = "orders"
  /\ poll' = [pc |-> "answer",
              rows |-> [t \in DOMAIN poll.names |->
                          [name |-> poll.names[t], occupied |-> Occupied(Viewer, t)]]]
  /\ UNCHANGED <<database, floor, emission, request>>

\* Mutant: the answer is merged into the rows shown, as an event is.
Merged(shown, rows) ==
  [t \in DOMAIN shown |-> IF t \in DOMAIN rows THEN rows[t] ELSE shown[t]]

\* network-only: the answer replaces the list.
Replaced(shown, rows) == rows

PollAnswer ==
  /\ poll.pc = "answer"
  /\ floor' = Replaced(floor, poll.rows)
  /\ poll' = Quiet
  /\ UNCHANGED <<database, emission, request>>

Poll == PollTables \/ PollOrders \/ PollAnswer

Next ==
  \/ \E r \in Requests :
       \/ ResolveTable(r) \/ FallbackTable(r) \/ PlaceOrder(r)
       \/ CreateTable(r) \/ CheckName(r) \/ RenameTable(r)
       \/ CountBlocking(r) \/ DeleteTable(r) \/ Abort(r)
  \/ \E o \in DOMAIN order, to \in OrderState : MoveOrder(o, to)
  \/ \E e \in Emitters : EmitRow(e) \/ EmitOrders(e) \/ Publish(e) \/ LoseEvent(e)
  \/ Poll

\* The page polls every TABLE_POLL_MS while the layout is not being edited;
\* nothing else is assumed to happen.
Spec == Init /\ [][Next]_vars /\ WF_vars(Poll)

-----------------------------------------------------------------------------
\* Rows, events and executions keep their shape, an order's table exists (the
\* foreign key), and a shop's numbers are unique, however renames race.
TypeOK ==
  /\ DOMAIN table \subseteq Ids
  /\ \A t \in DOMAIN table : table[t] \in Row
  /\ \A t, u \in DOMAIN table : table[t] = table[u] => t = u
  /\ DOMAIN order \subseteq Requests
  /\ \A o \in DOMAIN order :
       order[o] \in [shop: Shops, table: DOMAIN table \cup {NoTable}, state: OrderState]
  /\ DOMAIN floor \subseteq Ids

\* An order sits at a table of its own shop, whatever its customer typed and
\* whatever happened between the lookup and the insert (the shared demo table
\* excepted: it can be deleted and made again for another shop).
OrdersSitInTheirShop ==
  \A o \in DOMAIN order : order[o].table \notin {NoTable, DemoId} =>
    table[order[o].table].shop = order[o].shop

\* table.service.ts:177: a table with orders in PENDING or PREPARING is not
\* deleted.  Between the count and the delete an order can still be placed; an
\* order that was there for the count never loses its table while it is open.
CountedOrdersKeepTheirTable ==
  [][\A o \in DOMAIN order :
       order[o].table # NoTable /\ order'[o].table = NoTable =>
         \/ order[o].state \in {"COMPLETED", "CANCELLED"}
         \/ \E r \in Requests : /\ request[r].pc = "delete"
                                /\ request'[r].pc = "done"
                                /\ o \notin request[r].seen]_vars

\* Events are lost, late, or out of order, and several changes send none: by
\* polling alone the page comes to show the floor as it is, for good.
FloorAgreesEventually == <>[](floor = FloorNow)

=============================================================================
