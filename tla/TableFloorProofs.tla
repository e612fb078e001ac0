-------------------------- MODULE TableFloorProofs --------------------------
(***************************************************************************)
(* Theorems about TableFloor for every set of shops, tables, numbers and   *)
(* executions.                                                             *)
(***************************************************************************)
EXTENDS TableFloor, TLAPS

-----------------------------------------------------------------------------
(* What is true between the awaits. *)

Pcs == {"idle", "fallback", "insert", "rename", "delete", "blocked", "done"}

RequestsOK ==
  request \in [Requests -> [pc: Pcs, input: Inputs, table: Ids \cup {NoTable},
                            seen: SUBSET Requests]]

\* The answer of a poll shows tables there were.
PollOK ==
  /\ poll.pc = "orders" => DOMAIN poll.names \subseteq Ids
  /\ poll.pc = "answer" => DOMAIN poll.rows \subseteq Ids

\* A table named after an execution, there now or found by an order before it
\* went, was made by it, and an execution runs once: the id does not come back.
IdsOnce ==
  /\ \A t \in DOMAIN table \cap Requests : request[t].pc # "idle"
  /\ \A r \in Requests : request[r].pc = "insert" =>
       /\ request[r].table \in Ids
       /\ request[r].table \in Requests => request[request[r].table].pc # "idle"

\* What an order found is still its shop's if it is still there.
FoundInShop ==
  \A r \in Requests :
    request[r].pc = "insert" /\ request[r].table \in DOMAIN table \ {DemoId}
    => table[request[r].table].shop = request[r].input.shop

IInv == TypeOK /\ RequestsOK /\ PollOK /\ IdsOnce /\ OrdersSitInTheirShop /\ FoundInShop

\* What inputs name.
LEMMA InputFields ==
  ASSUME NEW i \in Inputs
  PROVE  /\ i.shop \in Shops
         /\ i.op = "createOrder" => i.ref \in Ids \cup Names
         /\ i.op = "updateTable" => i.table \in Ids /\ i.name \in Names
BY InputAssumption DEF Input

LEMMA InitInv == Init => IInv
<1> SUFFICES ASSUME Init PROVE IInv
  OBVIOUS
<1> USE TableAssumption
<1>1. /\ table \in [TableIds -> Row] /\ DOMAIN table = TableIds
      /\ order = << >> /\ DOMAIN order = {} /\ poll = Quiet
  BY DEF Init
<1>2. DOMAIN floor \subseteq Ids
  BY <1>1 DEF Init, FloorNow, TablesOf, Ids
<1>3. RequestsOK /\ \A r \in Requests : request[r].pc = "idle"
  BY DEF Init, RequestsOK, Pcs
<1>4. PollOK
  BY <1>1 DEF PollOK, Quiet
<1>5. TypeOK
  BY <1>1, <1>2 DEF Init, TypeOK, Ids
<1>. QED
  BY <1>1, <1>3, <1>4, <1>5 DEF IInv, IdsOnce, OrdersSitInTheirShop, FoundInShop

-----------------------------------------------------------------------------
(* Executions that move without touching the database. *)

LEMMA BecomeType ==
  ASSUME RequestsOK, NEW r \in Requests, NEW pc \in Pcs, Become(r, pc)
  PROVE  /\ RequestsOK'
         /\ request'[r].pc = pc
         /\ request'[r].input = request[r].input
         /\ \A q \in Requests : q # r => request'[q] = request[q]
<1> DEFINE new == [request[r] EXCEPT !.pc = pc]
<1>1. new \in [pc: Pcs, input: Inputs, table: Ids \cup {NoTable}, seen: SUBSET Requests]
      /\ new.pc = pc /\ new.input = request[r].input
  BY DEF RequestsOK
<1>2. request' = [request EXCEPT ![r] = new]
  BY DEF Become
<1> HIDE DEF new
<1>. QED
  BY <1>1, <1>2 DEF RequestsOK

LEMMA ResolvedType ==
  ASSUME RequestsOK, NEW r \in Requests, NEW t \in Ids, Resolved(r, t)
  PROVE  /\ RequestsOK'
         /\ request'[r].pc = "insert" /\ request'[r].table = t
         /\ request'[r].input = request[r].input
         /\ \A q \in Requests : q # r => request'[q] = request[q]
<1> DEFINE new == [request[r] EXCEPT !.pc = "insert", !.table = t]
<1>1. new \in [pc: Pcs, input: Inputs, table: Ids \cup {NoTable}, seen: SUBSET Requests]
      /\ new.pc = "insert" /\ new.table = t /\ new.input = request[r].input
  BY DEF RequestsOK, Pcs
<1>2. request' = [request EXCEPT ![r] = new]
  BY DEF Resolved, RequestsOK
<1> HIDE DEF new
<1>. QED
  BY <1>1, <1>2 DEF RequestsOK

\* An execution that leaves the tables and the orders alone, and a poll or an
\* event that is not its business.
LEMMA QuietMove ==
  ASSUME IInv, NEW r \in Requests, NEW pc \in Pcs \ {"idle", "insert"}, Become(r, pc),
         UNCHANGED <<database, page>>
  PROVE  IInv'
<1>1. /\ RequestsOK' /\ request'[r].pc = pc /\ request'[r].input = request[r].input
      /\ \A q \in Requests : q # r => request'[q] = request[q]
  BY BecomeType DEF IInv
<1>2. UNCHANGED <<table, order, floor, poll>>
  BY DEF database, page
<1>3. TypeOK' /\ PollOK' /\ OrdersSitInTheirShop'
  BY <1>2 DEF IInv, TypeOK, PollOK, OrdersSitInTheirShop
<1>4. IdsOnce'
  BY <1>1, <1>2 DEF IInv, IdsOnce
<1>5. FoundInShop'
  BY <1>1, <1>2 DEF IInv, FoundInShop
<1>. QED
  BY <1>1, <1>3, <1>4, <1>5 DEF IInv

LEMMA AbortInv == ASSUME IInv, NEW r \in Requests, Abort(r) PROVE IInv'
BY QuietMove DEF Abort, Pcs

LEMMA CheckNameInv == ASSUME IInv, NEW r \in Requests, CheckName(r) PROVE IInv'
BY QuietMove DEF CheckName, Pcs

\* The lookup keeps what it found: a table of the shop, with an id in use.
LEMMA ResolveInv == ASSUME IInv, NEW r \in Requests, ResolveTable(r) PROVE IInv'
<1> DEFINE found == Named(request[r].input.shop, request[r].input.ref)
<1>1. UNCHANGED <<table, order, floor, poll>>
  BY DEF ResolveTable, database, page
<1>2. CASE Become(r, "fallback")
  BY <1>2, QuietMove DEF ResolveTable, Pcs
<1>3. ASSUME NEW t \in found, Resolved(r, t) PROVE IInv'
  <2>1. t \in DOMAIN table /\ table[t].shop = request[r].input.shop /\ t \in Ids
    BY <1>3 DEF Named, TablesOf, IInv, TypeOK
  <2>2. /\ RequestsOK' /\ request'[r].pc = "insert" /\ request'[r].table = t
        /\ request'[r].input = request[r].input
        /\ \A q \in Requests : q # r => request'[q] = request[q]
    BY <1>3, <2>1, ResolvedType DEF IInv
  <2>3. TypeOK' /\ PollOK' /\ OrdersSitInTheirShop'
    BY <1>1 DEF IInv, TypeOK, PollOK, OrdersSitInTheirShop
  <2>4. \A u \in Requests : request[u].pc # "idle" => request'[u].pc # "idle"
    BY <2>2
  <2>5. IdsOnce'
    BY <1>1, <2>1, <2>2, <2>4 DEF IInv, IdsOnce
  <2>6. FoundInShop'
    BY <1>1, <2>1, <2>2 DEF IInv, FoundInShop
  <2>. QED
    BY <2>2, <2>3, <2>5, <2>6 DEF IInv
<1>. QED
  BY <1>2, <1>3 DEF ResolveTable

\* A table that is added under an id and a number nobody has.
LEMMA TableAdded ==
  ASSUME TypeOK, NEW t \in Ids, t \notin DOMAIN table, NEW shop \in Shops, NEW name \in Names,
         \A u \in TablesOf(shop) : table[u].name # name,
         AddTable(t, shop, name), UNCHANGED <<order, floor>>
  PROVE  /\ TypeOK'
         /\ DOMAIN table' = DOMAIN table \cup {t}
         /\ \A u \in DOMAIN table : table'[u] = table[u]
<1> DEFINE new == [shop |-> shop, name |-> name]
<1>1. /\ DOMAIN table' = DOMAIN table \cup {t}
      /\ \A u \in DOMAIN table : table'[u] = table[u]
      /\ table'[t] = new
  BY DEF AddTable
<1>2. new \in Row
  BY DEF Row
<1>3. \A u \in DOMAIN table : table[u] # new
  BY DEF TypeOK, TablesOf, Row
<1> HIDE DEF new
<1>4. \A o \in DOMAIN order' :
        order'[o] \in [shop: Shops, table: DOMAIN table' \cup {NoTable}, state: OrderState]
  <2> SUFFICES ASSUME NEW o \in DOMAIN order
               PROVE  order[o] \in [shop: Shops, table: DOMAIN table' \cup {NoTable}, state: OrderState]
    OBVIOUS
  <2>1. order[o] \in [shop: Shops, table: DOMAIN table \cup {NoTable}, state: OrderState]
    BY DEF TypeOK
  <2>. QED
    BY <1>1, <2>1
<1>. QED
  BY <1>1, <1>2, <1>3, <1>4 DEF TypeOK

\* VIP-1 exists, is made under its one id, or cannot be made.
LEMMA FallbackInv == ASSUME IInv, NEW r \in Requests, FallbackTable(r) PROVE IInv'
<1> DEFINE shop == request[r].input.shop
           found == {t \in TablesOf(shop) : table[t].name = DemoName}
<1> USE DEF IInv
<1>1. UNCHANGED <<order, floor, poll>>
  BY DEF FallbackTable, page
<1>2. ASSUME NEW t \in found, Resolved(r, t), UNCHANGED table PROVE IInv'
  <2>1. t \in DOMAIN table /\ table[t].shop = shop /\ t \in Ids
    BY <1>2 DEF TablesOf, TypeOK
  <2>2. /\ RequestsOK' /\ request'[r].pc = "insert" /\ request'[r].table = t
        /\ request'[r].input = request[r].input
        /\ \A q \in Requests : q # r => request'[q] = request[q]
    BY <1>2, <2>1, ResolvedType
  <2>3. TypeOK' /\ PollOK' /\ OrdersSitInTheirShop'
    BY <1>1, <1>2 DEF TypeOK, PollOK, OrdersSitInTheirShop
  <2>4. IdsOnce'
    BY <1>1, <1>2, <2>1, <2>2 DEF IdsOnce
  <2>5. FoundInShop'
    BY <1>1, <1>2, <2>1, <2>2 DEF FoundInShop
  <2>. QED
    BY <2>2, <2>3, <2>4, <2>5
<1>3. ASSUME found = {}, DemoId \notin DOMAIN table, AddTable(DemoId, shop, DemoName),
             Resolved(r, DemoId)
      PROVE  IInv'
  <2>0. DemoId \in Ids /\ shop \in Shops /\ DemoName \in Names
    BY InputFields, TableAssumption DEF Ids, RequestsOK
  <2>1. /\ TypeOK' /\ DOMAIN table' = DOMAIN table \cup {DemoId}
        /\ \A u \in DOMAIN table : table'[u] = table[u]
    BY <1>1, <1>3, <2>0, TableAdded
  <2>2. /\ RequestsOK' /\ request'[r].pc = "insert" /\ request'[r].table = DemoId
        /\ request'[r].input = request[r].input
        /\ \A q \in Requests : q # r => request'[q] = request[q]
    BY <1>3, <2>0, ResolvedType
  <2>3. PollOK'
    BY <1>1 DEF PollOK
  <2>4. OrdersSitInTheirShop'
    BY <1>1, <2>1 DEF OrdersSitInTheirShop, TypeOK
  <2>5. IdsOnce'
    BY <2>0, <2>1, <2>2, TableAssumption DEF IdsOnce
  <2>6. FoundInShop'
    BY <2>1, <2>2 DEF FoundInShop
  <2>. QED
    BY <2>1, <2>2, <2>3, <2>4, <2>5, <2>6
<1>4. ASSUME Become(r, "blocked"), UNCHANGED table PROVE IInv'
  BY <1>1, <1>4, QuietMove DEF database, page, Pcs
<1>. QED
  BY <1>2, <1>3, <1>4 DEF FallbackTable

\* The insert carries the table that was found, if it is still there.
LEMMA PlaceInv == ASSUME IInv, NEW r \in Requests, PlaceOrder(r) PROVE IInv'
<1> USE DEF IInv
<1> DEFINE t == request[r].table
           shop == request[r].input.shop
           new == [shop |-> shop, table |-> t, state |-> "PENDING_PAYMENT"]
<1>1. UNCHANGED <<table, floor, poll>> /\ Become(r, "done")
  BY DEF PlaceOrder, page
<1>2. /\ RequestsOK' /\ request'[r].pc = "done" /\ request'[r].input = request[r].input
      /\ \A q \in Requests : q # r => request'[q] = request[q]
  BY <1>1, BecomeType DEF Pcs
<1>3. PollOK' /\ IdsOnce' /\ FoundInShop'
  BY <1>1, <1>2 DEF PollOK, IdsOnce, FoundInShop
<1>4. CASE t \notin DOMAIN table
  <2>1. UNCHANGED order
    BY <1>4 DEF PlaceOrder
  <2>. QED
    BY <1>1, <1>2, <1>3, <2>1 DEF TypeOK, OrdersSitInTheirShop
<1>5. CASE t \in DOMAIN table
  <2>1. order' = [o \in DOMAIN order \cup {r} |-> IF o = r THEN new ELSE order[o]]
    BY <1>5 DEF PlaceOrder
  <2>2. shop \in Shops
    BY InputFields DEF RequestsOK
  <2>3. new \in [shop: Shops, table: DOMAIN table \cup {NoTable}, state: OrderState]
    BY <1>5, <2>2 DEF OrderState
  <2>4. t # DemoId => table[t].shop = shop
    BY <1>5 DEF PlaceOrder, At, FoundInShop
  <2>5. /\ DOMAIN order' = DOMAIN order \cup {r} /\ order'[r] = new
        /\ \A o \in DOMAIN order : o # r => order'[o] = order[o]
    BY <2>1
  <2>6. new.table = t /\ new.shop = shop
    OBVIOUS
  <2> HIDE DEF new, t, shop
  <2>7. TypeOK'
    BY <1>1, <2>3, <2>5 DEF TypeOK
  <2>8. OrdersSitInTheirShop'
    BY <1>1, <2>4, <2>5, <2>6 DEF OrdersSitInTheirShop
  <2>. QED
    BY <1>2, <1>3, <2>7, <2>8
<1>. QED
  BY <1>4, <1>5

-----------------------------------------------------------------------------
(* Maintenance. *)

\* The new id is the execution's own, which nobody has and nobody found.
LEMMA CreateInv == ASSUME IInv, NEW r \in Requests, CreateTable(r) PROVE IInv'
<1> USE DEF IInv
<1> DEFINE shop == request[r].input.shop
<1>1. UNCHANGED <<order, floor, poll>> /\ Become(r, "done") /\ request[r].pc = "idle"
  BY DEF CreateTable, page, At
<1>2. PICK name \in Names \ {DemoName} : ~NameTaken(shop, name, NoTable) /\ AddTable(r, shop, name)
  BY DEF CreateTable
<1>3. r \in Ids /\ r \notin DOMAIN table /\ shop \in Shops
  BY <1>1, InputFields DEF IdsOnce, Ids, RequestsOK
<1>4. \A u \in TablesOf(shop) : table[u].name # name
  BY <1>2, TableAssumption DEF NameTaken, TablesOf, TypeOK
<1>5. /\ TypeOK' /\ DOMAIN table' = DOMAIN table \cup {r}
      /\ \A u \in DOMAIN table : table'[u] = table[u]
  BY <1>1, <1>2, <1>3, <1>4, TableAdded
<1>6. /\ RequestsOK' /\ request'[r].pc = "done" /\ request'[r].input = request[r].input
      /\ \A q \in Requests : q # r => request'[q] = request[q]
  BY <1>1, BecomeType DEF Pcs
<1>7. IdsOnce'
  BY <1>5, <1>6 DEF IdsOnce
<1>8. \A q \in Requests : request[q].pc = "insert" => request[q].table # r
  BY <1>1 DEF IdsOnce
<1>9. FoundInShop'
  BY <1>5, <1>6, <1>8 DEF FoundInShop
<1>10. OrdersSitInTheirShop' /\ PollOK'
  BY <1>1, <1>5 DEF OrdersSitInTheirShop, TypeOK, PollOK
<1>. QED
  BY <1>5, <1>6, <1>7, <1>9, <1>10

\* A table changes its number, never its shop, and the index keeps numbers apart.
LEMMA RenameInv == ASSUME IInv, NEW r \in Requests, RenameTable(r) PROVE IInv'
<1> USE DEF IInv
<1> DEFINE t == request[r].input.table
           name == request[r].input.name
           new == [table[t] EXCEPT !.name = name]
<1>1. UNCHANGED <<order, floor, poll>> /\ Become(r, "done")
  BY DEF RenameTable, page
<1>2. CASE ~MayRename(t, name)
  BY <1>1, <1>2, QuietMove DEF RenameTable, database, page, Pcs
<1>3. CASE MayRename(t, name)
  <2>1. t \in DOMAIN table /\ name \in Names /\ table[t] \in Row
    BY <1>3, InputFields DEF MayRename, RenameTable, At, RequestsOK, TypeOK
  <2>2. new \in Row /\ new.shop = table[t].shop /\ new.name = name
    BY <2>1 DEF Row
  <2>3. table' = [table EXCEPT ![t] = new]
    BY <1>3 DEF RenameTable
  <2>4. \A u \in DOMAIN table : u # t => table[u] # new
    BY <1>3, <2>1, <2>2 DEF MayRename, NameTaken, TablesOf
  <2>5. /\ RequestsOK' /\ request'[r].pc = "done" /\ request'[r].input = request[r].input
        /\ \A q \in Requests : q # r => request'[q] = request[q]
    BY <1>1, BecomeType DEF Pcs
  <2> HIDE DEF new, t, name
  <2>6. /\ DOMAIN table' = DOMAIN table /\ table'[t] = new
        /\ \A u \in DOMAIN table : u # t => table'[u] = table[u]
        /\ \A u \in DOMAIN table : table'[u].shop = table[u].shop
    BY <2>1, <2>2, <2>3
  <2>7. \A u \in DOMAIN table' : table'[u] \in Row
    BY <2>2, <2>6 DEF TypeOK
  <2>8. \A u, v \in DOMAIN table' : table'[u] = table'[v] => u = v
    BY <2>4, <2>6 DEF TypeOK
  <2>9. TypeOK'
    BY <1>1, <2>6, <2>7, <2>8 DEF TypeOK
  <2>10. OrdersSitInTheirShop' /\ PollOK'
    BY <1>1, <2>6 DEF OrdersSitInTheirShop, TypeOK, PollOK
  <2>11. IdsOnce'
    BY <2>5, <2>6 DEF IdsOnce
  <2>12. FoundInShop'
    BY <2>5, <2>6 DEF FoundInShop
  <2>. QED
    BY <2>5, <2>9, <2>10, <2>11, <2>12
<1>. QED
  BY <1>2, <1>3

LEMMA CountInv == ASSUME IInv, NEW r \in Requests, CountBlocking(r) PROVE IInv'
<1> USE DEF IInv
<1> DEFINE new == [request[r] EXCEPT !.pc = "delete", !.seen = DOMAIN order]
<1>1. new \in [pc: Pcs, input: Inputs, table: Ids \cup {NoTable}, seen: SUBSET Requests]
      /\ new.pc = "delete" /\ new.table = request[r].table /\ new.input = request[r].input
  <2>1. DOMAIN order \in SUBSET Requests
    BY DEF TypeOK
  <2>2. request[r] \in [pc: Pcs, input: Inputs, table: Ids \cup {NoTable}, seen: SUBSET Requests]
    BY DEF RequestsOK
  <2> HIDE DEF IInv
  <2>. QED
    BY <2>1, <2>2 DEF Pcs
<1>2. request' = [request EXCEPT ![r] = new]
  BY DEF CountBlocking, RequestsOK
<1>3. UNCHANGED <<table, order, floor, poll>>
  BY DEF CountBlocking, database, page
<1> HIDE DEF new
<1>4. RequestsOK' /\ request'[r].pc = "delete"
      /\ \A q \in Requests : q # r => request'[q] = request[q]
  BY <1>1, <1>2 DEF RequestsOK
<1>5. TypeOK' /\ PollOK' /\ OrdersSitInTheirShop'
  BY <1>3 DEF TypeOK, PollOK, OrdersSitInTheirShop
<1>6. IdsOnce' /\ FoundInShop'
  BY <1>3, <1>4 DEF IdsOnce, FoundInShop
<1>. QED
  BY <1>4, <1>5, <1>6

\* Orders of the table that goes keep NULL.
LEMMA DeleteInv == ASSUME IInv, NEW r \in Requests, DeleteTable(r) PROVE IInv'
<1> USE DEF IInv
<1> DEFINE gone == request[r].input.table
           moved(o) == [order[o] EXCEPT !.table = NoTable]
<1>1. UNCHANGED <<floor, poll>> /\ Become(r, "done")
  BY DEF DeleteTable, page
<1>2. /\ table' = [t \in DOMAIN table \ {gone} |-> table[t]]
      /\ order' = [o \in DOMAIN order |-> IF order[o].table = gone THEN moved(o) ELSE order[o]]
  BY DEF DeleteTable
<1>3. \A o \in DOMAIN order :
        moved(o) \in [shop: Shops, table: {NoTable}, state: OrderState]
  BY DEF TypeOK
<1> HIDE DEF moved, gone
<1>4. /\ DOMAIN table' = DOMAIN table \ {gone}
      /\ \A t \in DOMAIN table' : table'[t] = table[t]
  BY <1>2
<1>5. /\ DOMAIN order' = DOMAIN order
      /\ \A o \in DOMAIN order :
           order'[o] \in [shop: Shops, table: DOMAIN table' \cup {NoTable}, state: OrderState]
  <2> SUFFICES ASSUME NEW o \in DOMAIN order
               PROVE  order'[o] \in [shop: Shops, table: DOMAIN table' \cup {NoTable}, state: OrderState]
    BY <1>2
  <2>1. CASE order[o].table = gone
    BY <2>1, <1>2, <1>3
  <2>2. CASE order[o].table # gone
    <3>1. order[o] \in [shop: Shops, table: DOMAIN table \cup {NoTable}, state: OrderState]
      BY DEF TypeOK
    <3>. QED
      BY <2>2, <3>1, <1>2, <1>4
  <2>. QED
    BY <2>1, <2>2
<1>6. TypeOK'
  BY <1>1, <1>4, <1>5 DEF TypeOK
<1>7. OrdersSitInTheirShop'
  <2> SUFFICES ASSUME NEW o \in DOMAIN order, order'[o].table \notin {NoTable, DemoId}
               PROVE  table'[order'[o].table].shop = order'[o].shop
    BY <1>5 DEF OrdersSitInTheirShop
  <2>1. order[o].table # gone
    BY <1>2, <1>3
  <2>2. order'[o] = order[o]
    BY <1>2, <2>1
  <2>3. order[o].table \in DOMAIN table'
    BY <1>4, <2>1, <2>2 DEF TypeOK
  <2>. QED
    BY <1>4, <2>2, <2>3 DEF OrdersSitInTheirShop
<1>8. /\ RequestsOK' /\ request'[r].pc = "done"
      /\ \A q \in Requests : q # r => request'[q] = request[q]
  BY <1>1, BecomeType DEF Pcs
<1>9. PollOK' /\ IdsOnce' /\ FoundInShop'
  <2>1. PollOK' /\ IdsOnce'
    BY <1>1, <1>4, <1>8 DEF PollOK, IdsOnce
  <2>2. FoundInShop'
    BY <1>4, <1>8 DEF FoundInShop
  <2>. QED
    BY <2>1, <2>2
<1>. QED
  BY <1>6, <1>7, <1>8, <1>9

-----------------------------------------------------------------------------
(* Orders that move, events and polls. *)

LEMMA MoveInv ==
  ASSUME IInv, NEW o \in DOMAIN order, NEW to \in OrderState, MoveOrder(o, to) PROVE IInv'
<1> USE DEF IInv
<1> DEFINE new == [order[o] EXCEPT !.state = to]
<1>1. UNCHANGED <<table, floor, poll, request>>
  BY DEF MoveOrder, page
<1>2. new \in [shop: Shops, table: DOMAIN table \cup {NoTable}, state: OrderState]
      /\ new.shop = order[o].shop /\ new.table = order[o].table
  BY DEF TypeOK
<1>3. order' = [order EXCEPT ![o] = new]
  BY DEF MoveOrder
<1> HIDE DEF new
<1>4. TypeOK'
  BY <1>1, <1>2, <1>3 DEF TypeOK
<1>5. OrdersSitInTheirShop'
  BY <1>1, <1>2, <1>3 DEF OrdersSitInTheirShop
<1>. QED
  BY <1>1, <1>4, <1>5 DEF RequestsOK, PollOK, IdsOnce, FoundInShop

LEMMA EventInv ==
  ASSUME IInv, NEW e \in Emitters, EmitRow(e) \/ EmitOrders(e) \/ Publish(e) \/ LoseEvent(e)
  PROVE  IInv'
<1>1. UNCHANGED <<table, order, poll, request>> /\ DOMAIN floor' = DOMAIN floor
  BY DEF EmitRow, EmitOrders, Publish, LoseEvent, database, page
<1>. QED
  BY <1>1 DEF IInv, TypeOK, RequestsOK, PollOK, IdsOnce, OrdersSitInTheirShop, FoundInShop

LEMMA PollInv == ASSUME IInv, Poll PROVE IInv'
<1> USE DEF IInv
<1>1. UNCHANGED <<table, order, request>>
  BY DEF Poll, PollTables, PollOrders, PollAnswer, database
<1>2. PollOK' /\ DOMAIN floor' \subseteq Ids
  <2>1. CASE PollTables
    BY <2>1 DEF PollTables, TypeOK, PollOK, TablesOf
  <2>2. CASE PollOrders
    BY <2>2 DEF PollOrders, TypeOK, PollOK
  <2>3. CASE PollAnswer
    BY <2>3 DEF PollAnswer, TypeOK, PollOK, Replaced, Quiet
  <2>. QED
    BY <2>1, <2>2, <2>3 DEF Poll
<1>. QED
  BY <1>1, <1>2 DEF TypeOK, RequestsOK, IdsOnce, OrdersSitInTheirShop, FoundInShop

LEMMA NextInv == IInv /\ [Next]_vars => IInv'
<1> SUFFICES ASSUME IInv, [Next]_vars PROVE IInv'
  OBVIOUS
<1>1. ASSUME UNCHANGED vars PROVE IInv'
  BY <1>1 DEF vars, IInv, TypeOK, RequestsOK, PollOK, IdsOnce, OrdersSitInTheirShop, FoundInShop
<1>. QED
  BY <1>1, ResolveInv, FallbackInv, PlaceInv, CreateInv, CheckNameInv, RenameInv, CountInv,
     DeleteInv, AbortInv, MoveInv, EventInv, PollInv DEF Next

\* The rows of the tables, the orders at them and what executions found.
THEOREM Invariance == Spec => []IInv
BY InitInv, NextInv, PTL DEF Spec

\* A shop's table numbers stay unique and every order's table exists, however
\* lookups, inserts, renames and deletions race.
THEOREM TypeCorrectness == Spec => []TypeOK
<1>1. IInv => TypeOK
  BY DEF IInv
<1>. QED
  BY <1>1, Invariance, PTL

\* No race puts an order at another shop's table, the demo table excepted.
THEOREM OrdersStayInShop == Spec => []OrdersSitInTheirShop
<1>1. IInv => OrdersSitInTheirShop
  BY DEF IInv
<1>. QED
  BY <1>1, Invariance, PTL

-----------------------------------------------------------------------------
(* What a deletion counted.  Between the count and the delete orders arrive  *)
(* and move on; the orders that were counted cannot come back to life.       *)

Closed == {"COMPLETED", "CANCELLED"}

\* Orders are there because their execution is over.
OrdersPlaced == \A o \in DOMAIN order : request[o].pc = "done"

\* An execution about to delete has seen no open order of its table.
CountHolds ==
  \A r \in Requests : request[r].pc = "delete" =>
    /\ request[r].input.op = "deleteTable"
    /\ \A o \in request[r].seen :
         /\ o \in DOMAIN order
         /\ order[o].table = request[r].input.table => order[o].state \in Closed

CountedInv == IInv /\ OrdersPlaced /\ CountHolds

\* No execution starts again, and none but the one that counts comes to the
\* point of deleting.
ExecutionsGoOn ==
  \A q \in Requests :
    /\ request[q].pc = "done" => request'[q].pc = "done"
    /\ request'[q].pc = "delete" =>
         /\ request[q].pc = "delete"
         /\ request'[q].input = request[q].input /\ request'[q].seen = request[q].seen

\* Orders stay, at their table or at none, and what is closed stays closed.
OrdersGoOn ==
  /\ \A o \in DOMAIN order' \ DOMAIN order : request'[o].pc = "done"
  /\ \A o \in DOMAIN order :
       /\ o \in DOMAIN order'
       /\ order'[o].table \in {order[o].table, NoTable}
       /\ order[o].state \in Closed => order'[o].state \in Closed

TablesKept == \A o \in DOMAIN order : order'[o].table = order[o].table

LEMMA GoOnCounted ==
  ASSUME CountedInv, ExecutionsGoOn, OrdersGoOn PROVE OrdersPlaced' /\ CountHolds'
<1>1. OrdersPlaced'
  BY DEF CountedInv, IInv, TypeOK, OrdersPlaced, ExecutionsGoOn, OrdersGoOn
<1>2. CountHolds'
  <2> SUFFICES ASSUME NEW r \in Requests, request'[r].pc = "delete"
               PROVE  /\ request'[r].input.op = "deleteTable"
                      /\ \A o \in request'[r].seen :
                           /\ o \in DOMAIN order'
                           /\ order'[o].table = request'[r].input.table => order'[o].state \in Closed
    BY DEF CountHolds
  <2>1. /\ request[r].pc = "delete" /\ request'[r].input = request[r].input
        /\ request'[r].seen = request[r].seen /\ request[r].input.op = "deleteTable"
    BY DEF ExecutionsGoOn, CountedInv, CountHolds
  <2>2. request[r].input.table # NoTable
    <3>1. request[r].input \in Inputs
      BY DEF CountedInv, IInv, RequestsOK
    <3>. QED
      BY <2>1, <3>1, InputAssumption, TableAssumption DEF Input
  <2>3. \A o \in request[r].seen :
          o \in DOMAIN order /\ (order[o].table = request[r].input.table => order[o].state \in Closed)
    BY <2>1 DEF CountedInv, CountHolds
  <2>. QED
    BY <2>1, <2>2, <2>3 DEF OrdersGoOn
<1>. QED
  BY <1>1, <1>2

LEMMA BecomeGoesOn ==
  ASSUME RequestsOK, NEW r \in Requests, NEW pc, pc # "delete", request[r].pc # "done",
         Become(r, pc)
  PROVE  ExecutionsGoOn
BY DEF Become, RequestsOK, ExecutionsGoOn

LEMMA ResolvedGoesOn ==
  ASSUME RequestsOK, NEW r \in Requests, NEW t, request[r].pc # "done", Resolved(r, t)
  PROVE  ExecutionsGoOn
BY DEF Resolved, RequestsOK, ExecutionsGoOn

LEMMA OrdersAlone == ASSUME UNCHANGED order PROVE OrdersGoOn /\ TablesKept
BY DEF OrdersGoOn, TablesKept

\* Executions that leave the orders alone and count none.
LEMMA LookupsGoOn ==
  ASSUME CountedInv, NEW r \in Requests,
         \/ ResolveTable(r) \/ FallbackTable(r) \/ CreateTable(r)
         \/ CheckName(r) \/ RenameTable(r) \/ Abort(r)
  PROVE  ExecutionsGoOn /\ OrdersGoOn /\ TablesKept
<1>1. UNCHANGED order /\ request[r].pc # "done"
  BY DEF ResolveTable, FallbackTable, CreateTable, CheckName, RenameTable, Abort, At, database
<1>2. (\E pc \in Pcs \ {"delete"} : Become(r, pc)) \/ \E t \in DOMAIN table \cup {DemoId} : Resolved(r, t)
  <2>1. CASE ResolveTable(r)
    BY <2>1 DEF ResolveTable, Pcs, Named, TablesOf
  <2>2. CASE FallbackTable(r)
    BY <2>2 DEF FallbackTable, Pcs, TablesOf
  <2>3. CASE CreateTable(r) \/ CheckName(r) \/ RenameTable(r) \/ Abort(r)
    BY <2>3 DEF CreateTable, CheckName, RenameTable, Abort, Pcs
  <2>. QED
    BY <2>1, <2>2, <2>3
<1>3. RequestsOK
  BY DEF CountedInv, IInv
<1>. QED
  BY <1>1, <1>2, <1>3, BecomeGoesOn, ResolvedGoesOn, OrdersAlone

\* A new order is named after the execution that ends with it.
LEMMA PlaceGoesOn ==
  ASSUME CountedInv, NEW r \in Requests, PlaceOrder(r)
  PROVE  ExecutionsGoOn /\ OrdersGoOn /\ TablesKept
<1>1. RequestsOK /\ Become(r, "done") /\ request[r].pc = "insert" /\ r \notin DOMAIN order
  BY DEF CountedInv, IInv, OrdersPlaced, PlaceOrder, At
<1>2. ExecutionsGoOn /\ request'[r].pc = "done"
  BY <1>1, BecomeGoesOn, BecomeType DEF Pcs
<1>3. /\ DOMAIN order \subseteq DOMAIN order' /\ DOMAIN order' \subseteq DOMAIN order \cup {r}
      /\ \A o \in DOMAIN order : order'[o] = order[o]
  BY <1>1 DEF PlaceOrder
<1>. QED
  BY <1>2, <1>3 DEF OrdersGoOn, TablesKept

LEMMA DeleteGoesOn ==
  ASSUME CountedInv, NEW r \in Requests, DeleteTable(r) PROVE ExecutionsGoOn /\ OrdersGoOn
<1>1. RequestsOK /\ Become(r, "done") /\ request[r].pc = "delete"
  BY DEF CountedInv, IInv, DeleteTable, At
<1>2. ExecutionsGoOn
  BY <1>1, BecomeGoesOn
<1>3. /\ DOMAIN order' = DOMAIN order
      /\ \A o \in DOMAIN order : \/ order'[o] = order[o]
                                 \/ order'[o] = [order[o] EXCEPT !.table = NoTable]
  BY DEF DeleteTable
<1>4. \A o \in DOMAIN order : order[o] \in [shop: Shops, table: DOMAIN table \cup {NoTable}, state: OrderState]
  BY DEF CountedInv, IInv, TypeOK
<1>5. \A o \in DOMAIN order : order'[o].state = order[o].state /\ order'[o].table \in {order[o].table, NoTable}
  BY <1>3, <1>4
<1>. QED
  BY <1>2, <1>3, <1>5 DEF OrdersGoOn

\* No step of OrderLifecycle leaves COMPLETED or CANCELLED.
LEMMA MoveGoesOn ==
  ASSUME CountedInv, NEW o \in DOMAIN order, NEW to \in OrderState, MoveOrder(o, to)
  PROVE  ExecutionsGoOn /\ OrdersGoOn /\ TablesKept
<1>1. /\ UNCHANGED request /\ order' = [order EXCEPT ![o].state = to]
      /\ <<order[o].state, to>> \in Announced \cup Silent
  BY DEF MoveOrder
<1>2. order[o].state \notin Closed
  BY <1>1 DEF Announced, Silent, Closed
<1>3. \A p \in DOMAIN order : order[p] \in [shop: Shops, table: DOMAIN table \cup {NoTable}, state: OrderState]
  BY DEF CountedInv, IInv, TypeOK
<1>4. /\ DOMAIN order' = DOMAIN order
      /\ \A p \in DOMAIN order : /\ order'[p].table = order[p].table
                                 /\ p # o => order'[p].state = order[p].state
  BY <1>1, <1>3
<1>5. OrdersGoOn /\ TablesKept
  BY <1>2, <1>4 DEF OrdersGoOn, TablesKept
<1>. QED
  BY <1>1, <1>5 DEF ExecutionsGoOn

LEMMA PageGoesOn ==
  ASSUME \/ UNCHANGED vars \/ Poll
         \/ \E e \in Emitters : EmitRow(e) \/ EmitOrders(e) \/ Publish(e) \/ LoseEvent(e)
  PROVE  ExecutionsGoOn /\ OrdersGoOn /\ TablesKept
<1>1. UNCHANGED <<order, request>>
  BY DEF vars, Poll, PollTables, PollOrders, PollAnswer, EmitRow, EmitOrders, Publish, LoseEvent, database
<1>. QED
  BY <1>1, OrdersAlone DEF ExecutionsGoOn

\* The count itself: whatever it does not find blocking is closed.
LEMMA CountCounts ==
  ASSUME CountedInv, NEW r \in Requests, CountBlocking(r)
  PROVE  OrdersPlaced' /\ CountHolds' /\ TablesKept
<1> DEFINE t == request[r].input.table
           new == [request[r] EXCEPT !.pc = "delete", !.seen = DOMAIN order]
<1>0. RequestsOK
  BY DEF CountedInv, IInv
<1>1. /\ request' = [request EXCEPT ![r] = new] /\ UNCHANGED order
      /\ request[r].pc = "idle" /\ request[r].input.op = "deleteTable"
      /\ \A o \in DOMAIN order : ~Blocks(o, t)
  BY <1>0 DEF CountBlocking, RequestsOK, database, At
<1>2. new.pc = "delete" /\ new.input = request[r].input /\ new.seen = DOMAIN order
  BY <1>0 DEF RequestsOK
<1> HIDE DEF new
<1>3. /\ request'[r] = new
      /\ \A q \in Requests : q # r => request'[q] = request[q]
  BY <1>0, <1>1 DEF RequestsOK
<1>4. \A o \in DOMAIN order : order[o].table = t => order[o].state \in Closed
  BY <1>1 DEF CountedInv, IInv, TypeOK, Blocks, merchantStatusFromOrderState, Closed
<1>5. OrdersPlaced'
  <2>1. r \notin DOMAIN order /\ DOMAIN order \subseteq Requests
    BY <1>1 DEF CountedInv, IInv, TypeOK, OrdersPlaced
  <2>. QED
    BY <1>1, <1>3, <2>1 DEF CountedInv, OrdersPlaced
<1>6. CountHolds'
  <2> SUFFICES ASSUME NEW q \in Requests, request'[q].pc = "delete"
               PROVE  /\ request'[q].input.op = "deleteTable"
                      /\ \A o \in request'[q].seen :
                           /\ o \in DOMAIN order
                           /\ order[o].table = request'[q].input.table => order[o].state \in Closed
    BY <1>1 DEF CountHolds
  <2>1. CASE q = r
    BY <2>1, <1>1, <1>2, <1>3, <1>4
  <2>2. CASE q # r
    BY <2>2, <1>3 DEF CountedInv, CountHolds
  <2>. QED
    BY <2>1, <2>2
<1>. QED
  BY <1>1, <1>5, <1>6 DEF TablesKept

LEMMA NextCounted == CountedInv /\ [Next]_vars => CountedInv'
<1> SUFFICES ASSUME CountedInv, [Next]_vars PROVE CountedInv'
  OBVIOUS
<1>1. IInv'
  BY NextInv DEF CountedInv
<1>2. OrdersPlaced' /\ CountHolds'
  <2>1. ASSUME NEW r \in Requests, CountBlocking(r) PROVE OrdersPlaced' /\ CountHolds'
    BY <2>1, CountCounts
  <2>2. ASSUME NEW r \in Requests,
               \/ ResolveTable(r) \/ FallbackTable(r) \/ PlaceOrder(r) \/ CreateTable(r)
               \/ CheckName(r) \/ RenameTable(r) \/ DeleteTable(r) \/ Abort(r)
        PROVE  OrdersPlaced' /\ CountHolds'
    BY <2>2, LookupsGoOn, PlaceGoesOn, DeleteGoesOn, GoOnCounted
  <2>3. ASSUME NEW o \in DOMAIN order, NEW to \in OrderState, MoveOrder(o, to)
        PROVE  OrdersPlaced' /\ CountHolds'
    BY <2>3, MoveGoesOn, GoOnCounted
  <2>4. ASSUME \/ UNCHANGED vars \/ Poll
               \/ \E e \in Emitters : EmitRow(e) \/ EmitOrders(e) \/ Publish(e) \/ LoseEvent(e)
        PROVE  OrdersPlaced' /\ CountHolds'
    BY <2>4, PageGoesOn, GoOnCounted
  <2>. QED
    BY <2>1, <2>2, <2>3, <2>4 DEF Next
<1>. QED
  BY <1>1, <1>2 DEF CountedInv

LEMMA InitCounted == Init => CountedInv
<1> SUFFICES ASSUME Init PROVE CountedInv
  OBVIOUS
<1>1. IInv /\ DOMAIN order = {} /\ \A r \in Requests : request[r].pc = "idle"
  BY InitInv DEF Init
<1>. QED
  BY <1>1 DEF CountedInv, OrdersPlaced, CountHolds

\* What executions counted before they delete stays true until they do.
THEOREM CountsHold == Spec => []CountedInv
BY InitCounted, NextCounted, PTL DEF Spec

\* An order that a deletion counted loses its table only when it is closed;
\* any other order that loses it came between the count and the delete.
THEOREM CountedOrdersStay == Spec => CountedOrdersKeepTheirTable
<1> DEFINE Step ==
      \A o \in DOMAIN order :
        order[o].table # NoTable /\ order'[o].table = NoTable =>
          \/ order[o].state \in {"COMPLETED", "CANCELLED"}
          \/ \E r \in Requests : /\ request[r].pc = "delete"
                                 /\ request'[r].pc = "done"
                                 /\ o \notin request[r].seen
<1>1. CountedInv /\ [Next]_vars => [Step]_vars
  <2> SUFFICES ASSUME CountedInv, Next PROVE Step
    OBVIOUS
  <2>1. ASSUME TablesKept PROVE Step
    BY <2>1 DEF TablesKept
  <2>2. ASSUME NEW r \in Requests, DeleteTable(r) PROVE Step
    <3>1. /\ request[r].pc = "delete" /\ request'[r].pc = "done"
          /\ \A o \in DOMAIN order : order[o].table # request[r].input.table => order'[o] = order[o]
      BY <2>2, BecomeType DEF DeleteTable, At, CountedInv, IInv, Pcs
    <3>2. \A o \in request[r].seen : order[o].table = request[r].input.table => order[o].state \in Closed
      BY <3>1 DEF CountedInv, CountHolds
    <3>. QED
      BY <3>1, <3>2 DEF Closed
  <2>. QED
    BY <2>1, <2>2, LookupsGoOn, PlaceGoesOn, CountCounts, MoveGoesOn, PageGoesOn DEF Next
<1>. QED
  BY <1>1, CountsHold, PTL DEF Spec, CountedOrdersKeepTheirTable

=============================================================================
