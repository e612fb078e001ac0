--------------------------- MODULE OrderPlacement ---------------------------
(***************************************************************************)
(* createOrder (apps/order-service/src/order/order.service.ts): the        *)
(* idempotency lookup, the search for an open dine-in order to add lines   *)
(* to, the deduction of stock in Redis one line at a time, and then either *)
(* the transaction that creates the order or the one that appends to the   *)
(* order found.                                                            *)
(*                                                                         *)
(* Stock lives in Redis and orders in PostgreSQL: nothing makes the two    *)
(* atomic, so each Redis script and each statement group is a step of its  *)
(* own.  A retry is another request with the same input.  An order is      *)
(* named after the request that created it.                                *)
(***************************************************************************)
EXTENDS Integers, Sequences, FiniteSetsExt, OrderColumns

CONSTANTS
  Requests,      \* executions of createOrder; each runs at most once
  Serial,        \* TRUE: one execution at a time, its append undisturbed
  Inputs,        \* what customers submit (see Input)
  Keys, Users, Tables, Products, Coupons,
  NoTable, NoCoupon, NoOrder,
  Price,         \* unit price of a product, in cents
  InitialStock,  \* units in Redis; Untracked where the key is not set
  Untracked,
  UsageLimit,    \* usageLimit of a coupon; 0: unlimited
  DiscountValue, \* percentage taken off by a coupon
  FixedFee       \* the shop's delivery fee

Line == [product: Products, amount: Nat \ {0}]

\* An input after resolveCreateOrderDeliveryTypeAndTableRef: a table makes an
\* order DINE_IN, and a DINE_IN order without one has been refused.
Input == [key: Keys, user: Users, deliveryType: DeliveryType,
          table: Tables \cup {NoTable}, paymentMethod: PaymentMethod,
          coupon: Coupons \cup {NoCoupon}, items: Seq(Line)]

ASSUME InputAssumption ==
  /\ Inputs \subseteq Input
  /\ \A i \in Inputs : /\ i.items # << >>
                       /\ i.deliveryType = "DINE_IN" <=> i.table # NoTable
\* A shop sells finitely many products, so that their prices have a sum.
ASSUME MenuAssumption == IsFiniteSet(Products)
ASSUME MoneyAssumption ==
  /\ Price \in [Products -> Nat] /\ FixedFee \in Nat
  /\ DiscountValue \in [Coupons -> Nat] /\ UsageLimit \in [Coupons -> Nat]
ASSUME StockAssumption ==
  /\ InitialStock \in [Products -> Nat \cup {Untracked}] /\ Untracked \notin Nat
ASSUME NullAssumption ==
  NoTable \notin Tables /\ NoCoupon \notin Coupons /\ NoOrder \notin Requests
ASSUME SerialAssumption == Serial \in BOOLEAN

VARIABLES
  order,     \* Order rows with their OrderItem rows, by creating request
  stock,     \* ejoy:stock:<productId> in Redis
  usedCount, \* Coupon.usedCount
  request    \* local state of each execution

vars == <<order, stock, usedCount, request>>

\* buildRequestHash covers every field of the input but the user, and sorts
\* the lines by product.
Payload(input) ==
  [f \in DOMAIN input \ {"user"} |->
     IF f = "items"
     THEN [p \in Products |-> SelectSeq(input.items, LAMBDA line : line.product = p)]
     ELSE input[f]]

OrderRow ==
  [input: Inputs, state: OrderState, units: [Products -> Nat],
   subtotal: Nat, discount: Nat, fee: Nat, total: Nat, asked: Nat]

\* Where an execution stands, and how it ended.
Running == {"target", "deduct", "write", "append", "replay"}
Accepted == {"created", "appended", "replayed"}
Ended == Accepted \cup {"refused", "aborted"}

RequestState ==
  [pc: {"idle"} \cup Running \cup Ended,
   input: Inputs,
   taken: Nat,                         \* lines deducted so far
   target: Requests \cup {NoOrder},    \* the open order found; the answer
   read: Nat]                          \* its subtotal as the append read it

-----------------------------------------------------------------------------
(* Amounts. *)

\* Units of product p in the first n lines of an input.
UnitsOf(input, p, n) ==
  SumFunctionOnSet([i \in 1..n |-> input.items[i].amount],
                   {i \in 1..n : input.items[i].product = p})

Units(input) == [p \in Products |-> UnitsOf(input, p, Len(input.items))]

SubtotalOf(units) == SumFunction([p \in Products |-> Price[p] * units[p]])

Discount(subtotal, coupon) ==
  IF coupon = NoCoupon THEN 0 ELSE (subtotal * DiscountValue[coupon]) \div 100

Total(subtotal, discount, fee) ==
  IF subtotal + fee > discount THEN subtotal + fee - discount ELSE 0

Fee(deliveryType) == IF deliveryType = "DELIVERY" THEN FixedFee ELSE 0

-----------------------------------------------------------------------------
Init ==
  /\ order = << >>
  /\ stock = InitialStock
  /\ usedCount = [c \in Coupons |-> 0]
  /\ request \in [Requests -> [pc: {"idle"}, input: Inputs, taken: {0},
                               target: {NoOrder}, read: {0}]]

InFlight(r) == request[r].pc \in Running

\* In a serial system a request waits for the one in flight, and a payment or a
\* cancellation for the transaction that appends.
MayStart == Serial => \A q \in Requests : ~InFlight(q)
MayIntervene == Serial => \A q \in Requests : request[q].pc # "append"

Become(r, pc) == request' = [request EXCEPT ![r].pc = pc]

Answer(r, outcome, o) ==
  request' = [request EXCEPT ![r].pc = outcome, ![r].target = o]

\* The order an idempotency key is bound to by the unique index; at most one.
Bound(key) == {o \in DOMAIN order : order[o].input.key = key}

\* Mutant: the request hash is not compared.
SamePayloadUnchecked(o, input) == TRUE

SamePayload(o, input) == Payload(order[o].input) = Payload(input)

\* What findUnique by key answers: a replay, or a conflict.
AnswerReplay(r, o) ==
  IF SamePayload(o, request[r].input) THEN Answer(r, "replayed", o)
  ELSE Become(r, "refused")

\* The request arrives and looks its key up.
Submit(r) ==
  LET found == Bound(request[r].input.key) IN
  /\ request[r].pc = "idle"
  /\ MayStart
  /\ \/ found = {} /\ Become(r, "target")
     \/ \E o \in found : AnswerReplay(r, o)
  /\ UNCHANGED <<order, stock, usedCount>>

\* The open dine-in orders of the same table, customer and payment method.  An
\* order in PENDING_PAYMENT always shows PENDING on the board.
Open(o, input) ==
  /\ order[o].input.table = input.table
  /\ order[o].input.user = input.user
  /\ order[o].state = "PENDING_PAYMENT"

AppendTargets(input) ==
  IF input.deliveryType # "DINE_IN" THEN {}
  ELSE {o \in DOMAIN order :
          Open(o, input) /\ order[o].input.paymentMethod = input.paymentMethod}

\* findFirst of the newest one: of two orders created in a race either may be.
FindTarget(r) ==
  LET input == request[r].input
      found == AppendTargets(input)
  IN /\ request[r].pc = "target"
     /\ \/ /\ found = {}
           /\ Become(r, "deduct")
        \/ /\ found # {} /\ input.coupon # NoCoupon
           /\ Become(r, "refused")
        \/ /\ input.coupon = NoCoupon
           /\ \E o \in found : Answer(r, "deduct", o)
     /\ UNCHANGED <<order, stock, usedCount>>

-----------------------------------------------------------------------------
(* InventoryService.atomicDeduct, once per line. *)

\* Mutant: the script only looks for some stock.
SomeStock(p, n) == stock[p] # Untracked => stock[p] > 0

Enough(p, n) == stock[p] # Untracked => stock[p] >= n

\* Mutant: the script takes one unit whatever was requested.
DeductOne(p, n) ==
  stock' = IF stock[p] = Untracked THEN stock ELSE [stock EXCEPT ![p] = @ - 1]

Deduct(p, n) ==
  stock' = IF stock[p] = Untracked THEN stock ELSE [stock EXCEPT ![p] = @ - n]

\* A line that finds too little ends the request; the lines before it stay
\* deducted.
DeductLine(r) ==
  LET q == request[r]
      line == q.input.items[q.taken + 1]
  IN /\ q.pc = "deduct"
     /\ q.taken < Len(q.input.items)
     /\ \/ /\ Enough(line.product, line.amount)
           /\ Deduct(line.product, line.amount)
           /\ request' = [request EXCEPT ![r].taken = q.taken + 1]
        \/ /\ ~Enough(line.product, line.amount)
           /\ Become(r, "refused")
           /\ UNCHANGED stock
     /\ UNCHANGED <<order, usedCount>>

Deducted(r) ==
  /\ request[r].pc = "deduct"
  /\ request[r].taken = Len(request[r].input.items)
  /\ Become(r, "write")
  /\ UNCHANGED <<order, stock, usedCount>>

-----------------------------------------------------------------------------
(* The transaction that creates the order. *)

\* Mutant: the limit is compared with <=.
CouponLeftInclusive(c) == UsageLimit[c] = 0 \/ usedCount[c] <= UsageLimit[c]

\* updateMany WHERE usedCount < usageLimit; an unlimited coupon always counts.
CouponLeft(c) == UsageLimit[c] = 0 \/ usedCount[c] < UsageLimit[c]

NewRow(input, state) ==
  LET subtotal == SubtotalOf(Units(input))
      discount == Discount(subtotal, input.coupon)
      fee == Fee(input.deliveryType)
  IN [input |-> input, state |-> state, units |-> Units(input),
      subtotal |-> subtotal, discount |-> discount, fee |-> fee,
      total |-> Total(subtotal, discount, fee), asked |-> 0]

Creating(r) == request[r].pc = "write" /\ request[r].target = NoOrder

\* The coupon is counted and the order inserted, or neither.
CreateOrder(r) ==
  LET input == request[r].input IN
  /\ Creating(r)
  /\ Bound(input.key) = {}
  /\ input.coupon # NoCoupon => CouponLeft(input.coupon)
  /\ \E state \in InitialStates(input.deliveryType,
                                InitialPaymentState(input.paymentMethod)) :
       order' = [o \in DOMAIN order \cup {r} |->
                   IF o = r THEN NewRow(input, state) ELSE order[o]]
  /\ usedCount' = IF input.coupon = NoCoupon THEN usedCount
                  ELSE [usedCount EXCEPT ![input.coupon] = @ + 1]
  /\ Answer(r, "created", r)
  /\ UNCHANGED stock

\* An invalid or exhausted coupon, a shop that does not deliver, a foreign
\* address: the transaction rolls back.
CreateRefused(r) ==
  /\ Creating(r)
  /\ \/ request[r].input.coupon # NoCoupon
     \/ request[r].input.deliveryType = "DELIVERY"
  /\ Become(r, "refused")
  /\ UNCHANGED <<order, stock, usedCount>>

\* P2002 on the key: everything rolls back, and the winner is looked up.
CreateConflict(r) ==
  /\ Creating(r)
  /\ Bound(request[r].input.key) # {}
  /\ Become(r, "replay")
  /\ UNCHANGED <<order, stock, usedCount>>

FindReplay(r) ==
  /\ request[r].pc = "replay"
  /\ \E o \in Bound(request[r].input.key) : AnswerReplay(r, o)
  /\ UNCHANGED <<order, stock, usedCount>>

-----------------------------------------------------------------------------
(* appendItemsToExistingOrder.  Its transaction reads the order, then writes *)
(* absolute amounts: at READ COMMITTED another transaction may commit        *)
(* between the two.  The new items appear with the commit.                   *)

\* Mutant: the order found before the deduction is not looked at again.
AppendReadUnchecked(r) ==
  LET o == request[r].target IN
  /\ request[r].pc = "write" /\ o # NoOrder
  /\ request' = [request EXCEPT ![r].pc = "append", ![r].read = order[o].subtotal]
  /\ UNCHANGED <<order, stock, usedCount>>

\* Mutant: the append reads what the order comes to after its discount.
AppendReadTotal(r) ==
  LET o == request[r].target IN
  /\ request[r].pc = "write" /\ o # NoOrder
  /\ \/ /\ Open(o, request[r].input)
        /\ request' = [request EXCEPT ![r].pc = "append",
                                      ![r].read = order[o].total]
     \/ /\ ~Open(o, request[r].input)
        /\ Become(r, "refused")
  /\ UNCHANGED <<order, stock, usedCount>>

AppendRead(r) ==
  LET o == request[r].target IN
  /\ request[r].pc = "write" /\ o # NoOrder
  /\ \/ /\ Open(o, request[r].input)
        /\ request' = [request EXCEPT ![r].pc = "append",
                                      ![r].read = order[o].subtotal]
     \/ /\ ~Open(o, request[r].input)
        /\ Become(r, "refused")
  /\ UNCHANGED <<order, stock, usedCount>>

\* Mutant: the discount the order got is forgotten.
AppendedRowFullPrice(row, input, read) ==
  LET subtotal == read + SubtotalOf(Units(input)) IN
  [row EXCEPT !.units = [p \in Products |-> @[p] + Units(input)[p]],
              !.subtotal = subtotal,
              !.total = Total(subtotal, 0, 0)]

\* Mutant: the added lines are priced twice.
AppendedRowDoubled(row, input, read) ==
  LET subtotal == read + 2 * SubtotalOf(Units(input)) IN
  [row EXCEPT !.units = [p \in Products |-> @[p] + Units(input)[p]],
              !.subtotal = subtotal,
              !.total = Total(subtotal, row.discount, 0)]

\* Mutant: the amount starts over with the added lines.
AppendedRowRestarted(row, input, read) ==
  LET subtotal == SubtotalOf(Units(input)) IN
  [row EXCEPT !.units = [p \in Products |-> @[p] + Units(input)[p]],
              !.subtotal = subtotal,
              !.total = Total(subtotal, row.discount, 0)]

AppendedRow(row, input, read) ==
  LET subtotal == read + SubtotalOf(Units(input)) IN
  [row EXCEPT !.units = [p \in Products |-> @[p] + Units(input)[p]],
              !.subtotal = subtotal,
              !.total = Total(subtotal, row.discount, Fee(row.input.deliveryType))]

AppendItems(r) ==
  LET o == request[r].target IN
  /\ request[r].pc = "append"
  /\ order' = [order EXCEPT ![o] = AppendedRow(@, request[r].input, request[r].read)]
  /\ Become(r, "appended")
  /\ UNCHANGED <<stock, usedCount>>

-----------------------------------------------------------------------------
(* Everything else that happens meanwhile. *)

\* The process dies, an await throws, or a check on the shop's data (a table,
\* a product that is no longer sold) fails before the writes.
Abort(r) ==
  /\ InFlight(r)
  /\ Become(r, "aborted")
  /\ UNCHANGED <<order, stock, usedCount>>

\* initiatePayment asks the provider for the total it has read.
AskPayment(o) ==
  /\ MayIntervene
  /\ order[o].state = "PENDING_PAYMENT"
  /\ order' = [order EXCEPT ![o].asked = order[o].total]
  /\ UNCHANGED <<stock, usedCount, request>>

\* The handlers of OrderLifecycle that take an order out of PENDING_PAYMENT.
LeavePending(o) ==
  /\ MayIntervene
  /\ order[o].state = "PENDING_PAYMENT"
  /\ \E state \in {"PAYMENT_FAILED", "CANCELLED"}
                   \cup SettledStates(order[o].input.deliveryType) :
       order' = [order EXCEPT ![o].state = state]
  /\ UNCHANGED <<stock, usedCount, request>>

Next ==
  \/ \E r \in Requests :
       \/ Submit(r) \/ FindTarget(r) \/ DeductLine(r) \/ Deducted(r)
       \/ CreateOrder(r) \/ CreateRefused(r) \/ CreateConflict(r) \/ FindReplay(r)
       \/ AppendRead(r) \/ AppendItems(r) \/ Abort(r)
  \/ \E o \in DOMAIN order : AskPayment(o) \/ LeavePending(o)

Spec == Init /\ [][Next]_vars

-----------------------------------------------------------------------------
(* Properties of every interleaving. *)

\* Rows, stock and requests have the shape their columns allow; Redis never
\* holds a negative stock.
TypeOK ==
  /\ DOMAIN order \subseteq Requests
  /\ \A o \in DOMAIN order : order[o] \in OrderRow
  /\ stock \in [Products -> Nat \cup {Untracked}]
  /\ usedCount \in [Coupons -> Nat]
  /\ request \in [Requests -> RequestState]

Tracked == {p \in Products : InitialStock[p] # Untracked}

\* Units of a product in all orders, and units taken by requests whose lines
\* are in no order: those in flight, and those that failed after deducting.
Sold(p) == SumFunction([o \in DOMAIN order |-> order[o].units[p]])
Held(p) ==
  SumFunctionOnSet([r \in Requests |-> UnitsOf(request[r].input, p, request[r].taken)],
                   {r \in Requests : /\ request[r].taken > 0
                                     /\ request[r].pc \notin {"created", "appended"}})

\* Redis and PostgreSQL agree on every unit although nothing commits them
\* together: a unit gone from stock is in an order, or was taken by a request
\* that has not ordered it (and nothing gives it back).
UnitsAccounted ==
  \A p \in Tracked : InitialStock[p] = stock[p] + Sold(p) + Held(p)

\* A coupon's count is the number of orders that carry it, through every
\* rollback, and stays within a limit that is set.
CouponUsesAreOrders ==
  \A c \in Coupons :
    /\ usedCount[c] = Cardinality({o \in DOMAIN order : order[o].input.coupon = c})
    /\ UsageLimit[c] > 0 => usedCount[c] <= UsageLimit[c]

\* A request answered with an order that was created gets the one its key and
\* its payload name, also when the answer comes from the race it lost.
AnswerMatchesRequest ==
  \A r \in Requests : request[r].pc \in {"created", "replayed"} =>
    Payload(order[request[r].target].input) = Payload(request[r].input)

\* The total follows from the subtotal by the discount granted at creation and
\* the fee of the delivery type, after any number of appends.
TotalsAgree ==
  \A o \in DOMAIN order :
    LET row == order[o] IN
    /\ row.total = Total(row.subtotal, row.discount, row.fee)
    /\ row.discount = Discount(SubtotalOf(Units(row.input)), row.input.coupon)

AppendedTo(r, o) == request[r].pc = "appended" /\ request[r].target = o

\* How wrong an amount can become when appends to one order read and write in
\* any order: the price of lines is lost only where two requests appended, the
\* first round is never lost, no amount exceeds what the lines cost, and nobody
\* is asked for more than they cost, however old the amount that was read.
AmountsFollowLines ==
  \A o \in DOMAIN order :
    LET row == order[o]
        lines == SubtotalOf(row.units)
    IN /\ SubtotalOf(Units(row.input)) <= row.subtotal
       /\ row.subtotal <= lines
       /\ row.asked <= Total(lines, row.discount, row.fee)
       /\ row.subtotal < lines =>
            \E r, q \in Requests : r # q /\ AppendedTo(r, o) /\ AppendedTo(q, o)

-----------------------------------------------------------------------------
(* Properties of executions that do not overlap. *)

\* The amount follows from the prices of the lines.
SubtotalIsSumOfLines ==
  \A o \in DOMAIN order : order[o].subtotal = SubtotalOf(order[o].units)

\* Lines are added to an order only while it waits for its payment, although it
\* may be paid or cancelled between the search for it and the append.
AppendsOnlyWhileUnpaid ==
  [][\A o \in DOMAIN order : order'[o].units # order[o].units =>
       order[o].state = "PENDING_PAYMENT"]_vars

\* The provider is never asked for more than the order comes to: later appends
\* only raise the total.  (They do raise it: the customer may pay less.)
NeverOvercharged ==
  \A o \in DOMAIN order : order[o].asked <= order[o].total

-----------------------------------------------------------------------------
(* What the repository says and createOrder does not keep. *)

\* order.service.spec.ts:97 "returns existing order for idempotent replay with
\* same payload": the lines submitted under one key are ordered once.
OrderedOncePerKey ==
  \A r, q \in Requests :
    /\ r # q
    /\ request[r].pc \in {"created", "appended"}
    /\ request[q].pc \in {"created", "appended"}
    => request[r].input.key # request[q].input.key

=============================================================================
