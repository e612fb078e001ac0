--------------------------- MODULE OrderLifecycle ---------------------------
(***************************************************************************)
(* The life of an order after createOrder has committed it: payment        *)
(* attempts, provider callbacks, reconciliation, the mock payment, the     *)
(* customer's cancellation, and the merchant's kitchen and delivery steps  *)
(* of OrderService (apps/order-service/src/order/order.service.ts).        *)
(*                                                                         *)
(* Every handler first reads the order row outside any transaction, awaits *)
(* other reads, and then writes columns computed from that snapshot with   *)
(* an update whose WHERE names the id alone.  A handler execution is a     *)
(* "request": its steps are separate actions, so the steps of two requests *)
(* interleave as the event loop and several service instances allow.  A    *)
(* $transaction is one action: it re-reads nothing that it writes, and the *)
(* row lock of order.update orders two of them.                            *)
(***************************************************************************)
EXTENDS Naturals, Sequences, OrderColumns

CONSTANTS
  Orders,           \* order ids
  Requests,         \* handler executions; each runs at most once
  Serial,           \* TRUE: one handler execution at a time
  Txns,             \* provider transaction ids (payment_order_id)
  Nonces,           \* nonces in the payload of confirmPaymentCallback
  Bodies,           \* raw payloads, told apart by their SHA-256 hash
  NoTxn,            \* the NULL of the providerTxnId column
  MockTxn,          \* mock_<timestamp>
  DeliveryTypes,    \* the delivery types in use
  CallbackNotices,  \* signed GraphQL callbacks a provider may send
  ProviderReports,  \* what a Telebirr notification or query answer may say
  MaxAttempts       \* bound: payment attempts per order

PaymentChannel == {"TELEBIRR_APP", "TELEBIRR_H5"}
CallbackStatus == {"SUCCESS", "FAILED", "PENDING"}

\* A provider query that names no transaction falls back to
\* telebirr_query_<orderId>, which the order id itself stands for.
TxnIds == Txns \cup Orders \cup {NoTxn, MockTxn}

Report == [txn: Txns, status: CallbackStatus, body: Bodies]
Notice == [txn: TxnIds, status: CallbackStatus, body: Bodies,
           nonce: Nonces \cup Orders]
Receipt == [order: Orders, txn: TxnIds, nonce: Nonces \cup Orders,
            body: Bodies]

ASSUME BoundAssumption == MaxAttempts \in Nat
ASSUME SerialAssumption == Serial \in BOOLEAN
ASSUME TypesAssumption == DeliveryTypes \subseteq DeliveryType
ASSUME NoticeAssumption ==
  /\ CallbackNotices \subseteq
       [txn: Txns, status: {"SUCCESS", "FAILED"}, body: Bodies, nonce: Nonces]
  /\ ProviderReports \subseteq Report

VARIABLES
  order,     \* the Order row: the columns the handlers below read or write
  attempts,  \* PaymentAttempt rows of an order, oldest first
  receipts,  \* PaymentCallbackReceipt rows
  newestLog, \* newest OrderStatusLog row of an order
  settled,   \* orders whose OrderStatusLog holds a settlement
  request    \* local state of each handler execution

vars == <<order, attempts, receipts, newestLog, settled, request>>

OrderRow ==
  [state: OrderState, status: OrderStatus, paymentState: PaymentState,
   txn: TxnIds, deliveryType: DeliveryTypes,
   paidAt: BOOLEAN, acceptedAt: BOOLEAN, completedAt: BOOLEAN,
   cancelledAt: BOOLEAN]

Attempt == [channel: PaymentChannel, txn: TxnIds, state: PaymentState]

LogEntry == [from: OrderState \cup {"NULL"}, to: OrderState]

-----------------------------------------------------------------------------
(* Handler executions. *)

CallbackOps == {"confirmPaymentCallback", "telebirrNotify", "telebirrQuery"}
MerchantTargets == {"PREPARING", "COMPLETED", "CANCELLED"}
PlainOps == {"initiatePayment", "mockPayment", "cancelOrder",
             "acceptDeliveryOrder", "markDeliveryOrderReady"}
            \cup MerchantTargets

Idle == [op |-> "idle"]
Done == [op |-> "done"]

\* A handler that carries no provider notice: read, then write (then log).
PlainRequest ==
  [op: PlainOps, pc: {"write", "log"}, order: Orders, snap: OrderRow]

\* A reconciliation waiting for the provider's answer.
QueryRequest == [op: {"query"}, order: Orders, snap: OrderRow]

\* A handler applying a notice: the attempt lookup, the receipt lookup and
\* the transaction follow the read of the order row.
NoticeRequest ==
  [op: CallbackOps, pc: {"attempt", "receipt", "write"}, order: Orders,
   snap: OrderRow, notice: Notice, attempt: Nat]

RequestState == {Idle, Done} \cup PlainRequest \cup QueryRequest \cup NoticeRequest

InFlight(r) == request[r] \notin {Idle, Done}

\* A request arrives; a serial system takes it only when no other one runs.
MayStart(r) ==
  /\ request[r] = Idle
  /\ Serial => \A q \in Requests : ~InFlight(q)

Finish(r) == request' = [request EXCEPT ![r] = Done]

\* findUnique on the order, outside any transaction.
Begin(r, o, op) ==
  /\ MayStart(r)
  /\ request' = [request EXCEPT ![r] =
       [op |-> op, pc |-> "write", order |-> o, snap |-> order[o]]]
  /\ UNCHANGED <<order, attempts, receipts, newestLog, settled>>

BeginNotice(r, o, op, n) ==
  request' = [request EXCEPT ![r] =
    [op |-> op, pc |-> "attempt", order |-> o, snap |-> order[o],
     notice |-> n, attempt |-> 0]]

At(r, op, pc) == request[r].op = op /\ request[r].pc = pc

\* The process dies, or an await throws: the request does nothing more.
Abort(r) ==
  /\ InFlight(r)
  /\ Finish(r)
  /\ UNCHANGED <<order, attempts, receipts, newestLog, settled>>

-----------------------------------------------------------------------------
(* The database when the requests begin to arrive. *)

InitialRow(state, paymentState, deliveryType) ==
  [state |-> state, status |-> initialMerchantStatus(state),
   paymentState |-> paymentState, txn |-> NoTxn, deliveryType |-> deliveryType,
   paidAt |-> FALSE, acceptedAt |-> FALSE, completedAt |-> FALSE,
   cancelledAt |-> FALSE]

\* The rows createOrder leaves behind: a Telebirr order waits for its payment;
\* a cash order needs none, and skips PENDING_PAYMENT only when delivered.
InitialRows ==
  UNION {{InitialRow(state, paymentState, t) : state \in InitialStates(t, paymentState)} :
           t \in DeliveryTypes,
           paymentState \in {InitialPaymentState(m) : m \in PaymentMethod}}

Init ==
  /\ order \in [Orders -> InitialRows]
  /\ attempts = [o \in Orders |-> << >>]
  /\ receipts = {}
  /\ newestLog = [o \in Orders |-> [from |-> "NULL", to |-> order[o].state]]
  /\ settled = {o \in Orders : order[o].state # "PENDING_PAYMENT"}
  /\ request = [r \in Requests |-> Idle]

\* order.update WHERE id, and the OrderStatusLog row of the same transaction.
UpdateOrder(o, row) == order' = [order EXCEPT ![o] = row]

\* Mutant: the two states of a log row swapped.
LogSwapped(o, from, to) ==
  newestLog' = [newestLog EXCEPT ![o] = [from |-> to, to |-> from]]

Log(o, from, to) ==
  newestLog' = [newestLog EXCEPT ![o] = [from |-> from, to |-> to]]

-----------------------------------------------------------------------------
(* initiatePayment: a new attempt; paymentState is set without looking at    *)
(* the row again, and the log repeats the state of the snapshot.             *)

InitiatePayment(r, o) ==
  /\ order[o].state = "PENDING_PAYMENT"
  /\ Begin(r, o, "initiatePayment")

InitiatePaymentTx(r, channel) ==
  LET o == request[r].order IN
  /\ At(r, "initiatePayment", "write")
  /\ Len(attempts[o]) < MaxAttempts
  /\ attempts' = [attempts EXCEPT ![o] =
       Append(@, [channel |-> channel, txn |-> NoTxn, state |-> "INITIATED"])]
  /\ UpdateOrder(o, [order[o] EXCEPT !.paymentState = "INITIATED"])
  /\ Log(o, request[r].snap.state, request[r].snap.state)
  /\ Finish(r)
  /\ UNCHANGED <<receipts, settled>>

-----------------------------------------------------------------------------
(* The mock payment of the sandbox. *)

MockPayment(r, o) ==
  /\ order[o].state = "PENDING_PAYMENT"
  /\ Begin(r, o, "mockPayment")

MockPaymentTx(r) ==
  LET o == request[r].order IN
  /\ At(r, "mockPayment", "write")
  /\ \E target \in SettledStates(request[r].snap.deliveryType) :
       /\ UpdateOrder(o, [order[o] EXCEPT
            !.state = target, !.status = merchantStatusFromOrderState(target),
            !.paymentState = "SUCCESS", !.txn = MockTxn, !.paidAt = TRUE])
       /\ Log(o, request[r].snap.state, target)
  /\ settled' = settled \cup {o}
  /\ Finish(r)
  /\ UNCHANGED <<attempts, receipts>>

-----------------------------------------------------------------------------
(* What a provider notice makes of the row that was read.  Only an order     *)
(* seen in PENDING_PAYMENT changes its state; a notice that the payment is   *)
(* still PENDING sets paymentState whatever the state is.                    *)

\* Mutant: a failure is applied whatever state the order is in.
TargetStatesLateFailure(row, status) ==
  IF status = "FAILED" THEN {"PAYMENT_FAILED"}
  ELSE IF row.state # "PENDING_PAYMENT" \/ status = "PENDING" THEN {row.state}
  ELSE SettledStates(row.deliveryType)

TargetStates(row, status) ==
  IF row.state # "PENDING_PAYMENT" \/ status = "PENDING" THEN {row.state}
  ELSE IF status = "SUCCESS" THEN SettledStates(row.deliveryType)
  ELSE {"PAYMENT_FAILED"}

\* Mutant: paymentState always follows the notice.
TargetPaymentStateLast(row, status) == status

TargetPaymentState(row, status) ==
  IF status = "PENDING" \/ row.state = "PENDING_PAYMENT" THEN status
  ELSE row.paymentState

\* Mutant: the success branch forgets new Date().
PaidAtKept(snap, n) == snap.paidAt

PaidAt(snap, n) == n.status = "SUCCESS" \/ snap.paidAt

\* State, status, paymentState and paidAt are written from the snapshot, and
\* the transaction id from the notice.
SettleOrder(o, snap, n) ==
  /\ \E target \in TargetStates(snap, n.status) :
       /\ UpdateOrder(o, [order[o] EXCEPT
            !.state = target, !.status = merchantStatusFromOrderState(target),
            !.paymentState = TargetPaymentState(snap, n.status),
            !.txn = n.txn, !.paidAt = PaidAt(snap, n)])
       /\ Log(o, snap.state, target)
  /\ settled' = IF n.status = "SUCCESS" /\ snap.state = "PENDING_PAYMENT"
                THEN settled \cup {o} ELSE settled

\* The attempt found before the transaction (0: none) takes the outcome; a
\* missing one is created.
RecordAttempt(o, i, channel, n) ==
  IF i = 0
  THEN /\ Len(attempts[o]) < MaxAttempts
       /\ attempts' = [attempts EXCEPT ![o] =
            Append(@, [channel |-> channel, txn |-> n.txn, state |-> n.status])]
  ELSE attempts' = [attempts EXCEPT ![o][i].state = n.status, ![o][i].txn = n.txn]

ReceiptOf(o, n) ==
  [order |-> o, txn |-> n.txn, nonce |-> n.nonce, body |-> n.body]

\* The unique index on (providerTxnId, nonce).
KeyTaken(n) == \E c \in receipts : c.txn = n.txn /\ c.nonce = n.nonce

\* A request whose attempt lookup returned attempt i of the order, or none.
FoundAttempt(r, i, next) ==
  LET o == request[r].order
      answered == /\ i # 0
                  /\ attempts[o][i].state = "SUCCESS"
                  /\ request[r].notice.status = "SUCCESS"
  IN /\ IF answered THEN Finish(r)
        ELSE request' = [request EXCEPT ![r].attempt = i, ![r].pc = next]
     /\ UNCHANGED <<order, attempts, receipts, newestLog, settled>>

FoundReceipt(r, known) ==
  /\ IF known THEN Finish(r) ELSE request' = [request EXCEPT ![r].pc = "write"]
  /\ UNCHANGED <<order, attempts, receipts, newestLog, settled>>

-----------------------------------------------------------------------------
(* confirmPaymentCallback: a signed GraphQL callback. *)

ConfirmPaymentCallback(r, o, n) ==
  /\ MayStart(r)
  /\ BeginNotice(r, o, "confirmPaymentCallback", n)
  /\ UNCHANGED <<order, attempts, receipts, newestLog, settled>>

\* findFirst by order and transaction id, in no particular order; 0: none.
CallbackAttempts(o, n) ==
  LET found == {i \in DOMAIN attempts[o] : attempts[o][i].txn = n.txn}
  IN IF found = {} THEN {0} ELSE found

CallbackFindAttempt(r) ==
  /\ At(r, "confirmPaymentCallback", "attempt")
  /\ \E i \in CallbackAttempts(request[r].order, request[r].notice) :
       FoundAttempt(r, i, "receipt")

TxnSeen(n) == \E c \in receipts : c.txn = n.txn

\* A receipt of the same transaction ends the request: an identical payload is
\* a replay, another one a conflict.
CallbackFindReceipt(r) ==
  /\ At(r, "confirmPaymentCallback", "receipt")
  /\ FoundReceipt(r, TxnSeen(request[r].notice))

\* A success the snapshot cannot take is a DomainError: the transaction rolls
\* back, as it does on the unique index.
CallbackRefused(snap, n) ==
  \/ KeyTaken(n)
  \/ n.status = "SUCCESS" /\ snap.state \notin {"PAID", "PENDING_PAYMENT"}

CallbackTx(r) ==
  LET q == request[r] IN
  /\ At(r, "confirmPaymentCallback", "write")
  /\ ~CallbackRefused(q.snap, q.notice)
  /\ receipts' = receipts \cup {ReceiptOf(q.order, q.notice)}
  /\ RecordAttempt(q.order, q.attempt, "TELEBIRR_APP", q.notice)
  /\ SettleOrder(q.order, q.snap, q.notice)
  /\ Finish(r)

CallbackRollback(r) ==
  /\ At(r, "confirmPaymentCallback", "write")
  /\ CallbackRefused(request[r].snap, request[r].notice)
  /\ Finish(r)
  /\ UNCHANGED <<order, attempts, receipts, newestLog, settled>>

-----------------------------------------------------------------------------
(* The Telebirr notification (REST webhook) and the reconciliation query     *)
(* share applyTelebirrProviderUpdate.  The notification's nonce is the order *)
(* id; the query writes no receipt.                                          *)

TelebirrNotify(r, o, report) ==
  /\ MayStart(r)
  /\ BeginNotice(r, o, "telebirrNotify",
       [txn |-> report.txn, status |-> report.status, body |-> report.body,
        nonce |-> o])
  /\ UNCHANGED <<order, attempts, receipts, newestLog, settled>>

ReconcileTelebirrOrder(r, o) ==
  /\ MayStart(r)
  /\ request' = [request EXCEPT ![r] =
       [op |-> "query", order |-> o, snap |-> order[o]]]
  /\ UNCHANGED <<order, attempts, receipts, newestLog, settled>>

\* The provider answers, with or without a transaction id, and the order row
\* is read again.
QueryAnswered(r, report, named) ==
  LET o == request[r].order
      known == request[r].snap.txn
      txn == IF named THEN report.txn ELSE IF known # NoTxn THEN known ELSE o
  IN /\ request[r].op = "query"
     /\ BeginNotice(r, o, "telebirrQuery",
          [txn |-> txn, status |-> report.status, body |-> report.body,
           nonce |-> o])
     /\ UNCHANGED <<order, attempts, receipts, newestLog, settled>>

\* The newest attempt with this transaction id or on the H5 channel; 0: none.
TelebirrAttempts(o, n) ==
  LET found == {i \in DOMAIN attempts[o] : \/ attempts[o][i].txn = n.txn
                                           \/ attempts[o][i].channel = "TELEBIRR_H5"}
  IN IF found = {} THEN {0} ELSE {i \in found : \A j \in found : j <= i}

TelebirrFindAttempt(r) ==
  \/ /\ At(r, "telebirrNotify", "attempt")
     /\ \E i \in TelebirrAttempts(request[r].order, request[r].notice) :
          FoundAttempt(r, i, "receipt")
  \/ /\ At(r, "telebirrQuery", "attempt")
     /\ \E i \in TelebirrAttempts(request[r].order, request[r].notice) :
          FoundAttempt(r, i, "write")

TelebirrFindReceipt(r) ==
  /\ At(r, "telebirrNotify", "receipt")
  /\ FoundReceipt(r, KeyTaken(request[r].notice))

TelebirrTx(r) ==
  LET q == request[r] IN
  /\ \/ /\ At(r, "telebirrNotify", "write")
        /\ ~KeyTaken(q.notice)
        /\ receipts' = receipts \cup {ReceiptOf(q.order, q.notice)}
     \/ /\ At(r, "telebirrQuery", "write")
        /\ UNCHANGED receipts
  /\ RecordAttempt(q.order, q.attempt, "TELEBIRR_H5", q.notice)
  /\ SettleOrder(q.order, q.snap, q.notice)
  /\ Finish(r)

TelebirrRollback(r) ==
  /\ At(r, "telebirrNotify", "write")
  /\ KeyTaken(request[r].notice)
  /\ Finish(r)
  /\ UNCHANGED <<order, attempts, receipts, newestLog, settled>>

-----------------------------------------------------------------------------
(* cancelOrder: the customer's cancellation. *)

CustomerMayCancel(row) == row.state \in {"PENDING_PAYMENT", "PAYMENT_FAILED"}

\* Mutant: the kitchen's column is left alone.
CancelledRowKeepsStatus(row) ==
  [row EXCEPT !.state = "CANCELLED", !.cancelledAt = TRUE]

CancelledRow(row) ==
  [row EXCEPT !.state = "CANCELLED", !.status = "CANCELLED", !.cancelledAt = TRUE]

CancelOrder(r, o) ==
  /\ CustomerMayCancel(order[o])
  /\ Begin(r, o, "cancelOrder")

CancelOrderTx(r) ==
  LET o == request[r].order IN
  /\ At(r, "cancelOrder", "write")
  /\ UpdateOrder(o, CancelledRow(order[o]))
  /\ Log(o, request[r].snap.state, "CANCELLED")
  /\ Finish(r)
  /\ UNCHANGED <<attempts, receipts, settled>>

-----------------------------------------------------------------------------
(* Delivery: acceptance and readiness write the state column alone, and log  *)
(* in a second statement outside any transaction.                            *)

DeliveryOps == {"acceptDeliveryOrder", "markDeliveryOrderReady"}
DeliveryFrom(op) == IF op = "acceptDeliveryOrder" THEN "PAID" ELSE "PREPARING"
DeliveryTo(op) == IF op = "acceptDeliveryOrder" THEN "PREPARING" ELSE "READY"

DeliveryRequest(r, o, op) ==
  /\ order[o].deliveryType = "DELIVERY"
  /\ order[o].state = DeliveryFrom(op)
  /\ Begin(r, o, op)

DeliveryUpdate(r, op) ==
  /\ At(r, op, "write")
  /\ UpdateOrder(request[r].order,
       [order[request[r].order] EXCEPT !.state = DeliveryTo(op)])
  /\ request' = [request EXCEPT ![r].pc = "log"]
  /\ UNCHANGED <<attempts, receipts, newestLog, settled>>

DeliveryLog(r, op) ==
  /\ At(r, op, "log")
  /\ Log(request[r].order, request[r].snap.state, DeliveryTo(op))
  /\ Finish(r)
  /\ UNCHANGED <<order, attempts, receipts, settled>>

-----------------------------------------------------------------------------
(* updateMerchantOrderStatus: the kitchen board.                             *)

\* Mutant: the kitchen column alone is checked.
MerchantMayByStatus(row, target) ==
  \/ target = "PREPARING" /\ row.status = "PENDING"
  \/ target = "COMPLETED" /\ row.status = "PREPARING"
  \/ target = "CANCELLED" /\ row.status \notin {"COMPLETED", "CANCELLED"}

MerchantMay(row, target) ==
  \/ /\ target = "PREPARING"
     /\ row.status = "PENDING" /\ row.state \in {"PAID", "READY"}
  \/ /\ target = "COMPLETED"
     /\ row.status = "PREPARING" /\ row.state \in {"PREPARING", "READY"}
  \/ /\ target = "CANCELLED"
     /\ row.status \notin {"COMPLETED", "CANCELLED"}

MerchantUpdate(r, o, target) ==
  /\ MerchantMay(order[o], target)
  /\ Begin(r, o, target)

\* The three timestamps are written from the snapshot too.
MerchantUpdateTx(r, target) ==
  LET o == request[r].order
      snap == request[r].snap
  IN /\ At(r, target, "write")
     /\ UpdateOrder(o, [order[o] EXCEPT
          !.state = target, !.status = target,
          !.acceptedAt = (target = "PREPARING" \/ snap.acceptedAt),
          !.completedAt = (target = "COMPLETED" \/ snap.completedAt),
          !.cancelledAt = (target = "CANCELLED" \/ snap.cancelledAt)])
     /\ Log(o, snap.state, target)
     /\ Finish(r)
     /\ UNCHANGED <<attempts, receipts, settled>>

-----------------------------------------------------------------------------
RequestStarts(r, o) ==
  \/ InitiatePayment(r, o) \/ MockPayment(r, o) \/ CancelOrder(r, o)
  \/ \E n \in CallbackNotices : ConfirmPaymentCallback(r, o, n)
  \/ \E report \in ProviderReports : TelebirrNotify(r, o, report)
  \/ ReconcileTelebirrOrder(r, o)
  \/ \E op \in DeliveryOps : DeliveryRequest(r, o, op)
  \/ \E target \in MerchantTargets : MerchantUpdate(r, o, target)

RequestContinues(r) ==
  \/ \E channel \in PaymentChannel : InitiatePaymentTx(r, channel)
  \/ MockPaymentTx(r)
  \/ CallbackFindAttempt(r) \/ CallbackFindReceipt(r)
  \/ CallbackTx(r) \/ CallbackRollback(r)
  \/ \E report \in ProviderReports, named \in BOOLEAN : QueryAnswered(r, report, named)
  \/ TelebirrFindAttempt(r) \/ TelebirrFindReceipt(r)
  \/ TelebirrTx(r) \/ TelebirrRollback(r)
  \/ CancelOrderTx(r)
  \/ \E op \in DeliveryOps : DeliveryUpdate(r, op) \/ DeliveryLog(r, op)
  \/ \E target \in MerchantTargets : MerchantUpdateTx(r, target)

Next ==
  \E r \in Requests :
    \/ \E o \in Orders : RequestStarts(r, o)
    \/ RequestContinues(r)
    \/ Abort(r)

Spec == Init /\ [][Next]_vars

-----------------------------------------------------------------------------
(* Properties of every interleaving. *)

\* Every row, receipt and request has the shape its columns allow.
TypeOK ==
  /\ order \in [Orders -> OrderRow]
  /\ attempts \in [Orders -> Seq(Attempt)]
  /\ receipts \subseteq Receipt
  /\ newestLog \in [Orders -> LogEntry]
  /\ settled \subseteq Orders
  /\ request \in [Requests -> RequestState]

KitchenStates == {"PAID", "PREPARING", "READY", "COMPLETED"}

\* An order counts as paid, is prepared or completed only if its log holds a
\* settlement: a success applied to an unpaid order, the mock payment, or a
\* cash delivery.  No stale snapshot (a merchant update, a late callback)
\* brings an order there otherwise.
KitchenAfterSettlement ==
  \A o \in Orders : order[o].state \in KitchenStates => o \in settled

\* paymentState SUCCESS and paidAt go together, although initiatePayment, the
\* callbacks and the mock payment write them from snapshots of any age: the
\* revenue reports that select SUCCESS never meet an order without paidAt.
SuccessIsPaid ==
  \A o \in Orders : order[o].paymentState = "SUCCESS" => order[o].paidAt

\* Off delivery, every writer of state also writes status: the kitchen board
\* agrees with the order whatever handlers race.
BoardAgreesOffDelivery ==
  \A o \in Orders : order[o].deliveryType # "DELIVERY" =>
    order[o].status = merchantStatusFromOrderState(order[o].state)

\* What no handler does to a row it has just read: move an order the kitchen
\* has back to unpaid or failed, start the kitchen over, leave a final state,
\* take a payment back (a late PENDING report is the exception), or cancel a
\* paid order for its customer.
TakesBack(op, old, new) ==
  \/ new.state \in {"PENDING_PAYMENT", "PAYMENT_FAILED"} /\ old.state \in KitchenStates
  \/ new.state = "PAID" /\ old.state \in {"PREPARING", "READY"}
  \/ old.state \in {"COMPLETED", "CANCELLED"} /\ new.state # old.state
  \/ old.paymentState = "SUCCESS" /\ new.paymentState \notin {"SUCCESS", "PENDING"}
  \/ op = "cancelOrder" /\ old.state \in KitchenStates

Outdated(snap, row) ==
  snap.state # row.state \/ snap.paymentState # row.paymentState

\* Lost cancellations, lost payments, settlements applied twice and completed
\* orders reopened come from overlaps alone: the handler that takes an order
\* back writes after another one has changed the state or the payment it read.
\* A check on those two columns in the WHERE of its update would exclude them.
LossesAreOverlaps ==
  [][\A o \in Orders : order'[o] # order[o] =>
       \E r \in Requests :
         /\ InFlight(r) /\ request[r].order = o /\ request'[r] # request[r]
         /\ TakesBack(request[r].op, order[o], order'[o]) =>
              Outdated(request[r].snap, order[o])]_vars

\* What a stale snapshot may still be trusted for: whatever was written since,
\* an order that looked settled is settled, and the merchant's and the
\* delivery handlers in flight saw one that was.
SnapshotSound(q) ==
  /\ q.snap.deliveryType = order[q.order].deliveryType
  /\ q.snap.paymentState = "SUCCESS" => q.snap.paidAt
  /\ q.snap.state \in KitchenStates => q.order \in settled
  /\ q.op \in {"PREPARING", "COMPLETED"} \cup DeliveryOps =>
       q.snap.state \in KitchenStates
  /\ q.op \in DeliveryOps => q.snap.deliveryType = "DELIVERY"

SnapshotsSound == \A r \in Requests : InFlight(r) => SnapshotSound(request[r])

-----------------------------------------------------------------------------
(* Properties of serial executions: what the handlers promise when no two of *)
(* them overlap.                                                             *)

\* A settled order never shows as unpaid or failed again: a late failure, a
\* late PENDING report or a second callback leaves the settlement in place.
SettlementKept ==
  \A o \in settled : order[o].state \notin {"PENDING_PAYMENT", "PAYMENT_FAILED"}

\* Once paid, paidAt is never lost, and paymentState only falls back to
\* PENDING (a reconciliation that still reports PENDING), never to FAILED.
PaymentNeverRevoked ==
  [][\A o \in Orders : order[o].paymentState = "SUCCESS" =>
       /\ order'[o].paidAt
       /\ order'[o].paymentState \in {"SUCCESS", "PENDING"}]_vars

\* A completed or cancelled order keeps its state.
FinalStatesAreFinal ==
  [][\A o \in Orders : order[o].state \in {"COMPLETED", "CANCELLED"} =>
       order'[o].state = order[o].state]_vars

BeingDelivered(row) ==
  row.deliveryType = "DELIVERY" /\ row.state \in {"PREPARING", "READY"}

\* Three records say where an order stands: its state, the board's status and
\* the newest log row.  They come apart only behind acceptDeliveryOrder and
\* markDeliveryOrderReady, also when a request dies half way: those two leave
\* the board waiting and write their log row in a second statement.
RecordsLagOnlyInDelivery ==
  \A o \in Orders :
    /\ \/ order[o].status = merchantStatusFromOrderState(order[o].state)
       \/ BeingDelivered(order[o]) /\ order[o].status = "PENDING"
    /\ newestLog[o].to = order[o].state \/ BeingDelivered(order[o])

=============================================================================
