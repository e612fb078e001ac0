------------------------ MODULE OrderLifecycleProofs ------------------------
(***************************************************************************)
(* Theorems about OrderLifecycle for every set of orders, requests and     *)
(* notices, serial or not.                                                 *)
(***************************************************************************)
EXTENDS OrderLifecycle, SequenceTheorems, TLAPS

-----------------------------------------------------------------------------
(* The column mappings. *)

\* merchantStatusFromOrderState maps every state to a kitchen status.
LEMMA MerchantStatusType ==
  ASSUME NEW s \in OrderState
  PROVE  merchantStatusFromOrderState(s) \in OrderStatus
BY DEF merchantStatusFromOrderState, OrderState, OrderStatus

\* A settled order is paid or already in preparation.
LEMMA SettledStatesType ==
  ASSUME NEW type
  PROVE  /\ SettledStates(type) \subseteq OrderState
         /\ SettledStates(type) \subseteq KitchenStates
BY DEF SettledStates, OrderState, KitchenStates

\* A notice leads to an order state; one in the kitchen only if it settles the
\* order or the row was there already.
LEMMA TargetStatesType ==
  ASSUME NEW row \in OrderRow, NEW status \in CallbackStatus,
         NEW target \in TargetStates(row, status)
  PROVE  /\ target \in OrderState
         /\ target \in KitchenStates =>
              \/ row.state \in KitchenStates
              \/ status = "SUCCESS" /\ row.state = "PENDING_PAYMENT"
BY SettledStatesType DEF TargetStates, OrderRow, OrderState, KitchenStates

LEMMA TargetPaymentStateType ==
  ASSUME NEW row \in OrderRow, NEW status \in CallbackStatus
  PROVE  TargetPaymentState(row, status) \in PaymentState
BY DEF TargetPaymentState, OrderRow, CallbackStatus, PaymentState

\* The rows createOrder leaves are rows, and consistent ones.
LEMMA InitialRowsSound ==
  ASSUME NEW row \in InitialRows
  PROVE  /\ row \in OrderRow
         /\ row.paymentState # "SUCCESS"
         /\ row.status = merchantStatusFromOrderState(row.state)
         /\ row.state # "PENDING_PAYMENT" => row.state \in KitchenStates
<1>1. PICK st \in {"PENDING_PAYMENT", "PAID", "PREPARING"},
           pay \in {"PENDING", "NOT_REQUIRED"},
           t \in DeliveryTypes : row = InitialRow(st, pay, t)
  BY DEF InitialRows, InitialStates, InitialPaymentState, SettledStates
<1>2. /\ initialMerchantStatus(st) \in OrderStatus
      /\ initialMerchantStatus(st) = merchantStatusFromOrderState(st)
  BY DEF initialMerchantStatus, merchantStatusFromOrderState, OrderStatus
<1>3. /\ st \in OrderState /\ pay \in PaymentState /\ NoTxn \in TxnIds
      /\ st # "PENDING_PAYMENT" => st \in KitchenStates
  BY DEF OrderState, PaymentState, TxnIds, KitchenStates
<1>4. row \in OrderRow
  BY <1>1, <1>2, <1>3 DEF InitialRow, OrderRow
<1>. QED
  BY <1>1, <1>2, <1>3, <1>4 DEF InitialRow

-----------------------------------------------------------------------------
(* The inductive invariant: the properties of every interleaving hold        *)
(* because the snapshots in flight can be trusted for SnapshotSound.         *)

RowsSound == KitchenAfterSettlement /\ SuccessIsPaid /\ BoardAgreesOffDelivery

IInv == TypeOK /\ RowsSound /\ SnapshotsSound

\* One row's share of RowsSound, with s the orders settled by then.
RowSound(o, row, s) ==
  /\ row.state \in KitchenStates => o \in s
  /\ row.paymentState = "SUCCESS" => row.paidAt
  /\ row.deliveryType # "DELIVERY" =>
       row.status = merchantStatusFromOrderState(row.state)

\* Writing one sound row of the same delivery type keeps the rows sound.
LEMMA OrderWrite ==
  ASSUME TypeOK, RowsSound,
         NEW o \in Orders, NEW row \in OrderRow,
         row.deliveryType = order[o].deliveryType,
         RowSound(o, row, settled'),
         UpdateOrder(o, row),
         settled \subseteq settled', settled' \subseteq Orders
  PROVE  /\ order' \in [Orders -> OrderRow]
         /\ RowsSound'
         /\ \A p \in Orders : order'[p].deliveryType = order[p].deliveryType
<1>1. /\ order' \in [Orders -> OrderRow]
      /\ order'[o] = row
      /\ \A p \in Orders \ {o} : order'[p] = order[p]
  BY DEF TypeOK, UpdateOrder
<1>2. \A p \in Orders : RowSound(p, order'[p], settled')
  BY <1>1 DEF RowSound, RowsSound, KitchenAfterSettlement, SuccessIsPaid,
              BoardAgreesOffDelivery
<1>3. RowsSound'
  BY <1>2 DEF RowSound, RowsSound, KitchenAfterSettlement, SuccessIsPaid,
              BoardAgreesOffDelivery, merchantStatusFromOrderState
<1>. QED
  BY <1>1, <1>3

\* A request in flight has an order and a snapshot.
LEMMA InFlightType ==
  ASSUME TypeOK, NEW r \in Requests, InFlight(r)
  PROVE  /\ request[r] \in PlainRequest \cup QueryRequest \cup NoticeRequest
         /\ request[r].order \in Orders
         /\ request[r].snap \in OrderRow
BY DEF TypeOK, InFlight, RequestState, PlainRequest, QueryRequest, NoticeRequest

\* A step that ends request r, or leaves it with a sound snapshot, keeps every
\* snapshot sound as long as orders stay settled and keep their type.
LEMMA SnapshotsKept ==
  ASSUME TypeOK, SnapshotsSound,
         NEW r \in Requests, NEW q \in RequestState,
         request' = [request EXCEPT ![r] = q],
         q \in {Idle, Done} \/ SnapshotSound(q)',
         settled \subseteq settled',
         \A p \in Orders : order'[p].deliveryType = order[p].deliveryType
  PROVE  request' \in [Requests -> RequestState] /\ SnapshotsSound'
<1>1. request' \in [Requests -> RequestState]
  BY DEF TypeOK
<1>2. ASSUME NEW p \in Requests, InFlight(p)'
      PROVE  SnapshotSound(request[p])'
  <2>1. CASE p = r
    BY <1>2, <2>1 DEF TypeOK, InFlight, SnapshotSound
  <2>2. CASE p # r
    <3>1. request'[p] = request[p] /\ InFlight(p)
      BY <1>2, <2>2 DEF TypeOK, InFlight
    <3>. QED
      BY <3>1, InFlightType DEF SnapshotsSound, SnapshotSound
  <2>. QED
    BY <2>1, <2>2
<1>. QED
  BY <1>1, <1>2 DEF SnapshotsSound

\* A step of request r that leaves the database alone.
LEMMA QuietStep ==
  ASSUME IInv, NEW r \in Requests, NEW q \in RequestState,
         request' = [request EXCEPT ![r] = q],
         q \in {Idle, Done} \/ SnapshotSound(q),
         UNCHANGED <<order, attempts, receipts, newestLog, settled>>
  PROVE  IInv'
<1>1. request' \in [Requests -> RequestState] /\ SnapshotsSound'
  <2>1. q \in {Idle, Done} \/ SnapshotSound(q)'
    BY DEF SnapshotSound
  <2>. QED
    BY <2>1, SnapshotsKept DEF IInv
<1>2. TypeOK' /\ RowsSound'
  BY <1>1 DEF IInv, TypeOK, RowsSound, KitchenAfterSettlement, SuccessIsPaid,
              BoardAgreesOffDelivery
<1>. QED
  BY <1>1, <1>2 DEF IInv

\* A step of request r that writes one sound row of order o.
LEMMA WriteStep ==
  ASSUME IInv, NEW r \in Requests, NEW q \in RequestState,
         request' = [request EXCEPT ![r] = q],
         q \in {Idle, Done} \/ SnapshotSound(q)',
         NEW o \in Orders, NEW row \in OrderRow, UpdateOrder(o, row),
         row.deliveryType = order[o].deliveryType,
         RowSound(o, row, settled'),
         settled \subseteq settled', settled' \subseteq Orders,
         attempts' \in [Orders -> Seq(Attempt)],
         newestLog' \in [Orders -> LogEntry],
         receipts' \subseteq Receipt
  PROVE  IInv'
<1>1. /\ order' \in [Orders -> OrderRow] /\ RowsSound'
      /\ \A p \in Orders : order'[p].deliveryType = order[p].deliveryType
  BY OrderWrite DEF IInv
<1>2. request' \in [Requests -> RequestState] /\ SnapshotsSound'
  BY <1>1, SnapshotsKept DEF IInv
<1>. QED
  BY <1>1, <1>2 DEF IInv, TypeOK

\* A log row names two order states.
LEMMA LogType ==
  ASSUME TypeOK, NEW o \in Orders, NEW from \in OrderState, NEW to \in OrderState,
         Log(o, from, to)
  PROVE  newestLog' \in [Orders -> LogEntry]
<1>1. [from |-> from, to |-> to] \in LogEntry
  BY DEF LogEntry
<1>. QED
  BY <1>1 DEF TypeOK, Log

\* Appending an attempt, or changing one that exists, yields attempts again.
LEMMA AttemptAppended ==
  ASSUME TypeOK, NEW o \in Orders, NEW a \in Attempt,
         attempts' = [attempts EXCEPT ![o] = Append(@, a)]
  PROVE  attempts' \in [Orders -> Seq(Attempt)]
BY DEF TypeOK

LEMMA InitInv == Init => IInv
<1> SUFFICES ASSUME Init PROVE IInv
  OBVIOUS
<1>1. \A o \in Orders : order[o] \in InitialRows
  BY DEF Init
<1>2. order \in [Orders -> OrderRow]
  BY <1>1, InitialRowsSound DEF Init
<1>3. newestLog \in [Orders -> LogEntry]
  BY <1>2 DEF Init, LogEntry, OrderRow
<1>4. TypeOK
  BY <1>2, <1>3 DEF Init, TypeOK, RequestState
<1>5. RowsSound
  BY <1>1, InitialRowsSound DEF Init, RowsSound, KitchenAfterSettlement,
     SuccessIsPaid, BoardAgreesOffDelivery, KitchenStates
<1>6. SnapshotsSound
  BY DEF Init, SnapshotsSound, InFlight
<1>. QED
  BY <1>4, <1>5, <1>6 DEF IInv

-----------------------------------------------------------------------------
(* One lemma per group of actions. *)

\* Reading the order row gives a sound snapshot.
LEMMA BeginInv ==
  ASSUME IInv, NEW r \in Requests, NEW o \in Orders, NEW op \in PlainOps,
         op \in {"PREPARING", "COMPLETED"} \cup DeliveryOps =>
           order[o].state \in KitchenStates,
         op \in DeliveryOps => order[o].deliveryType = "DELIVERY",
         Begin(r, o, op)
  PROVE  IInv'
<1> DEFINE q == [op |-> op, pc |-> "write", order |-> o, snap |-> order[o]]
<1>1. q \in RequestState
  BY DEF IInv, TypeOK, RequestState, PlainRequest
<1>2. SnapshotSound(q)
  BY DEF SnapshotSound, IInv, RowsSound, SuccessIsPaid, KitchenAfterSettlement
<1>3. request' = [request EXCEPT ![r] = q]
  BY DEF Begin
<1>. QED
  BY <1>1, <1>2, <1>3, QuietStep DEF Begin

LEMMA BeginNoticeInv ==
  ASSUME IInv, NEW r \in Requests, NEW o \in Orders, NEW op \in CallbackOps,
         NEW n \in Notice, BeginNotice(r, o, op, n),
         UNCHANGED <<order, attempts, receipts, newestLog, settled>>
  PROVE  IInv'
<1> DEFINE q == [op |-> op, pc |-> "attempt", order |-> o, snap |-> order[o],
                 notice |-> n, attempt |-> 0]
<1>1. q \in RequestState
  BY DEF IInv, TypeOK, RequestState, NoticeRequest
<1>2. SnapshotSound(q)
  BY DEF SnapshotSound, IInv, RowsSound, SuccessIsPaid, KitchenAfterSettlement,
         CallbackOps, DeliveryOps
<1>3. request' = [request EXCEPT ![r] = q]
  BY DEF BeginNotice
<1>. QED
  BY <1>1, <1>2, <1>3, QuietStep

\* Ending a request touches nothing else.
LEMMA FinishInv ==
  ASSUME IInv, NEW r \in Requests, Finish(r),
         UNCHANGED <<order, attempts, receipts, newestLog, settled>>
  PROVE  IInv'
BY QuietStep DEF Finish, RequestState

\* The notice handlers' two lookups only move the request on, or end it.
LEMMA LookupInv ==
  ASSUME IInv, NEW r \in Requests, request[r].op \in CallbackOps,
         UNCHANGED <<order, attempts, receipts, newestLog, settled>>,
         NEW i \in Nat, NEW pc \in {"receipt", "write"},
         \/ Finish(r)
         \/ request' = [request EXCEPT ![r].attempt = i, ![r].pc = pc]
         \/ request' = [request EXCEPT ![r].pc = pc]
  PROVE  IInv'
<1>1. InFlight(r)
  BY DEF InFlight, Idle, Done, CallbackOps
<1>2. request[r] \in NoticeRequest
  BY <1>1, InFlightType DEF IInv, PlainRequest, QueryRequest, CallbackOps,
     PlainOps, MerchantTargets
<1>3. SnapshotSound(request[r])
  BY <1>1 DEF IInv, SnapshotsSound
<1>4. CASE Finish(r)
  BY <1>4, FinishInv
<1>5. CASE request' = [request EXCEPT ![r].attempt = i, ![r].pc = pc]
  <2> DEFINE q == [request[r] EXCEPT !.attempt = i, !.pc = pc]
  <2>1. q \in RequestState
    BY <1>2 DEF RequestState, NoticeRequest
  <2>2. SnapshotSound(q)
    BY <1>2, <1>3 DEF SnapshotSound, NoticeRequest
  <2>3. request' = [request EXCEPT ![r] = q]
    BY <1>5
  <2>. QED
    BY <2>1, <2>2, <2>3, QuietStep
<1>6. CASE request' = [request EXCEPT ![r].pc = pc]
  <2> DEFINE q == [request[r] EXCEPT !.pc = pc]
  <2>1. q \in RequestState
    BY <1>2 DEF RequestState, NoticeRequest
  <2>2. SnapshotSound(q)
    BY <1>2, <1>3 DEF SnapshotSound, NoticeRequest
  <2>3. request' = [request EXCEPT ![r] = q]
    BY <1>6
  <2>. QED
    BY <2>1, <2>2, <2>3, QuietStep
<1>. QED
  BY <1>4, <1>5, <1>6

LEMMA FoundAttemptInv ==
  ASSUME IInv, NEW r \in Requests, request[r].op \in CallbackOps,
         NEW i \in Nat, NEW next \in {"receipt", "write"},
         FoundAttempt(r, i, next)
  PROVE  IInv'
BY LookupInv DEF FoundAttempt

LEMMA FoundReceiptInv ==
  ASSUME IInv, NEW r \in Requests, request[r].op \in CallbackOps,
         NEW known, FoundReceipt(r, known)
  PROVE  IInv'
<1>1. 0 \in Nat /\ "write" \in {"receipt", "write"}
  OBVIOUS
<1>. QED
  BY <1>1, LookupInv DEF FoundReceipt

\* A notice's outcome recorded in an attempt.
LEMMA RecordAttemptType ==
  ASSUME TypeOK, NEW o \in Orders, NEW i \in Nat, NEW c \in PaymentChannel,
         NEW n \in Notice, RecordAttempt(o, i, c, n)
  PROVE  attempts' \in [Orders -> Seq(Attempt)]
<1>1. n.status \in PaymentState /\ n.txn \in TxnIds
  BY DEF Notice, CallbackStatus, PaymentState
<1>2. CASE i = 0
  <2>1. [channel |-> c, txn |-> n.txn, state |-> n.status] \in Attempt
    BY <1>1 DEF Attempt
  <2>. QED
    BY <1>2, <2>1, AttemptAppended DEF RecordAttempt
<1>3. CASE i # 0
  <2> DEFINE s == attempts[o]
             t == [s EXCEPT ![i].state = n.status, ![i].txn = n.txn]
  <2>1. s \in Seq(Attempt)
    BY DEF TypeOK
  <2>2. s \in [1..Len(s) -> Attempt] /\ Len(s) \in Nat
    BY <2>1
  <2>3. ASSUME i \in 1..Len(s)
        PROVE  t \in Seq(Attempt)
    <3> DEFINE a == [s[i] EXCEPT !.state = n.status, !.txn = n.txn]
    <3>1. a \in Attempt
      BY <1>1, <2>2, <2>3 DEF Attempt
    <3>2. t = [s EXCEPT ![i] = a]
      BY <2>2, <2>3
    <3>. QED
      BY <2>1, <2>3, <3>1, <3>2, ExceptSeq
  <2>4. ASSUME i \notin 1..Len(s)
        PROVE  t \in Seq(Attempt)
    <3>1. t = s
      BY <2>2, <2>4
    <3>. QED
      BY <2>1, <3>1
  <2>5. attempts' = [attempts EXCEPT ![o] = t]
    BY <1>3, <2>1 DEF RecordAttempt, TypeOK
  <2>. QED
    BY <2>3, <2>4, <2>5 DEF TypeOK
<1>. QED
  BY <1>2, <1>3

\* A notice applied to an order leaves a sound row, if the snapshot was sound.
LEMMA SettleOrderInv ==
  ASSUME IInv, NEW r \in Requests, request[r].op \in CallbackOps,
         SettleOrder(request[r].order, request[r].snap, request[r].notice),
         Finish(r),
         attempts' \in [Orders -> Seq(Attempt)],
         receipts' \subseteq Receipt
  PROVE  IInv'
<1> DEFINE o == request[r].order
           snap == request[r].snap
           n == request[r].notice
<1>1. InFlight(r)
  BY DEF InFlight, Idle, Done, CallbackOps
<1>2. request[r] \in NoticeRequest
  BY <1>1, InFlightType DEF IInv, PlainRequest, QueryRequest, CallbackOps,
     PlainOps, MerchantTargets
<1>3. o \in Orders /\ snap \in OrderRow /\ n \in Notice
  BY <1>2 DEF NoticeRequest
<1>4. /\ snap.deliveryType = order[o].deliveryType
      /\ snap.paymentState = "SUCCESS" => snap.paidAt
      /\ snap.state \in KitchenStates => o \in settled
  BY <1>1 DEF IInv, SnapshotsSound, SnapshotSound
<1>5. PICK target \in TargetStates(snap, n.status) :
        /\ UpdateOrder(o, [order[o] EXCEPT
             !.state = target, !.status = merchantStatusFromOrderState(target),
             !.paymentState = TargetPaymentState(snap, n.status),
             !.txn = n.txn, !.paidAt = PaidAt(snap, n)])
        /\ Log(o, snap.state, target)
  BY DEF SettleOrder
<1> DEFINE row == [order[o] EXCEPT
             !.state = target, !.status = merchantStatusFromOrderState(target),
             !.paymentState = TargetPaymentState(snap, n.status),
             !.txn = n.txn, !.paidAt = PaidAt(snap, n)]
<1>6. /\ settled' = IF n.status = "SUCCESS" /\ snap.state = "PENDING_PAYMENT"
                    THEN settled \cup {o} ELSE settled
      /\ settled \subseteq settled' /\ settled' \subseteq Orders
  BY <1>3 DEF SettleOrder, IInv, TypeOK
<1>7. /\ n.status \in CallbackStatus /\ n.txn \in TxnIds
      /\ snap.state \in OrderState /\ order[o] \in OrderRow
  BY <1>3 DEF Notice, OrderRow, IInv, TypeOK
<1>8. /\ target \in OrderState
      /\ target \in KitchenStates =>
           \/ snap.state \in KitchenStates
           \/ n.status = "SUCCESS" /\ snap.state = "PENDING_PAYMENT"
  BY <1>3, <1>5, <1>7, TargetStatesType
<1>9. /\ merchantStatusFromOrderState(target) \in OrderStatus
      /\ TargetPaymentState(snap, n.status) \in PaymentState
      /\ PaidAt(snap, n) \in BOOLEAN
  BY <1>3, <1>7, <1>8, MerchantStatusType, TargetPaymentStateType
     DEF PaidAt, OrderRow
<1>10. row \in OrderRow
  BY <1>7, <1>8, <1>9 DEF OrderRow
<1>11. RowSound(o, row, settled')
  <2>1. row.state \in KitchenStates => o \in settled'
    BY <1>4, <1>6, <1>7, <1>8 DEF OrderRow
  <2>2. TargetPaymentState(snap, n.status) = "SUCCESS" => PaidAt(snap, n)
    BY <1>4, <1>7 DEF TargetPaymentState, PaidAt
  <2>3. row.paymentState = "SUCCESS" => row.paidAt
    BY <1>7, <2>2 DEF OrderRow
  <2>4. row.status = merchantStatusFromOrderState(row.state)
    BY <1>7 DEF OrderRow
  <2>. QED
    BY <2>1, <2>3, <2>4 DEF RowSound
<1>12. row.deliveryType = order[o].deliveryType
  BY <1>7 DEF OrderRow
<1>13. newestLog' \in [Orders -> LogEntry]
  BY <1>3, <1>5, <1>7, <1>8, LogType DEF IInv
<1>14. /\ request' = [request EXCEPT ![r] = Done]
       /\ Done \in RequestState
  BY DEF Finish, RequestState
<1>. QED
  BY <1>3, <1>5, <1>6, <1>10, <1>11, <1>12, <1>13, <1>14, WriteStep

\* A transaction that ends a plain request with a sound row and a log entry.
LEMMA PlainTxInv ==
  ASSUME IInv, NEW r \in Requests, InFlight(r),
         NEW row \in OrderRow, NEW to \in OrderState,
         UpdateOrder(request[r].order, row),
         row.deliveryType = order[request[r].order].deliveryType,
         RowSound(request[r].order, row, settled'),
         settled \subseteq settled', settled' \subseteq Orders,
         attempts' \in [Orders -> Seq(Attempt)],
         Log(request[r].order, request[r].snap.state, to),
         Finish(r), UNCHANGED receipts
  PROVE  IInv'
<1>1. request[r].order \in Orders /\ request[r].snap.state \in OrderState
  BY InFlightType DEF IInv, OrderRow
<1>2. newestLog' \in [Orders -> LogEntry]
  BY <1>1, LogType DEF IInv
<1>3. receipts' \subseteq Receipt
  BY DEF IInv, TypeOK
<1>4. Done \in RequestState /\ request' = [request EXCEPT ![r] = Done]
  BY DEF RequestState, Finish
<1>. QED
  BY <1>1, <1>2, <1>3, <1>4, WriteStep

\* What is known of a request that is about to write.
LEMMA WriterFacts ==
  ASSUME IInv, NEW r \in Requests,
         request[r].op \in PlainOps \cup CallbackOps
  PROVE  /\ InFlight(r)
         /\ request[r].order \in Orders
         /\ request[r].snap \in OrderRow
         /\ order[request[r].order] \in OrderRow
         /\ RowSound(request[r].order, order[request[r].order], settled)
         /\ SnapshotSound(request[r])
<1>1. InFlight(r)
  BY DEF InFlight, Idle, Done, PlainOps, CallbackOps, MerchantTargets
<1>2. request[r].order \in Orders /\ request[r].snap \in OrderRow
  BY <1>1, InFlightType DEF IInv
<1>. QED
  BY <1>1, <1>2 DEF IInv, TypeOK, SnapshotsSound, RowSound, RowsSound,
     KitchenAfterSettlement, SuccessIsPaid, BoardAgreesOffDelivery

LEMMA InitiatePaymentTxInv ==
  ASSUME IInv, NEW r \in Requests, NEW c \in PaymentChannel,
         InitiatePaymentTx(r, c)
  PROVE  IInv'
<1> DEFINE o == request[r].order
           row == [order[o] EXCEPT !.paymentState = "INITIATED"]
           a == [channel |-> c, txn |-> NoTxn, state |-> "INITIATED"]
<1>1. request[r].op = "initiatePayment" /\ "initiatePayment" \in PlainOps
  BY DEF InitiatePaymentTx, At, PlainOps
<1>2. /\ row \in OrderRow /\ row.deliveryType = order[o].deliveryType
      /\ RowSound(o, row, settled)
  BY <1>1, WriterFacts DEF OrderRow, PaymentState, RowSound
<1>3. attempts' \in [Orders -> Seq(Attempt)]
  <2>1. a \in Attempt
    BY DEF Attempt, PaymentState, TxnIds
  <2>. QED
    BY <1>1, <2>1, WriterFacts, AttemptAppended DEF InitiatePaymentTx, IInv
<1>4. request[r].snap.state \in OrderState /\ settled' = settled
  BY <1>1, WriterFacts DEF OrderRow, InitiatePaymentTx
<1>. QED
  BY <1>1, <1>2, <1>3, <1>4, WriterFacts, PlainTxInv
     DEF InitiatePaymentTx, IInv, TypeOK

LEMMA MockPaymentTxInv ==
  ASSUME IInv, NEW r \in Requests, MockPaymentTx(r)
  PROVE  IInv'
<1> DEFINE o == request[r].order
<1>1. request[r].op = "mockPayment" /\ "mockPayment" \in PlainOps
  BY DEF MockPaymentTx, At, PlainOps
<1>2. PICK target \in SettledStates(request[r].snap.deliveryType) :
        /\ UpdateOrder(o, [order[o] EXCEPT
             !.state = target, !.status = merchantStatusFromOrderState(target),
             !.paymentState = "SUCCESS", !.txn = MockTxn, !.paidAt = TRUE])
        /\ Log(o, request[r].snap.state, target)
  BY DEF MockPaymentTx
<1> DEFINE row == [order[o] EXCEPT
             !.state = target, !.status = merchantStatusFromOrderState(target),
             !.paymentState = "SUCCESS", !.txn = MockTxn, !.paidAt = TRUE]
<1>3. target \in OrderState /\ merchantStatusFromOrderState(target) \in OrderStatus
  BY <1>2, SettledStatesType, MerchantStatusType
<1>4. /\ row \in OrderRow /\ row.deliveryType = order[o].deliveryType
      /\ RowSound(o, row, settled \cup {o})
  BY <1>1, <1>3, WriterFacts DEF OrderRow, PaymentState, TxnIds, RowSound
<1>5. /\ settled' = settled \cup {o} /\ settled' \subseteq Orders
      /\ attempts' \in [Orders -> Seq(Attempt)]
  BY <1>1, WriterFacts DEF MockPaymentTx, IInv, TypeOK
<1>. QED
  BY <1>1, <1>2, <1>3, <1>4, <1>5, WriterFacts, PlainTxInv DEF MockPaymentTx

LEMMA CancelOrderTxInv ==
  ASSUME IInv, NEW r \in Requests, CancelOrderTx(r)
  PROVE  IInv'
<1> DEFINE o == request[r].order
           row == CancelledRow(order[o])
<1>1. request[r].op = "cancelOrder" /\ "cancelOrder" \in PlainOps
  BY DEF CancelOrderTx, At, PlainOps
<1>2. /\ row \in OrderRow /\ row.deliveryType = order[o].deliveryType
      /\ RowSound(o, row, settled)
  BY <1>1, WriterFacts DEF CancelledRow, OrderRow, OrderState, OrderStatus,
     RowSound, KitchenStates, merchantStatusFromOrderState
<1>3. settled' = settled /\ "CANCELLED" \in OrderState
  BY DEF CancelOrderTx, OrderState
<1>. QED
  BY <1>1, <1>2, <1>3, WriterFacts, PlainTxInv DEF CancelOrderTx, IInv, TypeOK

LEMMA MerchantUpdateTxInv ==
  ASSUME IInv, NEW r \in Requests, NEW target \in MerchantTargets,
         MerchantUpdateTx(r, target)
  PROVE  IInv'
<1> DEFINE o == request[r].order
           snap == request[r].snap
           row == [order[o] EXCEPT
             !.state = target, !.status = target,
             !.acceptedAt = (target = "PREPARING" \/ snap.acceptedAt),
             !.completedAt = (target = "COMPLETED" \/ snap.completedAt),
             !.cancelledAt = (target = "CANCELLED" \/ snap.cancelledAt)]
<1>1. request[r].op = target /\ target \in PlainOps
  BY DEF MerchantUpdateTx, At, PlainOps
<1>2. target \in {"PREPARING", "COMPLETED"} => o \in settled
  BY <1>1, WriterFacts DEF SnapshotSound
<1>3. target \in OrderState /\ target \in OrderStatus
  BY DEF MerchantTargets, OrderState, OrderStatus
<1>4. /\ (target = "PREPARING" \/ snap.acceptedAt) \in BOOLEAN
      /\ (target = "COMPLETED" \/ snap.completedAt) \in BOOLEAN
      /\ (target = "CANCELLED" \/ snap.cancelledAt) \in BOOLEAN
      /\ order[o] \in OrderRow
  BY <1>1, WriterFacts DEF OrderRow
<1>5. row \in OrderRow /\ row.deliveryType = order[o].deliveryType
  BY <1>3, <1>4 DEF OrderRow
<1>6. RowSound(o, row, settled)
  BY <1>1, <1>2, WriterFacts DEF RowSound, OrderRow, MerchantTargets,
     KitchenStates, merchantStatusFromOrderState
<1>7. settled' = settled /\ UNCHANGED attempts
  BY DEF MerchantUpdateTx
<1>. QED
  BY <1>1, <1>3, <1>5, <1>6, <1>7, WriterFacts, PlainTxInv
     DEF MerchantUpdateTx, IInv, TypeOK

LEMMA DeliveryUpdateInv ==
  ASSUME IInv, NEW r \in Requests, NEW op \in DeliveryOps, DeliveryUpdate(r, op)
  PROVE  IInv'
<1> DEFINE o == request[r].order
           row == [order[o] EXCEPT !.state = DeliveryTo(op)]
<1>1. request[r].op = op /\ op \in PlainOps
  BY DEF DeliveryUpdate, At, PlainOps, DeliveryOps
<1>2. o \in settled /\ order[o].deliveryType = "DELIVERY"
  BY <1>1, WriterFacts DEF SnapshotSound
<1>3. /\ row \in OrderRow /\ row.deliveryType = order[o].deliveryType
      /\ RowSound(o, row, settled)
  BY <1>1, <1>2, WriterFacts DEF RowSound, OrderRow, DeliveryTo, OrderState
<1>4. request[r] \in PlainRequest
  BY <1>1, WriterFacts, InFlightType DEF IInv, QueryRequest, NoticeRequest,
     DeliveryOps, CallbackOps
<1>. PICK q : q = [request[r] EXCEPT !.pc = "log"]
  OBVIOUS
<1>5. q \in RequestState
  BY <1>4 DEF PlainRequest, RequestState
<1>6. settled' = settled /\ UNCHANGED <<attempts, receipts, newestLog>>
  BY DEF DeliveryUpdate
<1>7. SnapshotSound(q)'
  <2>1. q.order = o /\ q.snap = request[r].snap /\ q.op = request[r].op
    BY <1>4 DEF PlainRequest
  <2>2. order'[o].deliveryType = order[o].deliveryType
    BY <1>1, <1>3, WriterFacts DEF DeliveryUpdate, UpdateOrder, IInv, TypeOK
  <2>3. SnapshotSound(request[r])
    BY <1>1, WriterFacts
  <2>4. /\ q.snap.deliveryType = order'[q.order].deliveryType
        /\ q.snap.paymentState = "SUCCESS" => q.snap.paidAt
        /\ q.snap.state \in KitchenStates => q.order \in settled
        /\ q.op \in {"PREPARING", "COMPLETED"} \cup DeliveryOps =>
             q.snap.state \in KitchenStates
        /\ q.op \in DeliveryOps => q.snap.deliveryType = "DELIVERY"
    BY <2>1, <2>2, <2>3 DEF SnapshotSound
  <2>. QED
    BY <1>6, <2>4 DEF SnapshotSound
<1>8. request' = [request EXCEPT ![r] = q] /\ UpdateOrder(o, row)
  BY DEF DeliveryUpdate
<1>9. /\ receipts' \subseteq Receipt
      /\ attempts' \in [Orders -> Seq(Attempt)]
      /\ newestLog' \in [Orders -> LogEntry]
      /\ settled \subseteq settled' /\ settled' \subseteq Orders
  BY <1>6 DEF IInv, TypeOK
<1>. QED
  BY <1>1, <1>3, <1>5, <1>6, <1>7, <1>8, <1>9, WriterFacts, WriteStep

LEMMA DeliveryLogInv ==
  ASSUME IInv, NEW r \in Requests, NEW op \in DeliveryOps, DeliveryLog(r, op)
  PROVE  IInv'
<1>1. request[r].op = op /\ op \in PlainOps
  BY DEF DeliveryLog, At, PlainOps, DeliveryOps
<1>2. newestLog' \in [Orders -> LogEntry]
  BY <1>1, WriterFacts, LogType
     DEF DeliveryLog, OrderRow, DeliveryTo, OrderState, IInv
<1>3. request' \in [Requests -> RequestState] /\ SnapshotsSound'
  BY SnapshotsKept DEF DeliveryLog, Finish, RequestState, IInv
<1>. QED
  BY <1>2, <1>3 DEF DeliveryLog, IInv, TypeOK, RowsSound, SuccessIsPaid,
     KitchenAfterSettlement, BoardAgreesOffDelivery

\* A transaction that inserts a receipt of its notice, or none.
LEMMA ReceiptAdded ==
  ASSUME IInv, NEW o \in Orders, NEW n \in Notice,
         receipts' \in {receipts, receipts \cup {ReceiptOf(o, n)}}
  PROVE  receipts' \subseteq Receipt
<1>1. ReceiptOf(o, n) \in Receipt
  BY DEF ReceiptOf, Receipt, Notice
<1>. QED
  BY <1>1 DEF IInv, TypeOK

\* What is known of a request that applies a notice.
LEMMA NoticeFacts ==
  ASSUME IInv, NEW r \in Requests, request[r].op \in CallbackOps
  PROVE  /\ request[r].order \in Orders
         /\ request[r].notice \in Notice
         /\ request[r].attempt \in Nat
<1>1. InFlight(r)
  BY DEF InFlight, Idle, Done, CallbackOps
<1>. QED
  BY <1>1, InFlightType DEF IInv, PlainRequest, QueryRequest, NoticeRequest,
     CallbackOps, PlainOps, MerchantTargets

LEMMA CallbackTxInv ==
  ASSUME IInv, NEW r \in Requests, CallbackTx(r)
  PROVE  IInv'
<1> DEFINE o == request[r].order
           n == request[r].notice
<1>1. request[r].op \in CallbackOps
  BY DEF CallbackTx, At, CallbackOps
<1>2. o \in Orders /\ n \in Notice /\ request[r].attempt \in Nat
  BY <1>1, NoticeFacts
<1>3. receipts' \subseteq Receipt
  BY <1>2, ReceiptAdded DEF CallbackTx
<1>4. attempts' \in [Orders -> Seq(Attempt)]
  BY <1>2, RecordAttemptType DEF CallbackTx, IInv, PaymentChannel
<1>. QED
  BY <1>1, <1>3, <1>4, SettleOrderInv DEF CallbackTx

LEMMA TelebirrTxInv ==
  ASSUME IInv, NEW r \in Requests, TelebirrTx(r)
  PROVE  IInv'
<1> DEFINE o == request[r].order
           n == request[r].notice
<1>1. request[r].op \in CallbackOps
  BY DEF TelebirrTx, At, CallbackOps
<1>2. o \in Orders /\ n \in Notice /\ request[r].attempt \in Nat
  BY <1>1, NoticeFacts
<1>3. receipts' \subseteq Receipt
  BY <1>2, ReceiptAdded DEF TelebirrTx
<1>4. attempts' \in [Orders -> Seq(Attempt)]
  BY <1>2, RecordAttemptType DEF TelebirrTx, IInv, PaymentChannel
<1>. QED
  BY <1>1, <1>3, <1>4, SettleOrderInv DEF TelebirrTx

LEMMA LookupsInv ==
  ASSUME IInv, NEW r \in Requests,
         \/ CallbackFindAttempt(r) \/ CallbackFindReceipt(r)
         \/ TelebirrFindAttempt(r) \/ TelebirrFindReceipt(r)
  PROVE  IInv'
<1>1. request[r].op \in CallbackOps
  BY DEF CallbackFindAttempt, CallbackFindReceipt, TelebirrFindAttempt,
     TelebirrFindReceipt, At, CallbackOps
<1>2. request[r].order \in Orders
  BY <1>1, NoticeFacts
<1>3. DOMAIN attempts[request[r].order] \subseteq Nat
  BY <1>2 DEF IInv, TypeOK
<1>4. CASE CallbackFindAttempt(r)
  BY <1>1, <1>3, <1>4, FoundAttemptInv DEF CallbackFindAttempt, CallbackAttempts
<1>5. CASE TelebirrFindAttempt(r)
  BY <1>1, <1>3, <1>5, FoundAttemptInv DEF TelebirrFindAttempt, TelebirrAttempts
<1>6. CASE CallbackFindReceipt(r) \/ TelebirrFindReceipt(r)
  BY <1>1, <1>6, FoundReceiptInv DEF CallbackFindReceipt, TelebirrFindReceipt
<1>. QED
  BY <1>4, <1>5, <1>6

LEMMA RequestStartsInv ==
  ASSUME IInv, NEW r \in Requests, NEW o \in Orders, RequestStarts(r, o)
  PROVE  IInv'
<1>1. CASE InitiatePayment(r, o) \/ MockPayment(r, o) \/ CancelOrder(r, o)
  BY <1>1, BeginInv DEF InitiatePayment, MockPayment, CancelOrder, PlainOps,
     DeliveryOps
<1>2. ASSUME NEW n \in CallbackNotices, ConfirmPaymentCallback(r, o, n)
      PROVE  IInv'
  <2>1. n \in Notice
    BY NoticeAssumption DEF Notice, TxnIds, CallbackStatus
  <2>. QED
    BY <1>2, <2>1, BeginNoticeInv DEF ConfirmPaymentCallback, CallbackOps
<1>3. ASSUME NEW report \in ProviderReports, TelebirrNotify(r, o, report)
      PROVE  IInv'
  <2>1. [txn |-> report.txn, status |-> report.status, body |-> report.body,
         nonce |-> o] \in Notice
    BY NoticeAssumption DEF Notice, Report, TxnIds
  <2>. QED
    BY <1>3, <2>1, BeginNoticeInv DEF TelebirrNotify, CallbackOps
<1>4. CASE ReconcileTelebirrOrder(r, o)
  <2> DEFINE q == [op |-> "query", order |-> o, snap |-> order[o]]
  <2>1. q \in RequestState
    BY DEF IInv, TypeOK, RequestState, QueryRequest
  <2>2. SnapshotSound(q)
    BY DEF SnapshotSound, IInv, RowsSound, SuccessIsPaid,
           KitchenAfterSettlement, DeliveryOps
  <2>3. request' = [request EXCEPT ![r] = q]
    BY <1>4 DEF ReconcileTelebirrOrder
  <2>. QED
    BY <1>4, <2>1, <2>2, <2>3, QuietStep DEF ReconcileTelebirrOrder
<1>5. ASSUME NEW op \in DeliveryOps, DeliveryRequest(r, o, op)
      PROVE  IInv'
  BY <1>5, BeginInv DEF DeliveryRequest, DeliveryFrom, DeliveryOps, PlainOps,
     KitchenStates
<1>6. ASSUME NEW target \in MerchantTargets, MerchantUpdate(r, o, target)
      PROVE  IInv'
  <2>1. target \in {"PREPARING", "COMPLETED"} => order[o].state \in KitchenStates
    BY <1>6 DEF MerchantUpdate, MerchantMay, KitchenStates
  <2>. QED
    BY <1>6, <2>1, BeginInv DEF MerchantUpdate, PlainOps, MerchantTargets,
       DeliveryOps
<1>. QED
  BY <1>1, <1>2, <1>3, <1>4, <1>5, <1>6 DEF RequestStarts

LEMMA QueryAnsweredInv ==
  ASSUME IInv, NEW r \in Requests, NEW report \in ProviderReports,
         NEW named \in BOOLEAN, QueryAnswered(r, report, named)
  PROVE  IInv'
<1> DEFINE o == request[r].order
           known == request[r].snap.txn
           txn == IF named THEN report.txn ELSE IF known # NoTxn THEN known ELSE o
           n == [txn |-> txn, status |-> report.status, body |-> report.body,
                 nonce |-> o]
<1>1. o \in Orders /\ known \in TxnIds
  BY InFlightType DEF QueryAnswered, InFlight, Idle, Done, IInv, OrderRow
<1>2. n \in Notice
  BY <1>1, NoticeAssumption DEF Notice, Report, TxnIds
<1>. QED
  BY <1>1, <1>2, BeginNoticeInv DEF QueryAnswered, CallbackOps

LEMMA RequestContinuesInv ==
  ASSUME IInv, NEW r \in Requests, RequestContinues(r)
  PROVE  IInv'
BY InitiatePaymentTxInv, MockPaymentTxInv, LookupsInv, CallbackTxInv, FinishInv,
   QueryAnsweredInv, TelebirrTxInv, CancelOrderTxInv, DeliveryUpdateInv,
   DeliveryLogInv, MerchantUpdateTxInv
DEF RequestContinues, CallbackRollback, TelebirrRollback

LEMMA NextInv == IInv /\ [Next]_vars => IInv'
<1> SUFFICES ASSUME IInv, [Next]_vars PROVE IInv'
  OBVIOUS
<1>1. CASE Next
  BY <1>1, RequestStartsInv, RequestContinuesInv, FinishInv DEF Next, Abort
<1>2. CASE UNCHANGED vars
  BY <1>2 DEF vars, IInv, TypeOK, RowsSound, KitchenAfterSettlement,
     SuccessIsPaid, BoardAgreesOffDelivery, SnapshotsSound, SnapshotSound, InFlight
<1>. QED
  BY <1>1, <1>2

-----------------------------------------------------------------------------
(* The theorems. *)

\* The inductive invariant holds of every execution.
THEOREM Invariance == Spec => []IInv
BY InitInv, NextInv, PTL DEF Spec

\* Rows, receipts and requests keep their types through every handler.
THEOREM TypeCorrectness == Spec => []TypeOK
<1>1. IInv => TypeOK
  BY DEF IInv
<1>. QED
  BY <1>1, Invariance, PTL

\* However stale the snapshots that order.service.ts writes from, no order is
\* paid, prepared or completed without a settlement.
THEOREM NoKitchenWithoutSettlement == Spec => []KitchenAfterSettlement
<1>1. IInv => KitchenAfterSettlement
  BY DEF IInv, RowsSound
<1>. QED
  BY <1>1, Invariance, PTL

\* However the payment handlers interleave, SUCCESS comes with paidAt.
THEOREM PaidOrdersAreStamped == Spec => []SuccessIsPaid
<1>1. IInv => SuccessIsPaid
  BY DEF IInv, RowsSound
<1>. QED
  BY <1>1, Invariance, PTL

\* Off delivery, the kitchen board never disagrees with the order's state.
THEOREM BoardAgreement == Spec => []BoardAgreesOffDelivery
<1>1. IInv => BoardAgreesOffDelivery
  BY DEF IInv, RowsSound
<1>. QED
  BY <1>1, Invariance, PTL

\* What remains true of a snapshot while other handlers write.
THEOREM SnapshotsStaySound == Spec => []SnapshotsSound
<1>1. IInv => SnapshotsSound
  BY DEF IInv
<1>. QED
  BY <1>1, Invariance, PTL

-----------------------------------------------------------------------------
(* Overlaps.  A row that looks final looks final on the board too, and a     *)
(* payment that succeeded is not waited for; so it was in every snapshot.    *)
(* What a handler checked there makes it take back nothing from a row that   *)
(* still has the state and the payment it read.                              *)

RowClosed(row) ==
  /\ row.state \in {"COMPLETED", "CANCELLED"} => row.status = row.state
  /\ row.paymentState = "SUCCESS" => row.state # "PENDING_PAYMENT"

\* The early returns of the handlers, as the snapshot of a request passed them.
Passed(q) ==
  /\ q.op \in {"initiatePayment", "mockPayment"} =>
       q.snap.state = "PENDING_PAYMENT"
  /\ q.op = "cancelOrder" => CustomerMayCancel(q.snap)
  /\ q.op \in DeliveryOps =>
       q.snap.deliveryType = "DELIVERY" /\ q.snap.state = DeliveryFrom(q.op)
  /\ q.op \in MerchantTargets => MerchantMay(q.snap, q.op)

OverlapInv ==
  /\ \A o \in Orders : RowClosed(order[o])
  /\ \A r \in Requests : InFlight(r) => RowClosed(request[r].snap) /\ Passed(request[r])

\* What LossesAreOverlaps asks of a step.
LossesExplained ==
  \A o \in Orders : order'[o] # order[o] =>
    \E r \in Requests :
      /\ InFlight(r) /\ request[r].order = o /\ request'[r] # request[r]
      /\ TakesBack(request[r].op, order[o], order'[o]) =>
           Outdated(request[r].snap, order[o])

LEMMA InitOverlap == Init => OverlapInv
<1> SUFFICES ASSUME Init PROVE OverlapInv
  OBVIOUS
<1>1. ASSUME NEW o \in Orders PROVE RowClosed(order[o])
  <2>1. order[o] \in InitialRows
    BY DEF Init
  <2>. QED
    BY <2>1, InitialRowsSound DEF RowClosed, merchantStatusFromOrderState
<1>. QED
  BY <1>1 DEF Init, OverlapInv, InFlight

\* Whoever reads a row has a closed snapshot; the other requests keep theirs.
LEMMA RequestOverlap ==
  ASSUME TypeOK, OverlapInv, NEW r \in Requests, NEW q,
         request' = [request EXCEPT ![r] = q],
         q \in {Idle, Done} \/ (RowClosed(q.snap) /\ Passed(q))
  PROVE  \A p \in Requests : InFlight(p)' =>
           RowClosed(request'[p].snap) /\ Passed(request'[p])
<1>1. /\ request'[r] = q
      /\ \A p \in Requests \ {r} : request'[p] = request[p]
  BY DEF TypeOK
<1>. QED
  BY <1>1 DEF OverlapInv, InFlight

\* A step that leaves the orders alone.
LEMMA QuietOverlap ==
  ASSUME TypeOK, OverlapInv, NEW r \in Requests, NEW q,
         request' = [request EXCEPT ![r] = q],
         q \in {Idle, Done} \/ (RowClosed(q.snap) /\ Passed(q)),
         UNCHANGED order
  PROVE  OverlapInv' /\ LossesExplained
<1>1. OverlapInv'
  BY RequestOverlap DEF OverlapInv, RowClosed, Passed, InFlight
<1>. QED
  BY <1>1 DEF LossesExplained

\* A step of a request in flight that writes its order: it ends, or goes on
\* with the snapshot it has.
LEMMA WriteOverlap ==
  ASSUME TypeOK, OverlapInv, NEW r \in Requests, InFlight(r),
         NEW q, request' = [request EXCEPT ![r] = q], q # request[r],
         q \in {Idle, Done} \/ (RowClosed(q.snap) /\ Passed(q)),
         request[r].order \in Orders,
         NEW row, UpdateOrder(request[r].order, row), RowClosed(row),
         TakesBack(request[r].op, order[request[r].order], row) =>
           Outdated(request[r].snap, order[request[r].order])
  PROVE  OverlapInv' /\ LossesExplained
<1> DEFINE o == request[r].order
<1>1. /\ order'[o] = row
      /\ \A p \in Orders \ {o} : order'[p] = order[p]
  BY DEF TypeOK, UpdateOrder
<1>2. \A p \in Orders : RowClosed(order'[p])
  BY <1>1 DEF OverlapInv
<1>3. OverlapInv'
  BY <1>2, RequestOverlap DEF OverlapInv, RowClosed, Passed, InFlight
<1>4. request'[r] # request[r]
  BY DEF TypeOK
<1>5. LossesExplained
  BY <1>1, <1>4 DEF LossesExplained
<1>. QED
  BY <1>3, <1>5

\* A step that ends a request which has written its order.
LEMMA FinishWriteOverlap ==
  ASSUME TypeOK, OverlapInv, NEW r \in Requests, InFlight(r), Finish(r),
         request[r].order \in Orders,
         NEW row, UpdateOrder(request[r].order, row), RowClosed(row),
         TakesBack(request[r].op, order[request[r].order], row) =>
           Outdated(request[r].snap, order[request[r].order])
  PROVE  OverlapInv' /\ LossesExplained
<1>1. /\ request' = [request EXCEPT ![r] = Done]
      /\ Done # request[r]
  BY DEF Finish, InFlight
<1>. QED
  BY <1>1, WriteOverlap

\* What is known of a request about to write.
LEMMA OverlapWriter ==
  ASSUME IInv, OverlapInv, NEW r \in Requests,
         request[r].op \in PlainOps \cup CallbackOps
  PROVE  /\ TypeOK /\ InFlight(r)
         /\ request[r].order \in Orders
         /\ request[r].snap \in OrderRow
         /\ order[request[r].order] \in OrderRow
         /\ RowClosed(order[request[r].order])
         /\ RowClosed(request[r].snap) /\ Passed(request[r])
<1>1. InFlight(r) /\ request[r].order \in Orders
  BY WriterFacts
<1>. QED
  BY <1>1, WriterFacts DEF OverlapInv, IInv

LEMMA StartsOverlap ==
  ASSUME IInv, OverlapInv, NEW r \in Requests, NEW o \in Orders,
         RequestStarts(r, o)
  PROVE  OverlapInv' /\ LossesExplained
<1>1. TypeOK /\ RowClosed(order[o])
  BY DEF IInv, OverlapInv
<1>2. ASSUME NEW op, Begin(r, o, op),
             op \in {"initiatePayment", "mockPayment"} =>
               order[o].state = "PENDING_PAYMENT",
             op = "cancelOrder" => CustomerMayCancel(order[o]),
             op \in DeliveryOps => /\ order[o].deliveryType = "DELIVERY"
                                   /\ order[o].state = DeliveryFrom(op),
             op \in MerchantTargets => MerchantMay(order[o], op)
      PROVE  OverlapInv' /\ LossesExplained
  <2> DEFINE q == [op |-> op, pc |-> "write", order |-> o, snap |-> order[o]]
  <2>1. Passed(q) /\ q.snap = order[o]
    BY <1>2 DEF Passed
  <2>2. request' = [request EXCEPT ![r] = q] /\ UNCHANGED order
    BY <1>2 DEF Begin
  <2> HIDE DEF q
  <2>. QED
    BY <1>1, <2>1, <2>2, QuietOverlap
<1>3. CASE InitiatePayment(r, o) \/ MockPayment(r, o) \/ CancelOrder(r, o)
  BY <1>2, <1>3 DEF InitiatePayment, MockPayment, CancelOrder, DeliveryOps,
     MerchantTargets
<1>4. ASSUME NEW op \in DeliveryOps, DeliveryRequest(r, o, op)
      PROVE  OverlapInv' /\ LossesExplained
  BY <1>2, <1>4 DEF DeliveryRequest, DeliveryOps, MerchantTargets
<1>5. ASSUME NEW target \in MerchantTargets, MerchantUpdate(r, o, target)
      PROVE  OverlapInv' /\ LossesExplained
  BY <1>2, <1>5 DEF MerchantUpdate, DeliveryOps, MerchantTargets
<1>6. ASSUME NEW op \in CallbackOps, NEW n, BeginNotice(r, o, op, n),
             UNCHANGED order
      PROVE  OverlapInv' /\ LossesExplained
  <2> DEFINE q == [op |-> op, pc |-> "attempt", order |-> o, snap |-> order[o],
                   notice |-> n, attempt |-> 0]
  <2>1. Passed(q) /\ q.snap = order[o]
    BY DEF Passed, CallbackOps, DeliveryOps, MerchantTargets
  <2>2. request' = [request EXCEPT ![r] = q]
    BY <1>6 DEF BeginNotice
  <2> HIDE DEF q
  <2>. QED
    BY <1>1, <1>6, <2>1, <2>2, QuietOverlap
<1>7. CASE ReconcileTelebirrOrder(r, o)
  <2> DEFINE q == [op |-> "query", order |-> o, snap |-> order[o]]
  <2>1. Passed(q) /\ q.snap = order[o]
    BY DEF Passed, DeliveryOps, MerchantTargets
  <2>2. request' = [request EXCEPT ![r] = q] /\ UNCHANGED order
    BY <1>7 DEF ReconcileTelebirrOrder
  <2> HIDE DEF q
  <2>. QED
    BY <1>1, <2>1, <2>2, QuietOverlap
<1>8. ASSUME NEW n \in CallbackNotices, ConfirmPaymentCallback(r, o, n)
      PROVE  OverlapInv' /\ LossesExplained
  BY <1>6, <1>8 DEF ConfirmPaymentCallback, CallbackOps
<1>9. ASSUME NEW report \in ProviderReports, TelebirrNotify(r, o, report)
      PROVE  OverlapInv' /\ LossesExplained
  BY <1>6, <1>9 DEF TelebirrNotify, CallbackOps
<1>. QED
  BY <1>3, <1>4, <1>5, <1>7, <1>8, <1>9 DEF RequestStarts

LEMMA FinishOverlap ==
  ASSUME IInv, OverlapInv, NEW r \in Requests, Finish(r), UNCHANGED order
  PROVE  OverlapInv' /\ LossesExplained
BY QuietOverlap DEF Finish, IInv

\* The lookups of a notice handler keep its snapshot.
LEMMA LookupsOverlap ==
  ASSUME IInv, OverlapInv, NEW r \in Requests,
         \/ CallbackFindAttempt(r) \/ CallbackFindReceipt(r)
         \/ TelebirrFindAttempt(r) \/ TelebirrFindReceipt(r)
  PROVE  OverlapInv' /\ LossesExplained
<1>1. request[r].op \in CallbackOps /\ UNCHANGED order
  BY DEF CallbackFindAttempt, CallbackFindReceipt, TelebirrFindAttempt,
     TelebirrFindReceipt, FoundAttempt, FoundReceipt, At, CallbackOps
<1>2. /\ TypeOK /\ RowClosed(request[r].snap) /\ Passed(request[r])
      /\ request[r] \in NoticeRequest
  BY <1>1, OverlapWriter, InFlightType DEF PlainRequest, QueryRequest,
     CallbackOps, PlainOps, MerchantTargets
<1>3. ASSUME NEW q, request' = [request EXCEPT ![r] = q],
             q.op = request[r].op, q.snap = request[r].snap
      PROVE  OverlapInv' /\ LossesExplained
  <2>1. RowClosed(q.snap) /\ Passed(q)
    BY <1>2, <1>3 DEF Passed
  <2>. QED
    BY <1>1, <1>2, <1>3, <2>1, QuietOverlap
<1>4. ASSUME NEW i, NEW next, FoundAttempt(r, i, next)
      PROVE  OverlapInv' /\ LossesExplained
  <2> DEFINE q == [request[r] EXCEPT !.attempt = i, !.pc = next]
  <2>1. q.op = request[r].op /\ q.snap = request[r].snap
    BY <1>2 DEF NoticeRequest
  <2>2. Finish(r) \/ request' = [request EXCEPT ![r] = q]
    BY <1>4 DEF FoundAttempt
  <2> HIDE DEF q
  <2>. QED
    BY <1>1, <1>3, <2>1, <2>2, FinishOverlap
<1>5. ASSUME NEW known, FoundReceipt(r, known)
      PROVE  OverlapInv' /\ LossesExplained
  <2> DEFINE q == [request[r] EXCEPT !.pc = "write"]
  <2>1. q.op = request[r].op /\ q.snap = request[r].snap
    BY <1>2 DEF NoticeRequest
  <2>2. Finish(r) \/ request' = [request EXCEPT ![r] = q]
    BY <1>5 DEF FoundReceipt
  <2> HIDE DEF q
  <2>. QED
    BY <1>1, <1>3, <2>1, <2>2, FinishOverlap
<1>. QED
  BY <1>4, <1>5 DEF CallbackFindAttempt, CallbackFindReceipt,
     TelebirrFindAttempt, TelebirrFindReceipt

LEMMA QueryAnsweredOverlap ==
  ASSUME IInv, OverlapInv, NEW r \in Requests, NEW report, NEW named,
         QueryAnswered(r, report, named)
  PROVE  OverlapInv' /\ LossesExplained
<1> DEFINE o == request[r].order
<1>1. PICK n : BeginNotice(r, o, "telebirrQuery", n) /\ UNCHANGED order
  BY DEF QueryAnswered
<1> DEFINE q == [op |-> "telebirrQuery", pc |-> "attempt", order |-> o,
                 snap |-> order[o], notice |-> n, attempt |-> 0]
<1>2. o \in Orders
  BY InFlightType DEF QueryAnswered, InFlight, Idle, Done, IInv
<1>3. RowClosed(q.snap) /\ Passed(q)
  BY <1>2 DEF OverlapInv, Passed, DeliveryOps, MerchantTargets
<1>4. request' = [request EXCEPT ![r] = q]
  BY <1>1 DEF BeginNotice
<1> HIDE DEF q
<1>. QED
  BY <1>1, <1>3, <1>4, QuietOverlap DEF IInv

\* initiatePayment takes SUCCESS back only if it read another paymentState.
LEMMA InitiatePaymentTxOverlap ==
  ASSUME IInv, OverlapInv, NEW r \in Requests, NEW c \in PaymentChannel,
         InitiatePaymentTx(r, c)
  PROVE  OverlapInv' /\ LossesExplained
<1> DEFINE old == order[request[r].order]
           row == [old EXCEPT !.paymentState = "INITIATED"]
<1>1. /\ request[r].op = "initiatePayment" /\ Finish(r)
      /\ UpdateOrder(request[r].order, row)
  BY DEF InitiatePaymentTx, At
<1>2. /\ TypeOK /\ InFlight(r) /\ request[r].order \in Orders
      /\ old \in OrderRow /\ RowClosed(old)
      /\ request[r].snap.state = "PENDING_PAYMENT"
  BY <1>1, OverlapWriter DEF PlainOps, Passed
<1>3. /\ row.state = old.state /\ row.status = old.status
      /\ row.paymentState = "INITIATED"
  BY <1>2 DEF OrderRow
<1>4. RowClosed(row)
  BY <1>2, <1>3 DEF RowClosed
<1>5. TakesBack(request[r].op, old, row) => Outdated(request[r].snap, old)
  BY <1>1, <1>2, <1>3 DEF TakesBack, Outdated, RowClosed, KitchenStates
<1> HIDE DEF row
<1>. QED
  BY <1>1, <1>2, <1>4, <1>5, FinishWriteOverlap

\* The mock payment starts over an order only if it read an unpaid one.
LEMMA MockPaymentTxOverlap ==
  ASSUME IInv, OverlapInv, NEW r \in Requests, MockPaymentTx(r)
  PROVE  OverlapInv' /\ LossesExplained
<1> DEFINE old == order[request[r].order]
<1>1. request[r].op = "mockPayment" /\ Finish(r)
  BY DEF MockPaymentTx, At
<1>0. PICK target \in SettledStates(request[r].snap.deliveryType) :
        UpdateOrder(request[r].order, [old EXCEPT
          !.state = target, !.status = merchantStatusFromOrderState(target),
          !.paymentState = "SUCCESS", !.txn = MockTxn, !.paidAt = TRUE])
  BY DEF MockPaymentTx
<1>2. PICK row :
        /\ row = [old EXCEPT
             !.state = target, !.status = merchantStatusFromOrderState(target),
             !.paymentState = "SUCCESS", !.txn = MockTxn, !.paidAt = TRUE]
        /\ UpdateOrder(request[r].order, row)
  BY <1>0
<1>3. /\ TypeOK /\ InFlight(r) /\ request[r].order \in Orders
      /\ old \in OrderRow
      /\ request[r].snap.state = "PENDING_PAYMENT"
  BY <1>1, OverlapWriter DEF PlainOps, Passed
<1>4. /\ row.state = target /\ row.paymentState = "SUCCESS"
      /\ target \in {"PAID", "PREPARING"}
  BY <1>0, <1>2, <1>3 DEF OrderRow, SettledStates
<1>5. RowClosed(row)
  BY <1>4 DEF RowClosed
<1>6. TakesBack(request[r].op, old, row) => Outdated(request[r].snap, old)
  BY <1>1, <1>3, <1>4 DEF TakesBack, Outdated
<1>. QED
  BY <1>1, <1>2, <1>3, <1>5, <1>6, FinishWriteOverlap

\* A notice settles or fails the order it read unpaid, and leaves any other in
\* the state it read.
LEMMA SettleOrderOverlap ==
  ASSUME IInv, OverlapInv, NEW r \in Requests, request[r].op \in CallbackOps,
         SettleOrder(request[r].order, request[r].snap, request[r].notice),
         Finish(r)
  PROVE  OverlapInv' /\ LossesExplained
<1> DEFINE old == order[request[r].order]
           snap == request[r].snap
           n == request[r].notice
<1>1. /\ TypeOK /\ InFlight(r) /\ request[r].order \in Orders
      /\ old \in OrderRow /\ RowClosed(old) /\ RowClosed(snap)
      /\ request[r].op # "cancelOrder"
  BY OverlapWriter DEF CallbackOps
<1>2. n.status \in {"SUCCESS", "FAILED", "PENDING"}
  BY NoticeFacts DEF Notice, CallbackStatus
<1>0. PICK target \in TargetStates(snap, n.status) :
        UpdateOrder(request[r].order, [old EXCEPT
          !.state = target, !.status = merchantStatusFromOrderState(target),
          !.paymentState = TargetPaymentState(snap, n.status),
          !.txn = n.txn, !.paidAt = PaidAt(snap, n)])
  BY DEF SettleOrder
<1>3. PICK row :
        /\ row = [old EXCEPT
             !.state = target, !.status = merchantStatusFromOrderState(target),
             !.paymentState = TargetPaymentState(snap, n.status),
             !.txn = n.txn, !.paidAt = PaidAt(snap, n)]
        /\ UpdateOrder(request[r].order, row)
  BY <1>0
<1>4. /\ row.state = target /\ row.status = merchantStatusFromOrderState(target)
      /\ row.paymentState = TargetPaymentState(snap, n.status)
  BY <1>1, <1>3 DEF OrderRow
<1>5. \/ /\ snap.state = "PENDING_PAYMENT"
         /\ row.paymentState = n.status
         /\ \/ n.status = "PENDING" /\ target = "PENDING_PAYMENT"
            \/ target \in {"PAID", "PREPARING", "PAYMENT_FAILED"}
      \/ /\ snap.state # "PENDING_PAYMENT" /\ target = snap.state
         /\ row.paymentState \in {"PENDING", snap.paymentState}
  BY <1>0, <1>2, <1>4 DEF TargetStates, TargetPaymentState, SettledStates
<1>6. RowClosed(row)
  BY <1>1, <1>4, <1>5 DEF RowClosed, merchantStatusFromOrderState
<1>7. TakesBack(request[r].op, old, row) => Outdated(snap, old)
  BY <1>1, <1>4, <1>5 DEF TakesBack, Outdated, RowClosed, KitchenStates
<1>. QED
  BY <1>1, <1>3, <1>6, <1>7, FinishWriteOverlap

LEMMA CancelOrderTxOverlap ==
  ASSUME IInv, OverlapInv, NEW r \in Requests, CancelOrderTx(r)
  PROVE  OverlapInv' /\ LossesExplained
<1> DEFINE old == order[request[r].order]
           row == CancelledRow(old)
<1>1. /\ request[r].op = "cancelOrder" /\ Finish(r)
      /\ UpdateOrder(request[r].order, row)
  BY DEF CancelOrderTx, At
<1>2. /\ TypeOK /\ InFlight(r) /\ request[r].order \in Orders
      /\ old \in OrderRow
      /\ request[r].snap.state \in {"PENDING_PAYMENT", "PAYMENT_FAILED"}
  BY <1>1, OverlapWriter DEF PlainOps, Passed, CustomerMayCancel
<1>3. /\ row.state = "CANCELLED" /\ row.status = "CANCELLED"
      /\ row.paymentState = old.paymentState
  BY <1>2 DEF CancelledRow, OrderRow
<1>4. RowClosed(row)
  BY <1>3 DEF RowClosed
<1>5. TakesBack(request[r].op, old, row) => Outdated(request[r].snap, old)
  BY <1>2, <1>3 DEF TakesBack, Outdated, KitchenStates
<1> HIDE DEF row
<1>. QED
  BY <1>1, <1>2, <1>4, <1>5, FinishWriteOverlap

\* The board of a snapshot shows whether its state is final.
LEMMA MerchantUpdateTxOverlap ==
  ASSUME IInv, OverlapInv, NEW r \in Requests, NEW target \in MerchantTargets,
         MerchantUpdateTx(r, target)
  PROVE  OverlapInv' /\ LossesExplained
<1> DEFINE old == order[request[r].order]
           snap == request[r].snap
<1>1. request[r].op = target /\ Finish(r)
  BY DEF MerchantUpdateTx, At
<1>2. PICK row :
        /\ row = [old EXCEPT
             !.state = target, !.status = target,
             !.acceptedAt = (target = "PREPARING" \/ snap.acceptedAt),
             !.completedAt = (target = "COMPLETED" \/ snap.completedAt),
             !.cancelledAt = (target = "CANCELLED" \/ snap.cancelledAt)]
        /\ UpdateOrder(request[r].order, row)
  BY DEF MerchantUpdateTx
<1>3. /\ TypeOK /\ InFlight(r) /\ request[r].order \in Orders
      /\ old \in OrderRow /\ RowClosed(old) /\ RowClosed(snap)
      /\ MerchantMay(snap, target)
  BY <1>1, OverlapWriter DEF PlainOps, Passed
<1>4. /\ row.state = target /\ row.status = target
      /\ row.paymentState = old.paymentState
  BY <1>2, <1>3 DEF OrderRow
<1>5. snap.state \notin {"COMPLETED", "CANCELLED"}
  BY <1>3 DEF MerchantMay, RowClosed
<1>6. RowClosed(row)
  BY <1>4 DEF RowClosed, MerchantTargets
<1>7. TakesBack(request[r].op, old, row) => Outdated(snap, old)
  BY <1>1, <1>4, <1>5 DEF TakesBack, Outdated, MerchantTargets
<1>. QED
  BY <1>1, <1>2, <1>3, <1>6, <1>7, FinishWriteOverlap

LEMMA DeliveryUpdateOverlap ==
  ASSUME IInv, OverlapInv, NEW r \in Requests, NEW op \in DeliveryOps,
         DeliveryUpdate(r, op)
  PROVE  OverlapInv' /\ LossesExplained
<1> DEFINE old == order[request[r].order]
<1>. PICK q : q = [request[r] EXCEPT !.pc = "log"]
  OBVIOUS
<1>1. /\ request[r].op = op /\ request[r].pc = "write"
      /\ request' = [request EXCEPT ![r] = q]
  BY DEF DeliveryUpdate, At
<1>2. PICK row : /\ row = [old EXCEPT !.state = DeliveryTo(op)]
                 /\ UpdateOrder(request[r].order, row)
  BY DEF DeliveryUpdate
<1>3. /\ TypeOK /\ InFlight(r) /\ request[r].order \in Orders
      /\ old \in OrderRow /\ RowClosed(old)
      /\ RowClosed(request[r].snap) /\ Passed(request[r])
  BY <1>1, OverlapWriter DEF PlainOps, DeliveryOps
<1>4. request[r] \in PlainRequest
  BY <1>1, <1>3, InFlightType DEF QueryRequest, NoticeRequest, DeliveryOps,
     CallbackOps
<1>5. /\ q.op = request[r].op /\ q.snap = request[r].snap /\ q # request[r]
  BY <1>1, <1>4 DEF PlainRequest
<1>6. RowClosed(q.snap) /\ Passed(q)
  BY <1>3, <1>5 DEF Passed
<1>7. /\ row.state = DeliveryTo(op) /\ row.paymentState = old.paymentState
      /\ DeliveryTo(op) \in {"PREPARING", "READY"}
      /\ DeliveryFrom(op) \in {"PAID", "PREPARING"}
      /\ request[r].snap.state = DeliveryFrom(op) /\ op # "cancelOrder"
  BY <1>1, <1>2, <1>3 DEF OrderRow, Passed, DeliveryOps, DeliveryTo, DeliveryFrom
<1>8. RowClosed(row)
  BY <1>7 DEF RowClosed
<1>9. TakesBack(request[r].op, old, row) => Outdated(request[r].snap, old)
  BY <1>1, <1>7 DEF TakesBack, Outdated
<1>. QED
  BY <1>1, <1>2, <1>3, <1>5, <1>6, <1>8, <1>9, WriteOverlap

LEMMA ContinuesOverlap ==
  ASSUME IInv, OverlapInv, NEW r \in Requests, RequestContinues(r)
  PROVE  OverlapInv' /\ LossesExplained
<1>1. ASSUME CallbackTx(r) \/ TelebirrTx(r)
      PROVE  OverlapInv' /\ LossesExplained
  BY <1>1, SettleOrderOverlap DEF CallbackTx, TelebirrTx, At, CallbackOps
<1>2. ASSUME NEW op, CallbackRollback(r) \/ TelebirrRollback(r) \/ DeliveryLog(r, op)
      PROVE  OverlapInv' /\ LossesExplained
  BY <1>2, FinishOverlap DEF CallbackRollback, TelebirrRollback, DeliveryLog
<1>. QED
  BY <1>1, <1>2, InitiatePaymentTxOverlap, MockPaymentTxOverlap, LookupsOverlap,
     QueryAnsweredOverlap, CancelOrderTxOverlap, DeliveryUpdateOverlap,
     MerchantUpdateTxOverlap DEF RequestContinues

LEMMA NextOverlap ==
  IInv /\ OverlapInv /\ [Next]_vars => OverlapInv' /\ LossesExplained
<1> SUFFICES ASSUME IInv, OverlapInv, [Next]_vars
             PROVE  OverlapInv' /\ LossesExplained
  OBVIOUS
<1>1. CASE Next
  BY <1>1, StartsOverlap, ContinuesOverlap, FinishOverlap DEF Next, Abort
<1>2. CASE UNCHANGED vars
  BY <1>2 DEF vars, OverlapInv, InFlight, RowClosed, Passed, LossesExplained
<1>. QED
  BY <1>1, <1>2

\* In any interleaving a handler takes an order back only from a state or a
\* payment that it has not read: what order.service.ts loses, it loses between
\* two handlers, never by a wrong check of one.
THEOREM OnlyOverlapsLose == Spec => LossesAreOverlaps
<1>1. IInv /\ OverlapInv /\ [Next]_vars =>
        [\A o \in Orders : order'[o] # order[o] =>
           \E r \in Requests :
             /\ InFlight(r) /\ request[r].order = o /\ request'[r] # request[r]
             /\ TakesBack(request[r].op, order[o], order'[o]) =>
                  Outdated(request[r].snap, order[o])]_vars
  BY NextOverlap DEF LossesExplained
<1>. QED
  BY <1>1, InitOverlap, NextOverlap, Invariance, PTL DEF Spec, LossesAreOverlaps

-----------------------------------------------------------------------------
(* Serial executions.  With one request at a time the snapshot a handler     *)
(* writes from is the row itself, so what the handler checked when it began  *)
(* still holds when it writes; only acceptDeliveryOrder and                  *)
(* markDeliveryOrderReady run on after changing the row, up to their log.    *)

OneAtATime == \A p, q \in Requests : InFlight(p) /\ InFlight(q) => p = q

\* The row is the one the request read, and it passed the early returns.
StillCurrent(q) ==
  /\ order[q.order] = IF q.op \in DeliveryOps /\ q.pc = "log"
                      THEN [q.snap EXCEPT !.state = DeliveryTo(q.op)] ELSE q.snap
  /\ Passed(q)

SnapshotsCurrent == \A r \in Requests : InFlight(r) => StillCurrent(request[r])

\* One row, with "to" the state its newest log row names and s the settled
\* orders.  That paymentState SUCCESS is a settlement keeps a paid order out of
\* the states in which initiatePayment and a failure notice write paymentState.
RowInOrder(o, row, to, s) ==
  /\ o \in s => row.state \notin {"PENDING_PAYMENT", "PAYMENT_FAILED"}
  /\ row.paymentState = "SUCCESS" => o \in s
  /\ \/ row.status = merchantStatusFromOrderState(row.state)
     \/ BeingDelivered(row) /\ row.status = "PENDING"
  /\ to = row.state \/ BeingDelivered(row)

RowsInOrder ==
  \A o \in Orders : RowInOrder(o, order[o], newestLog[o].to, settled)

SerialInv == OneAtATime /\ SnapshotsCurrent /\ RowsInOrder

\* What a write may not do to a row: the two action properties.
RowKept(old, new) ==
  /\ old.paymentState = "SUCCESS" =>
       new.paidAt /\ new.paymentState \in {"SUCCESS", "PENDING"}
  /\ old.state \in {"COMPLETED", "CANCELLED"} => new.state = old.state

RowsKept == \A o \in Orders : RowKept(order[o], order'[o])

LEMMA InitSerial == Init => SerialInv
<1> SUFFICES ASSUME Init PROVE SerialInv
  OBVIOUS
<1>1. \A o \in Orders : order[o] \in InitialRows
  BY DEF Init
<1>2. ASSUME NEW o \in Orders
      PROVE  RowInOrder(o, order[o], newestLog[o].to, settled)
  <2>1. /\ order[o].paymentState # "SUCCESS"
        /\ order[o].status = merchantStatusFromOrderState(order[o].state)
        /\ order[o].state # "PENDING_PAYMENT" => order[o].state \in KitchenStates
    BY <1>1, InitialRowsSound
  <2>2. /\ newestLog[o].to = order[o].state
        /\ o \in settled => order[o].state # "PENDING_PAYMENT"
    BY DEF Init
  <2>. QED
    BY <2>1, <2>2 DEF RowInOrder, KitchenStates
<1>3. OneAtATime /\ SnapshotsCurrent
  BY DEF Init, OneAtATime, SnapshotsCurrent, InFlight
<1>. QED
  BY <1>2, <1>3 DEF SerialInv, RowsInOrder

\* A step that leaves the database alone, while no other request runs.
LEMMA QuietSerial ==
  ASSUME IInv, SerialInv, NEW r \in Requests, NEW q,
         request' = [request EXCEPT ![r] = q],
         q \in {Idle, Done} \/ StillCurrent(q),
         \A p \in Requests \ {r} : ~InFlight(p),
         UNCHANGED <<order, newestLog, settled>>
  PROVE  SerialInv' /\ RowsKept
<1>1. \A p \in Requests : InFlight(p)' => p = r /\ request'[p] = q
  BY DEF IInv, TypeOK, InFlight
<1>2. OneAtATime'
  BY <1>1 DEF OneAtATime
<1>3. ASSUME NEW p \in Requests, InFlight(p)'
      PROVE  StillCurrent(request[p])'
  <2>1. request'[p] = q /\ q \notin {Idle, Done}
    BY <1>1, <1>3 DEF InFlight
  <2>. QED
    BY <2>1 DEF StillCurrent, Passed
<1>4. RowsInOrder'
  BY DEF SerialInv, RowsInOrder
<1>5. RowsKept
  BY DEF RowsKept, RowKept, IInv, RowsSound, SuccessIsPaid
<1>. QED
  BY <1>2, <1>3, <1>4, <1>5 DEF SerialInv, SnapshotsCurrent

\* A transaction that ends the one request in flight with a row in order.
LEMMA WriteSerial ==
  ASSUME IInv, SerialInv, NEW r \in Requests, InFlight(r), Finish(r),
         NEW o \in Orders, NEW row, UpdateOrder(o, row),
         NEW from, NEW to, Log(o, from, to),
         settled' \in {settled, settled \cup {o}},
         RowInOrder(o, row, to, settled'), RowKept(order[o], row)
  PROVE  SerialInv' /\ RowsKept
<1>1. \A p \in Requests : ~InFlight(p)'
  BY DEF SerialInv, OneAtATime, IInv, TypeOK, InFlight, Finish
<1>2. /\ order'[o] = row /\ newestLog'[o].to = to
      /\ \A p \in Orders \ {o} : order'[p] = order[p] /\ newestLog'[p] = newestLog[p]
  BY DEF IInv, TypeOK, UpdateOrder, Log
<1>3. ASSUME NEW p \in Orders
      PROVE  /\ RowInOrder(p, order'[p], newestLog'[p].to, settled')
             /\ RowKept(order[p], order'[p])
  <2>1. CASE p = o
    BY <1>2, <2>1
  <2>2. CASE p # o
    <3>1. RowInOrder(p, order[p], newestLog[p].to, settled)
      BY DEF SerialInv, RowsInOrder
    <3>2. p \in settled' <=> p \in settled
      BY <2>2
    <3>3. RowInOrder(p, order'[p], newestLog'[p].to, settled')
      BY <1>2, <2>2, <3>1, <3>2 DEF RowInOrder
    <3>4. RowKept(order[p], order'[p])
      BY <1>2, <2>2 DEF RowKept, IInv, RowsSound, SuccessIsPaid
    <3>. QED
      BY <3>3, <3>4
  <2>. QED
    BY <2>1, <2>2
<1>4. RowsInOrder'
  BY <1>3 DEF RowsInOrder, RowInOrder, BeingDelivered, merchantStatusFromOrderState
<1>. QED
  BY <1>1, <1>3, <1>4 DEF SerialInv, OneAtATime, SnapshotsCurrent, RowsKept

\* While one request runs, the others do not.
LEMMA OthersIdle ==
  ASSUME SerialInv, NEW r \in Requests, InFlight(r)
  PROVE  \A p \in Requests \ {r} : ~InFlight(p)
BY DEF SerialInv, OneAtATime

\* What a request about to write knows in a serial execution.
LEMMA SerialWriter ==
  ASSUME IInv, SerialInv, NEW r \in Requests,
         request[r].op \in PlainOps \cup CallbackOps, request[r].pc # "log"
  PROVE  /\ InFlight(r)
         /\ request[r].order \in Orders
         /\ order[request[r].order] \in OrderRow
         /\ request[r].snap = order[request[r].order]
         /\ StillCurrent(request[r])
         /\ RowInOrder(request[r].order, order[request[r].order],
                       newestLog[request[r].order].to, settled)
         /\ RowSound(request[r].order, order[request[r].order], settled)
<1>1. /\ InFlight(r) /\ request[r].order \in Orders
      /\ order[request[r].order] \in OrderRow
      /\ RowSound(request[r].order, order[request[r].order], settled)
  BY WriterFacts
<1>2. StillCurrent(request[r])
  BY <1>1 DEF SerialInv, SnapshotsCurrent
<1>. QED
  BY <1>1, <1>2 DEF StillCurrent, Passed, SerialInv, RowsInOrder

LEMMA StartsSerial ==
  ASSUME Serial, IInv, SerialInv, NEW r \in Requests, NEW o \in Orders,
         RequestStarts(r, o)
  PROVE  SerialInv' /\ RowsKept
<1>1. ASSUME NEW op \in PlainOps, Begin(r, o, op),
             op \in {"initiatePayment", "mockPayment"} =>
               order[o].state = "PENDING_PAYMENT",
             op = "cancelOrder" => CustomerMayCancel(order[o]),
             op \in DeliveryOps => /\ order[o].deliveryType = "DELIVERY"
                                   /\ order[o].state = DeliveryFrom(op),
             op \in MerchantTargets => MerchantMay(order[o], op)
      PROVE  SerialInv' /\ RowsKept
  <2> DEFINE q == [op |-> op, pc |-> "write", order |-> o, snap |-> order[o]]
  <2>1. StillCurrent(q)
    BY <1>1 DEF StillCurrent, Passed
  <2>2. request' = [request EXCEPT ![r] = q]
    BY <1>1 DEF Begin
  <2>3. \A p \in Requests : ~InFlight(p)
    BY <1>1 DEF Begin, MayStart
  <2> HIDE DEF q
  <2>. QED
    BY <1>1, <2>1, <2>2, <2>3, QuietSerial DEF Begin
<1>2. CASE InitiatePayment(r, o) \/ MockPayment(r, o) \/ CancelOrder(r, o)
  BY <1>1, <1>2 DEF InitiatePayment, MockPayment, CancelOrder, PlainOps,
     DeliveryOps, MerchantTargets
<1>3. ASSUME NEW op \in DeliveryOps, DeliveryRequest(r, o, op)
      PROVE  SerialInv' /\ RowsKept
  BY <1>1, <1>3 DEF DeliveryRequest, PlainOps, DeliveryOps, MerchantTargets
<1>4. ASSUME NEW target \in MerchantTargets, MerchantUpdate(r, o, target)
      PROVE  SerialInv' /\ RowsKept
  BY <1>1, <1>4 DEF MerchantUpdate, PlainOps, DeliveryOps, MerchantTargets
<1>5. ASSUME NEW op \in CallbackOps, NEW n, MayStart(r), BeginNotice(r, o, op, n),
             UNCHANGED <<order, attempts, receipts, newestLog, settled>>
      PROVE  SerialInv' /\ RowsKept
  <2> DEFINE q == [op |-> op, pc |-> "attempt", order |-> o, snap |-> order[o],
                   notice |-> n, attempt |-> 0]
  <2>1. StillCurrent(q)
    BY DEF StillCurrent, Passed, CallbackOps, DeliveryOps, MerchantTargets
  <2>2. request' = [request EXCEPT ![r] = q]
    BY <1>5 DEF BeginNotice
  <2>3. \A p \in Requests : ~InFlight(p)
    BY <1>5 DEF MayStart
  <2> HIDE DEF q
  <2>. QED
    BY <1>5, <2>1, <2>2, <2>3, QuietSerial
<1>6. CASE ReconcileTelebirrOrder(r, o)
  <2> DEFINE q == [op |-> "query", order |-> o, snap |-> order[o]]
  <2>1. StillCurrent(q)
    BY DEF StillCurrent, Passed, DeliveryOps, MerchantTargets
  <2>2. request' = [request EXCEPT ![r] = q]
    BY <1>6 DEF ReconcileTelebirrOrder
  <2>3. \A p \in Requests : ~InFlight(p)
    BY <1>6 DEF ReconcileTelebirrOrder, MayStart
  <2> HIDE DEF q
  <2>. QED
    BY <1>6, <2>1, <2>2, <2>3, QuietSerial DEF ReconcileTelebirrOrder
<1>7. ASSUME NEW n \in CallbackNotices, ConfirmPaymentCallback(r, o, n)
      PROVE  SerialInv' /\ RowsKept
  BY <1>5, <1>7 DEF ConfirmPaymentCallback, CallbackOps
<1>8. ASSUME NEW report \in ProviderReports, TelebirrNotify(r, o, report)
      PROVE  SerialInv' /\ RowsKept
  BY <1>5, <1>8 DEF TelebirrNotify, CallbackOps
<1>. QED
  BY <1>2, <1>3, <1>4, <1>6, <1>7, <1>8 DEF RequestStarts

LEMMA FinishSerial ==
  ASSUME IInv, SerialInv, NEW r \in Requests, InFlight(r), Finish(r),
         UNCHANGED <<order, attempts, receipts, newestLog, settled>>
  PROVE  SerialInv' /\ RowsKept
BY OthersIdle, QuietSerial DEF Finish

\* The lookups of a notice handler do not write, and keep its snapshot.
LEMMA LookupsSerial ==
  ASSUME IInv, SerialInv, NEW r \in Requests,
         \/ CallbackFindAttempt(r) \/ CallbackFindReceipt(r)
         \/ TelebirrFindAttempt(r) \/ TelebirrFindReceipt(r)
  PROVE  SerialInv' /\ RowsKept
<1>1. request[r].op \in CallbackOps
  BY DEF CallbackFindAttempt, CallbackFindReceipt, TelebirrFindAttempt,
     TelebirrFindReceipt, At, CallbackOps
<1>2. InFlight(r) /\ request[r] \in NoticeRequest
  BY <1>1, WriterFacts, InFlightType DEF IInv, PlainRequest, QueryRequest,
     CallbackOps, PlainOps, MerchantTargets
<1>3. UNCHANGED <<order, attempts, receipts, newestLog, settled>>
  BY DEF CallbackFindAttempt, CallbackFindReceipt, TelebirrFindAttempt,
     TelebirrFindReceipt, FoundAttempt, FoundReceipt
<1>4. StillCurrent(request[r])
  BY <1>2 DEF SerialInv, SnapshotsCurrent
<1>5. ASSUME NEW i, NEW pc, NEW q,
             q = [request[r] EXCEPT !.attempt = i, !.pc = pc],
             request' = [request EXCEPT ![r] = q]
      PROVE  SerialInv' /\ RowsKept
  <2>1. q.op = request[r].op /\ q.order = request[r].order /\ q.snap = request[r].snap
    BY <1>2, <1>5 DEF NoticeRequest
  <2>2. StillCurrent(q)
    BY <1>1, <1>4, <2>1 DEF StillCurrent, Passed, CallbackOps, DeliveryOps, MerchantTargets
  <2>. QED
    BY <1>2, <1>3, <1>5, <2>2, OthersIdle, QuietSerial
<1>6. ASSUME NEW pc, NEW q, q = [request[r] EXCEPT !.pc = pc],
             request' = [request EXCEPT ![r] = q]
      PROVE  SerialInv' /\ RowsKept
  <2>1. q.op = request[r].op /\ q.order = request[r].order /\ q.snap = request[r].snap
    BY <1>2, <1>6 DEF NoticeRequest
  <2>2. StillCurrent(q)
    BY <1>1, <1>4, <2>1 DEF StillCurrent, Passed, CallbackOps, DeliveryOps, MerchantTargets
  <2>. QED
    BY <1>2, <1>3, <1>6, <2>2, OthersIdle, QuietSerial
<1>7. ASSUME NEW i, NEW next, FoundAttempt(r, i, next)
      PROVE  SerialInv' /\ RowsKept
  <2>1. \/ Finish(r)
        \/ request' = [request EXCEPT ![r].attempt = i, ![r].pc = next]
    BY <1>7 DEF FoundAttempt
  <2>2. ASSUME request' = [request EXCEPT ![r].attempt = i, ![r].pc = next]
        PROVE  request' = [request EXCEPT ![r] =
                 [request[r] EXCEPT !.attempt = i, !.pc = next]]
    BY <2>2
  <2>. QED
    BY <1>2, <1>3, <1>5, <2>1, <2>2, FinishSerial
<1>8. ASSUME NEW known, FoundReceipt(r, known)
      PROVE  SerialInv' /\ RowsKept
  BY <1>2, <1>3, <1>6, <1>8, FinishSerial DEF FoundReceipt
<1>. QED
  BY <1>7, <1>8 DEF CallbackFindAttempt, CallbackFindReceipt,
     TelebirrFindAttempt, TelebirrFindReceipt

LEMMA QueryAnsweredSerial ==
  ASSUME IInv, SerialInv, NEW r \in Requests, NEW report, NEW named,
         QueryAnswered(r, report, named)
  PROVE  SerialInv' /\ RowsKept
<1>1. InFlight(r)
  BY DEF QueryAnswered, InFlight, Idle, Done
<1>2. PICK n : /\ BeginNotice(r, request[r].order, "telebirrQuery", n)
               /\ UNCHANGED <<order, attempts, receipts, newestLog, settled>>
  BY DEF QueryAnswered
<1> DEFINE o == request[r].order
           q == [op |-> "telebirrQuery", pc |-> "attempt", order |-> o,
                 snap |-> order[o], notice |-> n, attempt |-> 0]
<1>3. StillCurrent(q)
  BY DEF StillCurrent, Passed, DeliveryOps, MerchantTargets
<1>4. request' = [request EXCEPT ![r] = q]
  BY <1>2 DEF BeginNotice
<1> HIDE DEF q
<1>. QED
  BY <1>1, <1>2, <1>3, <1>4, OthersIdle, QuietSerial

\* initiatePayment writes over paymentState only in PENDING_PAYMENT, where no
\* payment has succeeded.
LEMMA InitiatePaymentTxSerial ==
  ASSUME IInv, SerialInv, NEW r \in Requests, NEW c \in PaymentChannel,
         InitiatePaymentTx(r, c)
  PROVE  SerialInv' /\ RowsKept
<1> DEFINE o == request[r].order
           row == [order[o] EXCEPT !.paymentState = "INITIATED"]
<1>1. /\ request[r].op = "initiatePayment" /\ request[r].pc = "write"
      /\ UpdateOrder(o, row) /\ Log(o, request[r].snap.state, request[r].snap.state)
      /\ Finish(r) /\ settled' = settled
  BY DEF InitiatePaymentTx, At
<1>2. request[r].op \in PlainOps
  BY <1>1 DEF PlainOps
<1>3. /\ InFlight(r) /\ o \in Orders /\ order[o] \in OrderRow
      /\ request[r].snap = order[o] /\ StillCurrent(request[r])
      /\ RowInOrder(o, order[o], newestLog[o].to, settled)
  BY <1>1, <1>2, SerialWriter
<1>4. order[o].state = "PENDING_PAYMENT" /\ order[o].paymentState # "SUCCESS"
  BY <1>1, <1>3 DEF StillCurrent, Passed, RowInOrder
<1>5. RowInOrder(o, row, request[r].snap.state, settled')
  BY <1>1, <1>3, <1>4 DEF RowInOrder, OrderRow, BeingDelivered
<1>6. RowKept(order[o], row)
  BY <1>3, <1>4 DEF RowKept, OrderRow
<1>. QED
  BY <1>1, <1>3, <1>5, <1>6, WriteSerial

LEMMA MockPaymentTxSerial ==
  ASSUME IInv, SerialInv, NEW r \in Requests, MockPaymentTx(r)
  PROVE  SerialInv' /\ RowsKept
<1> DEFINE o == request[r].order
<1>1. /\ request[r].op = "mockPayment" /\ request[r].pc = "write"
      /\ Finish(r) /\ settled' = settled \cup {o}
  BY DEF MockPaymentTx, At
<1>2. PICK target \in SettledStates(request[r].snap.deliveryType) :
        /\ UpdateOrder(o, [order[o] EXCEPT
             !.state = target, !.status = merchantStatusFromOrderState(target),
             !.paymentState = "SUCCESS", !.txn = MockTxn, !.paidAt = TRUE])
        /\ Log(o, request[r].snap.state, target)
  BY DEF MockPaymentTx
<1> DEFINE row == [order[o] EXCEPT
             !.state = target, !.status = merchantStatusFromOrderState(target),
             !.paymentState = "SUCCESS", !.txn = MockTxn, !.paidAt = TRUE]
<1>3. request[r].op \in PlainOps
  BY <1>1 DEF PlainOps
<1>4. /\ InFlight(r) /\ o \in Orders /\ order[o] \in OrderRow
      /\ request[r].snap = order[o] /\ StillCurrent(request[r])
  BY <1>1, <1>3, SerialWriter
<1>5. order[o].state = "PENDING_PAYMENT"
  BY <1>1, <1>4 DEF StillCurrent, Passed
<1>6. RowInOrder(o, row, target, settled')
  BY <1>1, <1>2, <1>4, SettledStatesType DEF RowInOrder, OrderRow, KitchenStates
<1>7. RowKept(order[o], row)
  BY <1>4, <1>5 DEF RowKept, OrderRow
<1>. QED
  BY <1>1, <1>2, <1>4, <1>6, <1>7, WriteSerial

\* A notice settles or fails an order in PENDING_PAYMENT; later it can only
\* put paymentState back to PENDING.
LEMMA SettleOrderSerial ==
  ASSUME IInv, SerialInv, NEW r \in Requests,
         request[r].op \in CallbackOps, request[r].pc = "write",
         SettleOrder(request[r].order, request[r].snap, request[r].notice),
         Finish(r)
  PROVE  SerialInv' /\ RowsKept
<1> DEFINE o == request[r].order
           snap == request[r].snap
           n == request[r].notice
<1>1. /\ InFlight(r) /\ o \in Orders /\ order[o] \in OrderRow /\ snap = order[o]
      /\ RowInOrder(o, order[o], newestLog[o].to, settled)
      /\ order[o].paymentState = "SUCCESS" => order[o].paidAt
  BY SerialWriter DEF RowSound
<1>2. n \in Notice
  BY NoticeFacts
<1>3. PICK target \in TargetStates(snap, n.status) :
        /\ UpdateOrder(o, [order[o] EXCEPT
             !.state = target, !.status = merchantStatusFromOrderState(target),
             !.paymentState = TargetPaymentState(snap, n.status),
             !.txn = n.txn, !.paidAt = PaidAt(snap, n)])
        /\ Log(o, snap.state, target)
  BY DEF SettleOrder
<1> DEFINE row == [order[o] EXCEPT
             !.state = target, !.status = merchantStatusFromOrderState(target),
             !.paymentState = TargetPaymentState(snap, n.status),
             !.txn = n.txn, !.paidAt = PaidAt(snap, n)]
<1>4. settled' = IF n.status = "SUCCESS" /\ snap.state = "PENDING_PAYMENT"
                 THEN settled \cup {o} ELSE settled
  BY DEF SettleOrder
<1>5. /\ row.state = target /\ row.status = merchantStatusFromOrderState(target)
      /\ row.paymentState = TargetPaymentState(snap, n.status)
      /\ row.paidAt = PaidAt(snap, n)
  BY <1>1 DEF OrderRow
<1>6. n.status \in {"SUCCESS", "FAILED", "PENDING"}
  BY <1>2 DEF Notice, CallbackStatus
<1>7. CASE snap.state = "PENDING_PAYMENT"
  <2>1. /\ n.status = "SUCCESS" => target \in KitchenStates
        /\ n.status = "FAILED" => target = "PAYMENT_FAILED"
        /\ n.status = "PENDING" => target = "PENDING_PAYMENT"
    BY <1>3, <1>7, SettledStatesType DEF TargetStates
  <2>2. o \notin settled /\ order[o].paymentState # "SUCCESS"
    BY <1>1, <1>7 DEF RowInOrder
  <2>3. row.paymentState = n.status
    BY <1>5, <1>7 DEF TargetPaymentState
  <2>4. RowInOrder(o, row, target, settled')
    BY <1>4, <1>5, <1>6, <1>7, <2>1, <2>2, <2>3 DEF RowInOrder, KitchenStates
  <2>5. RowKept(order[o], row)
    BY <1>1, <1>7, <2>2 DEF RowKept
  <2>. QED
    BY <1>1, <1>3, <1>4, <2>4, <2>5, WriteSerial
<1>8. CASE snap.state # "PENDING_PAYMENT"
  <2>1. target = order[o].state /\ settled' = settled
    BY <1>1, <1>3, <1>4, <1>8 DEF TargetStates
  <2>2. row.paymentState \in {"PENDING", order[o].paymentState}
    BY <1>1, <1>5, <1>8 DEF TargetPaymentState
  <2>3. order[o].paidAt => row.paidAt
    BY <1>1, <1>5 DEF PaidAt
  <2>4. RowInOrder(o, row, target, settled')
    BY <1>1, <1>5, <2>1, <2>2 DEF RowInOrder
  <2>5. RowKept(order[o], row)
    BY <1>1, <1>5, <2>1, <2>2, <2>3 DEF RowKept
  <2>. QED
    BY <1>1, <1>3, <2>1, <2>4, <2>5, WriteSerial
<1>. QED
  BY <1>7, <1>8

LEMMA CancelOrderTxSerial ==
  ASSUME IInv, SerialInv, NEW r \in Requests, CancelOrderTx(r)
  PROVE  SerialInv' /\ RowsKept
<1> DEFINE o == request[r].order
           row == CancelledRow(order[o])
<1>1. /\ request[r].op = "cancelOrder" /\ request[r].pc = "write"
      /\ UpdateOrder(o, row) /\ Log(o, request[r].snap.state, "CANCELLED")
      /\ Finish(r) /\ settled' = settled
  BY DEF CancelOrderTx, At
<1>2. request[r].op \in PlainOps
  BY <1>1 DEF PlainOps
<1>3. /\ InFlight(r) /\ o \in Orders /\ order[o] \in OrderRow
      /\ request[r].snap = order[o] /\ StillCurrent(request[r])
      /\ RowInOrder(o, order[o], newestLog[o].to, settled)
  BY <1>1, <1>2, SerialWriter
<1>4. /\ order[o].state \in {"PENDING_PAYMENT", "PAYMENT_FAILED"}
      /\ order[o].paymentState # "SUCCESS"
  BY <1>1, <1>3 DEF StillCurrent, Passed, CustomerMayCancel, RowInOrder
<1>5. /\ row.state = "CANCELLED" /\ row.status = "CANCELLED"
      /\ row.paymentState = order[o].paymentState
  BY <1>3 DEF CancelledRow, OrderRow
<1>6. RowInOrder(o, row, "CANCELLED", settled')
  BY <1>4, <1>5 DEF RowInOrder, merchantStatusFromOrderState
<1>7. RowKept(order[o], row)
  BY <1>4 DEF RowKept
<1> HIDE DEF row
<1>. QED
  BY <1>1, <1>3, <1>6, <1>7, WriteSerial

\* The kitchen moves no final order: COMPLETED and CANCELLED show on the board,
\* which is what updateMerchantOrderStatus looks at.
LEMMA MerchantUpdateTxSerial ==
  ASSUME IInv, SerialInv, NEW r \in Requests, NEW target \in MerchantTargets,
         MerchantUpdateTx(r, target)
  PROVE  SerialInv' /\ RowsKept
<1> DEFINE o == request[r].order
           snap == request[r].snap
           row == [order[o] EXCEPT
             !.state = target, !.status = target,
             !.acceptedAt = (target = "PREPARING" \/ snap.acceptedAt),
             !.completedAt = (target = "COMPLETED" \/ snap.completedAt),
             !.cancelledAt = (target = "CANCELLED" \/ snap.cancelledAt)]
<1>1. /\ request[r].op = target /\ request[r].pc = "write"
      /\ UpdateOrder(o, row) /\ Log(o, snap.state, target)
      /\ Finish(r) /\ settled' = settled
  BY DEF MerchantUpdateTx, At
<1>2. request[r].op \in PlainOps
  BY <1>1 DEF PlainOps
<1>3. /\ InFlight(r) /\ o \in Orders /\ order[o] \in OrderRow
      /\ snap = order[o] /\ StillCurrent(request[r])
      /\ RowInOrder(o, order[o], newestLog[o].to, settled)
      /\ RowSound(o, order[o], settled)
  BY <1>1, <1>2, SerialWriter
<1>4. MerchantMay(order[o], target)
  BY <1>1, <1>3 DEF StillCurrent, Passed
<1>5. order[o].state \notin {"COMPLETED", "CANCELLED"}
  BY <1>3, <1>4 DEF MerchantMay, RowInOrder, BeingDelivered,
     merchantStatusFromOrderState
<1>6. /\ row.state = target /\ row.status = target
      /\ row.paymentState = order[o].paymentState
      /\ row.paidAt = order[o].paidAt
  BY <1>3 DEF OrderRow
<1>7. RowInOrder(o, row, target, settled')
  BY <1>1, <1>3, <1>6 DEF RowInOrder, MerchantTargets, merchantStatusFromOrderState
<1>8. RowKept(order[o], row)
  BY <1>3, <1>5, <1>6 DEF RowKept, RowSound
<1> HIDE DEF row
<1>. QED
  BY <1>1, <1>3, <1>7, <1>8, WriteSerial

\* The update of acceptDeliveryOrder and markDeliveryOrderReady: the request
\* goes on to its log row.
LEMMA DeliveryUpdateSerial ==
  ASSUME IInv, SerialInv, NEW r \in Requests, NEW op \in DeliveryOps,
         DeliveryUpdate(r, op)
  PROVE  SerialInv' /\ RowsKept
<1> DEFINE o == request[r].order
           row == [order[o] EXCEPT !.state = DeliveryTo(op)]
<1>1. /\ request[r].op = op /\ request[r].pc = "write"
      /\ UpdateOrder(o, row)
      /\ UNCHANGED <<attempts, receipts, newestLog, settled>>
  BY DEF DeliveryUpdate, At
<1>2. request[r].op \in PlainOps
  BY <1>1 DEF PlainOps, DeliveryOps
<1>3. /\ InFlight(r) /\ o \in Orders /\ order[o] \in OrderRow
      /\ request[r].snap = order[o] /\ StillCurrent(request[r])
      /\ RowInOrder(o, order[o], newestLog[o].to, settled)
      /\ RowSound(o, order[o], settled)
  BY <1>1, <1>2, SerialWriter
<1>4. /\ order[o].deliveryType = "DELIVERY" /\ order[o].state = DeliveryFrom(op)
      /\ DeliveryTo(op) \in {"PREPARING", "READY"}
      /\ order[o].state \in {"PAID", "PREPARING"}
  BY <1>1, <1>3 DEF StillCurrent, Passed, DeliveryOps, DeliveryTo, DeliveryFrom
<1>5. row = [order[o] EXCEPT !.state = DeliveryTo(op)]
  OBVIOUS
<1>6. /\ row.state = DeliveryTo(op) /\ row.status = order[o].status
      /\ row.deliveryType = "DELIVERY"
      /\ row.paymentState = order[o].paymentState /\ row.paidAt = order[o].paidAt
  BY <1>3, <1>4 DEF OrderRow
<1>7. op = "markDeliveryOrderReady" => DeliveryTo(op) = "READY"
  BY DEF DeliveryTo
<1>8. row.status \in {"PENDING", merchantStatusFromOrderState(row.state)}
  BY <1>3, <1>4, <1>6 DEF RowInOrder, DeliveryFrom, DeliveryTo, DeliveryOps,
     merchantStatusFromOrderState
<1>9. \A to : RowInOrder(o, row, to, settled)
  BY <1>3, <1>4, <1>6, <1>8 DEF RowInOrder, BeingDelivered
<1>10. RowKept(order[o], row)
  BY <1>3, <1>4, <1>6 DEF RowKept, RowSound
<1>11. request[r] \in PlainRequest
  BY <1>1, <1>3, InFlightType DEF IInv, QueryRequest, NoticeRequest,
     DeliveryOps, CallbackOps
<1>. PICK q : q = [request[r] EXCEPT !.pc = "log"]
  OBVIOUS
<1>12. /\ q.order = o /\ q.snap = order[o] /\ q.op = op /\ q.pc = "log"
       /\ request' = [request EXCEPT ![r] = q]
  BY <1>1, <1>3, <1>11 DEF PlainRequest, DeliveryUpdate
<1> HIDE DEF row
<1>13. /\ order'[o] = row
       /\ \A p \in Orders \ {o} : order'[p] = order[p]
  BY <1>1, <1>3 DEF UpdateOrder, IInv, TypeOK
<1>14. /\ order'[q.order] = [q.snap EXCEPT !.state = DeliveryTo(q.op)]
       /\ q.op \in DeliveryOps
       /\ q.snap.deliveryType = "DELIVERY" /\ q.snap.state = DeliveryFrom(q.op)
  BY <1>4, <1>5, <1>12, <1>13
<1>15. StillCurrent(q)'
  BY <1>12, <1>14 DEF StillCurrent, Passed, DeliveryOps, MerchantTargets
<1>16. \A p \in Requests : InFlight(p)' => p = r /\ request'[p] = q
  BY <1>3, <1>12, OthersIdle DEF IInv, TypeOK, InFlight
<1>17. OneAtATime'
  BY <1>16 DEF OneAtATime
<1>18. SnapshotsCurrent'
  <2>1. ASSUME NEW p \in Requests, InFlight(p)' PROVE StillCurrent(request[p])'
    BY <1>15, <1>16, <2>1 DEF StillCurrent, Passed
  <2>. QED
    BY <2>1 DEF SnapshotsCurrent
<1>19. ASSUME NEW p \in Orders
       PROVE  /\ RowInOrder(p, order'[p], newestLog[p].to, settled)
              /\ RowKept(order[p], order'[p])
  BY <1>9, <1>10, <1>13 DEF SerialInv, RowsInOrder, RowKept, IInv, RowsSound,
     SuccessIsPaid
<1>20. RowsInOrder'
  BY <1>1, <1>19 DEF RowsInOrder, RowInOrder, BeingDelivered,
     merchantStatusFromOrderState
<1>. QED
  BY <1>17, <1>18, <1>19, <1>20 DEF SerialInv, RowsKept

\* The log row of a delivery step names the state the update left.
LEMMA DeliveryLogSerial ==
  ASSUME IInv, SerialInv, NEW r \in Requests, NEW op \in DeliveryOps,
         DeliveryLog(r, op)
  PROVE  SerialInv' /\ RowsKept
<1> DEFINE o == request[r].order
<1>1. /\ request[r].op = op /\ request[r].pc = "log"
      /\ Log(o, request[r].snap.state, DeliveryTo(op))
      /\ Finish(r) /\ UNCHANGED <<order, settled>>
  BY DEF DeliveryLog, At
<1>2. request[r].op \in PlainOps
  BY <1>1 DEF PlainOps, DeliveryOps
<1>3. /\ InFlight(r) /\ o \in Orders /\ request[r].snap \in OrderRow
      /\ order[o] \in OrderRow
      /\ order[o].paymentState = "SUCCESS" => order[o].paidAt
  BY <1>2, WriterFacts DEF RowSound
<1>4. StillCurrent(request[r]) /\ RowInOrder(o, order[o], newestLog[o].to, settled)
  BY <1>3 DEF SerialInv, SnapshotsCurrent, RowsInOrder
<1>5. order[o].state = DeliveryTo(op)
  BY <1>1, <1>3, <1>4 DEF StillCurrent, Passed, OrderRow
<1>6. RowInOrder(o, order[o], DeliveryTo(op), settled')
  BY <1>1, <1>4, <1>5 DEF RowInOrder
<1>7. RowKept(order[o], order[o])
  BY <1>3 DEF RowKept
<1>8. UpdateOrder(o, order[o])
  BY <1>1 DEF UpdateOrder, IInv, TypeOK
<1>. QED
  BY <1>1, <1>3, <1>6, <1>7, <1>8, WriteSerial

LEMMA ContinuesSerial ==
  ASSUME IInv, SerialInv, NEW r \in Requests, RequestContinues(r)
  PROVE  SerialInv' /\ RowsKept
<1>1. ASSUME CallbackTx(r) \/ TelebirrTx(r)
      PROVE  SerialInv' /\ RowsKept
  BY <1>1, SettleOrderSerial DEF CallbackTx, TelebirrTx, At, CallbackOps
<1>2. ASSUME CallbackRollback(r) \/ TelebirrRollback(r)
      PROVE  SerialInv' /\ RowsKept
  <2>1. request[r].op \in CallbackOps
    BY <1>2 DEF CallbackRollback, TelebirrRollback, At, CallbackOps
  <2>. QED
    BY <1>2, <2>1, WriterFacts, FinishSerial DEF CallbackRollback, TelebirrRollback
<1>. QED
  BY <1>1, <1>2, InitiatePaymentTxSerial, MockPaymentTxSerial, LookupsSerial,
     QueryAnsweredSerial, CancelOrderTxSerial, DeliveryUpdateSerial,
     DeliveryLogSerial, MerchantUpdateTxSerial DEF RequestContinues

LEMMA NextSerial ==
  ASSUME Serial
  PROVE  IInv /\ SerialInv /\ [Next]_vars => SerialInv' /\ RowsKept
<1> SUFFICES ASSUME IInv, SerialInv, [Next]_vars PROVE SerialInv' /\ RowsKept
  OBVIOUS
<1>1. CASE Next
  BY <1>1, StartsSerial, ContinuesSerial, FinishSerial DEF Next, Abort
<1>2. CASE UNCHANGED vars
  <2>1. SerialInv'
    BY <1>2 DEF vars, SerialInv, OneAtATime, SnapshotsCurrent, StillCurrent,
       InFlight, RowsInOrder
  <2>2. RowsKept
    BY <1>2 DEF vars, RowsKept, RowKept, IInv, RowsSound, SuccessIsPaid
  <2>. QED
    BY <2>1, <2>2
<1>. QED
  BY <1>1, <1>2

THEOREM SerialInvariance == ASSUME Serial PROVE Spec => []SerialInv
BY InitSerial, NextSerial, Invariance, PTL DEF Spec

\* In a serial execution a settled order never shows as unpaid or failed again:
\* late failures, late PENDING reports and second callbacks of the provider
\* leave the settlement in place.
THEOREM SettlementsStay == ASSUME Serial PROVE Spec => []SettlementKept
<1>1. IInv /\ SerialInv => SettlementKept
  BY DEF IInv, TypeOK, SerialInv, RowsInOrder, RowInOrder, SettlementKept
<1>. QED
  BY <1>1, Invariance, SerialInvariance, PTL

\* In a serial execution the state, the board's status and the newest log row
\* come apart only behind the two delivery steps, also when a request dies
\* between its update and its log.
THEOREM RecordsAgree == ASSUME Serial PROVE Spec => []RecordsLagOnlyInDelivery
<1>1. SerialInv => RecordsLagOnlyInDelivery
  BY DEF SerialInv, RowsInOrder, RowInOrder, RecordsLagOnlyInDelivery
<1>. QED
  BY <1>1, SerialInvariance, PTL

\* In a serial execution no handler takes a payment back: paidAt stays, and
\* paymentState falls at most to the PENDING of a late report.
THEOREM PaymentsStay == ASSUME Serial PROVE Spec => PaymentNeverRevoked
<1>1. IInv /\ SerialInv /\ [Next]_vars =>
        [\A o \in Orders : order[o].paymentState = "SUCCESS" =>
           /\ order'[o].paidAt
           /\ order'[o].paymentState \in {"SUCCESS", "PENDING"}]_vars
  BY NextSerial DEF RowsKept, RowKept
<1>. QED
  BY <1>1, Invariance, SerialInvariance, PTL DEF Spec, PaymentNeverRevoked

\* In a serial execution COMPLETED and CANCELLED are final for every handler.
THEOREM FinalStatesStay == ASSUME Serial PROVE Spec => FinalStatesAreFinal
<1>1. IInv /\ SerialInv /\ [Next]_vars =>
        [\A o \in Orders : order[o].state \in {"COMPLETED", "CANCELLED"} =>
           order'[o].state = order[o].state]_vars
  BY NextSerial DEF RowsKept, RowKept
<1>. QED
  BY <1>1, Invariance, SerialInvariance, PTL DEF Spec, FinalStatesAreFinal

=============================================================================
