----------------------- MODULE PaymentDeliveryProofs -----------------------
(***************************************************************************)
(* Theorems about PaymentDelivery for every number of orders, slots,       *)
(* attempts and faults.  What OrderLifecycleProofs shows of one handler at *)
(* a time is used again here: its lemmas do not mind who calls the         *)
(* handlers, or that a slot takes another request.                         *)
(***************************************************************************)
EXTENDS PaymentDelivery, OrderLifecycleProofs

-----------------------------------------------------------------------------
(* What an acknowledgement rests on. *)

Recorded(o) ==
  /\ order[o].state # "PENDING_PAYMENT"
  /\ gateway[o] = "Completed" => order[o].paidAt

\* The gateway has decided and the order knows, unless it was overtaken.
Closed(o) == gateway[o] \in Final /\ (o \in overtaken \/ Recorded(o))

\* A notice says what the gateway decided.
TrueNotice(o, n) ==
  /\ n.nonce = o
  /\ n.status = "SUCCESS" <=> n.body = "Completed"
  /\ n.status = "FAILED" <=> n.body = "Expired"
  /\ n.body \in Final => gateway[o] = n.body

\* A request carries a true notice, or asks about a payment that was made.
RequestTrue(q) ==
  /\ q.op \in {"idle", "done", "initiatePayment", "cancelOrder", "query",
               "telebirrNotify", "telebirrQuery"}
  /\ q.op \in CallbackOps => TrueNotice(q.order, q.notice)
  /\ q.op = "query" => gateway[q.order] # "none"

NoticesTrue == \A r \in Requests : RequestTrue(request[r])

\* Receipts and successful attempts are of orders that know their outcome.
ReceiptsClosed ==
  \A c \in receipts : c.nonce \in Orders /\ (c.body \in Final => Closed(c.nonce))
AttemptsClosed ==
  \A o \in Orders : \A i \in DOMAIN attempts[o] :
    attempts[o][i].state = "SUCCESS" => Closed(o)
AckedClosed == \A o \in acked : Closed(o)

GatewayOK ==
  /\ gateway \in [Orders -> Trade]
  /\ interim \subseteq Orders /\ acked \subseteq Orders /\ overtaken \subseteq Orders
  /\ faults \in 0..MaxFaults

DInv ==
  IInv /\ GatewayOK /\ NoticesTrue /\ ReceiptsClosed /\ AttemptsClosed /\ AckedClosed

LEMMA DeliveryInitInv == DeliveryInit => DInv
<1> SUFFICES ASSUME DeliveryInit PROVE DInv
  OBVIOUS
<1>1. Init
  BY DEF DeliveryInit
<1>2. IInv
  BY <1>1, InitInv
<1>3. GatewayOK
  BY DeliveryAssumption DEF DeliveryInit, GatewayOK, Trade
<1>4. NoticesTrue
  BY <1>1 DEF Init, NoticesTrue, RequestTrue, Idle, CallbackOps
<1>5. ReceiptsClosed /\ AttemptsClosed /\ AckedClosed
  BY <1>1 DEF DeliveryInit, Init, ReceiptsClosed, AttemptsClosed, AckedClosed
<1>. QED
  BY <1>2, <1>3, <1>4, <1>5 DEF DInv

-----------------------------------------------------------------------------
(* Steps that write no row. *)

\* The notice a payload reports.
LEMMA ReportTrue ==
  ASSUME DInv, NEW o \in Orders, NEW trade \in Trade \ {"none"}, NEW word \in {trade, QueryWord(trade)},
         trade \in Final => gateway[o] = trade
  PROVE  LET report == ReportOf(o, trade, word)
             n == [txn |-> report.txn, status |-> report.status, body |-> report.body, nonce |-> o]
         IN n \in Notice /\ TrueNotice(o, n)
<1> DEFINE status == mapTradeStatusToPaymentStatus(word)
           n == [txn |-> TxnOf[o], status |-> status, body |-> trade, nonce |-> o]
<1>1. /\ status \in CallbackStatus
      /\ status = "SUCCESS" <=> trade = "Completed"
      /\ status = "FAILED" <=> trade = "Expired"
  BY DEF mapTradeStatusToPaymentStatus, QueryWord, Trade, Final, CallbackStatus
<1>2. TxnOf[o] \in TxnIds /\ trade \in Bodies
  BY DeliveryAssumption DEF TxnIds
<1> HIDE DEF status
<1>3. n \in Notice /\ TrueNotice(o, n)
  BY <1>1, <1>2 DEF Notice, TrueNotice
<1>. QED
  BY <1>3 DEF ReportOf, status

\* A step of one request that changes no row and no outcome.
LEMMA RequestMoves ==
  ASSUME DInv, IInv', NEW r \in Requests, NEW q, request' = [request EXCEPT ![r] = q],
         UNCHANGED <<order, attempts, receipts, gateway, overtaken>>,
         GatewayOK', \A o \in acked' : Closed(o), RequestTrue(q)
  PROVE  DInv'
<1> USE DEF DInv
<1>1. \A o : Closed(o)' <=> Closed(o)
  BY DEF Closed, Recorded
<1>2. \A o, n : TrueNotice(o, n)' <=> TrueNotice(o, n)
  BY DEF TrueNotice
<1>3. request' \in [Requests -> RequestState] /\ request \in [Requests -> RequestState]
  BY DEF IInv, TypeOK
<1>4. \A p \in Requests : request'[p] = IF p = r THEN q ELSE request[p]
  BY <1>3
<1>5. NoticesTrue'
  BY <1>2, <1>4 DEF NoticesTrue, RequestTrue
<1>6. ReceiptsClosed' /\ AttemptsClosed'
  BY <1>1 DEF ReceiptsClosed, AttemptsClosed
<1>7. AckedClosed'
  BY <1>1 DEF AckedClosed
<1>. QED
  BY <1>5, <1>6, <1>7

LEMMA GatewayInv ==
  ASSUME DInv, NEW o \in Orders, CustomerPays(o) \/ GatewayDecides(o) PROVE DInv'
<1> USE DEF DInv
<1>1. UNCHANGED vars /\ UNCHANGED <<interim, acked, overtaken, faults>>
  BY DEF CustomerPays, GatewayDecides
<1>2. UNCHANGED <<order, attempts, receipts, newestLog, settled, request>>
  BY <1>1 DEF vars
<1>3. IInv'
  BY <1>1, NextInv
<1>4. gateway[o] \notin Final /\ \A p \in Orders : p # o => gateway'[p] = gateway[p]
  BY DEF CustomerPays, GatewayDecides, GatewayOK, Final
<1>5. GatewayOK'
  BY <1>1 DEF CustomerPays, GatewayDecides, GatewayOK, Trade, Final
<1>6. \A p \in Orders : Closed(p) => Closed(p)'
  BY <1>1, <1>2, <1>4 DEF Closed, Recorded
<1>7. \A p \in Orders : \A n : TrueNotice(p, n) => TrueNotice(p, n)'
  BY <1>4 DEF TrueNotice
<1>8. \A r \in Requests : request[r].op \in CallbackOps \cup {"query"} => request[r].order \in Orders
  BY InFlightType DEF IInv, InFlight, Idle, Done, CallbackOps
<1>9. \A p \in Orders : gateway[p] # "none" => gateway'[p] # "none"
  BY <1>4 DEF CustomerPays, GatewayDecides, GatewayOK, Final
<1>11. NoticesTrue'
  BY <1>2, <1>7, <1>8, <1>9 DEF NoticesTrue, RequestTrue
<1>10. ReceiptsClosed' /\ AttemptsClosed' /\ AckedClosed'
  BY <1>1, <1>2, <1>6 DEF ReceiptsClosed, AttemptsClosed, AckedClosed, GatewayOK
<1>. QED
  BY <1>3, <1>5, <1>10, <1>11

LEMMA NotifyInv ==
  ASSUME DInv, NEW r \in Requests, NEW o \in Orders, NotifyInterim(r, o) \/ NotifyFinal(r, o)
  PROVE  DInv'
<1> USE DEF DInv
<1>1. PICK trade \in Trade \ {"none"} :
        /\ trade \in Final => gateway[o] = trade
        /\ TelebirrNotify(r, o, ReportOf(o, trade, trade))
  BY DEF NotifyInterim, NotifyFinal, Trade, Final
<1>2. UNCHANGED <<gateway, acked, overtaken, faults>> /\ interim' \subseteq Orders
  BY DEF NotifyInterim, NotifyFinal, gatewayVars, GatewayOK
<1> DEFINE report == ReportOf(o, trade, trade)
           n == [txn |-> report.txn, status |-> report.status, body |-> report.body, nonce |-> o]
           q == [op |-> "telebirrNotify", pc |-> "attempt", order |-> o, snap |-> order[o],
                 notice |-> n, attempt |-> 0]
<1>3. n \in Notice /\ TrueNotice(o, n)
  BY <1>1, ReportTrue
<1> HIDE DEF report
<1>4. /\ BeginNotice(r, o, "telebirrNotify", n)
      /\ UNCHANGED <<order, attempts, receipts, newestLog, settled>>
  BY <1>1 DEF TelebirrNotify, report
<1> HIDE DEF n
<1>5. IInv'
  BY <1>3, <1>4, BeginNoticeInv DEF CallbackOps
<1>6. request' = [request EXCEPT ![r] = q]
  BY <1>4 DEF BeginNotice
<1>7. GatewayOK'
  BY <1>2 DEF GatewayOK
<1>8. \A p \in acked' : Closed(p)
  BY <1>2 DEF AckedClosed
<1>9. q.op = "telebirrNotify" /\ q.order = o /\ q.notice = n
  OBVIOUS
<1>10. RequestTrue(q)
  BY <1>3, <1>9 DEF RequestTrue
<1> HIDE DEF q
<1>. QED
  BY <1>2, <1>3, <1>4, <1>5, <1>6, <1>7, <1>8, <1>10, RequestMoves

LEMMA AskInv == ASSUME DInv, NEW r \in Requests, NEW o \in Orders, Ask(r, o) PROVE DInv'
<1> USE DEF DInv
<1>1. InitiatePayment(r, o) \/ CancelOrder(r, o) \/ ReconcileTelebirrOrder(r, o)
  BY DEF Ask
<1>2. UNCHANGED <<gateway, interim, acked, overtaken, faults>>
  BY DEF Ask, gatewayVars
<1>3. IInv'
  BY <1>1, RequestStartsInv DEF RequestStarts
<1>4. UNCHANGED <<order, attempts, receipts>>
  BY <1>1 DEF InitiatePayment, CancelOrder, ReconcileTelebirrOrder, Begin
<1>5. PICK q : /\ request' = [request EXCEPT ![r] = q]
               /\ q.op \in {"initiatePayment", "cancelOrder", "query"}
               /\ q.op = "query" => q.order = o /\ gateway[o] # "none"
  <2> DEFINE begun(op) == [op |-> op, pc |-> "write", order |-> o, snap |-> order[o]]
             asked == [op |-> "query", order |-> o, snap |-> order[o]]
  <2>1. begun("initiatePayment").op = "initiatePayment" /\ begun("cancelOrder").op = "cancelOrder"
    OBVIOUS
  <2>2. asked.op = "query" /\ asked.order = o
    OBVIOUS
  <2>3. \/ request' = [request EXCEPT ![r] = begun("initiatePayment")]
        \/ request' = [request EXCEPT ![r] = begun("cancelOrder")]
        \/ request' = [request EXCEPT ![r] = asked] /\ gateway[o] # "none"
    BY DEF Ask, InitiatePayment, CancelOrder, ReconcileTelebirrOrder, Begin
  <2> HIDE DEF begun, asked
  <2>. QED
    BY <2>1, <2>2, <2>3
<1>6. GatewayOK' /\ \A p \in acked' : Closed(p)
  BY <1>2 DEF GatewayOK, AckedClosed
<1>7. RequestTrue(q)
  BY <1>5 DEF RequestTrue, CallbackOps
<1>. QED
  BY <1>2, <1>3, <1>4, <1>5, <1>6, <1>7, RequestMoves

\* A request ends, and its slot takes another one.
LEMMA EndInv == ASSUME DInv, NEW r \in Requests, Die(r) \/ Reuse(r) PROVE DInv'
<1> USE DEF DInv
<1>1. PICK q \in {Idle, Done} : request' = [request EXCEPT ![r] = q]
  BY DEF Die, Abort, Finish, Reuse
<1>2. UNCHANGED <<order, attempts, receipts, newestLog, settled>>
  BY DEF Die, Abort, Reuse
<1>3. UNCHANGED <<gateway, interim, acked, overtaken>> /\ faults' \in 0..MaxFaults
  BY DeliveryAssumption DEF Die, Reuse, gatewayVars, GatewayOK
<1>4. q \in RequestState /\ q.op \in {"idle", "done"}
  BY DEF RequestState, Idle, Done
<1>5. IInv'
  BY <1>1, <1>2, <1>4, QuietStep
<1>6. GatewayOK' /\ \A p \in acked' : Closed(p)
  BY <1>3 DEF GatewayOK, AckedClosed
<1>7. RequestTrue(q)
  BY <1>4 DEF RequestTrue, CallbackOps
<1>. QED
  BY <1>1, <1>2, <1>3, <1>4, <1>5, <1>6, <1>7, RequestMoves

-----------------------------------------------------------------------------
(* Handlers that go on. *)

\* A request is over, and what was closed still is.
LEMMA Closing ==
  ASSUME DInv, IInv', GatewayOK', NEW r \in Requests, request' = [request EXCEPT ![r] = Done],
         UNCHANGED gateway, \A o \in Orders : Closed(o) => Closed(o)',
         ReceiptsClosed', AttemptsClosed', AckedClosed'
  PROVE  DInv'
<1> USE DEF DInv
<1>1. request' \in [Requests -> RequestState] /\ request \in [Requests -> RequestState]
  BY DEF IInv, TypeOK
<1>2. \A p \in Requests : request'[p] = IF p = r THEN Done ELSE request[p]
  BY <1>1
<1>3. \A o, n : TrueNotice(o, n)' <=> TrueNotice(o, n)
  BY DEF TrueNotice
<1>4. NoticesTrue'
  BY <1>2, <1>3 DEF NoticesTrue, RequestTrue, Done, CallbackOps
<1>. QED
  BY <1>4

\* A new attempt of the customer is no success, a cancellation leaves
\* PENDING_PAYMENT behind: neither opens what is closed.
LEMMA InitiatedInv ==
  ASSUME DInv, NEW r \in Requests, InitiatePaymentTx(r, "TELEBIRR_H5"), UNCHANGED gatewayVars
  PROVE  DInv'
<1> USE DEF DInv
<1> DEFINE o == request[r].order
           a == [channel |-> "TELEBIRR_H5", txn |-> NoTxn, state |-> "INITIATED"]
<1>1. IInv' /\ o \in Orders
  BY InitiatePaymentTxInv, WriterFacts DEF InitiatePaymentTx, At, PlainOps, PaymentChannel
<1>2. UNCHANGED <<gateway, interim, acked, overtaken, faults>>
  BY DEF gatewayVars
<1>3. /\ order' = [order EXCEPT ![o] = [order[o] EXCEPT !.paymentState = "INITIATED"]]
      /\ attempts' = [attempts EXCEPT ![o] = Append(attempts[o], a)]
      /\ request' = [request EXCEPT ![r] = Done] /\ receipts' = receipts
  BY DEF InitiatePaymentTx, UpdateOrder, Finish
<1>4. order \in [Orders -> OrderRow] /\ attempts \in [Orders -> Seq(Attempt)]
  BY DEF IInv, TypeOK
<1>5. \A p \in Orders : order'[p].state = order[p].state /\ order'[p].paidAt = order[p].paidAt
  BY <1>3, <1>4 DEF OrderRow
<1>6. \A p \in Orders : Closed(p) => Closed(p)'
  BY <1>2, <1>5 DEF Closed, Recorded
<1>7. \A p \in Orders : \A i \in DOMAIN attempts'[p] :
        attempts'[p][i].state = "SUCCESS" =>
          i \in DOMAIN attempts[p] /\ attempts[p][i].state = "SUCCESS"
  <2> SUFFICES ASSUME NEW p \in Orders, NEW i \in DOMAIN attempts'[p],
                      attempts'[p][i].state = "SUCCESS"
               PROVE  i \in DOMAIN attempts[p] /\ attempts[p][i].state = "SUCCESS"
    OBVIOUS
  <2>1. CASE p # o
    BY <2>1, <1>3, <1>4
  <2>2. CASE p = o
    <3>1. attempts'[o] = Append(attempts[o], a) /\ attempts[o] \in Seq(Attempt)
      BY <1>1, <1>3, <1>4
    <3>2. a.state = "INITIATED"
      OBVIOUS
    <3> HIDE DEF a
    <3>3. i \in 1..(Len(attempts[o]) + 1)
      BY <2>2, <3>1
    <3>4. CASE i = Len(attempts[o]) + 1
      BY <2>2, <3>1, <3>2, <3>4
    <3>5. CASE i \in 1..Len(attempts[o])
      BY <2>2, <3>1, <3>5
    <3>. QED
      BY <3>1, <3>3, <3>4, <3>5
  <2>. QED
    BY <2>1, <2>2
<1>8. AttemptsClosed' /\ ReceiptsClosed' /\ AckedClosed'
  BY <1>2, <1>3, <1>6, <1>7 DEF AttemptsClosed, ReceiptsClosed, AckedClosed, GatewayOK
<1>9. GatewayOK'
  BY <1>2 DEF GatewayOK
<1>. QED
  BY <1>1, <1>2, <1>3, <1>6, <1>8, <1>9, Closing

LEMMA CancelledInv ==
  ASSUME DInv, NEW r \in Requests, CancelOrderTx(r), UNCHANGED gatewayVars PROVE DInv'
<1> USE DEF DInv
<1> DEFINE o == request[r].order
<1>1. IInv' /\ o \in Orders
  BY CancelOrderTxInv, WriterFacts DEF CancelOrderTx, At, PlainOps
<1>2. UNCHANGED <<gateway, interim, acked, overtaken, faults>>
  BY DEF gatewayVars
<1>3. /\ order' = [order EXCEPT ![o] = CancelledRow(order[o])]
      /\ request' = [request EXCEPT ![r] = Done] /\ UNCHANGED <<receipts, attempts>>
  BY DEF CancelOrderTx, UpdateOrder, Finish
<1>4. order \in [Orders -> OrderRow]
  BY DEF IInv, TypeOK
<1>5. \A p \in Orders : /\ order'[p].paidAt = order[p].paidAt
                        /\ order'[p].state \in {order[p].state, "CANCELLED"}
  BY <1>3, <1>4 DEF OrderRow, CancelledRow
<1>6. \A p \in Orders : Closed(p) => Closed(p)'
  BY <1>2, <1>5 DEF Closed, Recorded
<1>7. AttemptsClosed' /\ ReceiptsClosed' /\ AckedClosed'
  BY <1>2, <1>3, <1>6 DEF AttemptsClosed, ReceiptsClosed, AckedClosed, GatewayOK
<1>8. GatewayOK'
  BY <1>2 DEF GatewayOK
<1>. QED
  BY <1>1, <1>2, <1>3, <1>6, <1>7, <1>8, Closing

\* The answer of a query says what the gateway says now.
LEMMA QueriedInv ==
  ASSUME DInv, NEW r \in Requests, UNCHANGED gatewayVars, request[r].op = "query",
         LET o == request[r].order
         IN QueryAnswered(r, ReportOf(o, gateway[o], QueryWord(gateway[o])), TRUE)
  PROVE  DInv'
<1> USE DEF DInv
<1> DEFINE o == request[r].order
           report == ReportOf(o, gateway[o], QueryWord(gateway[o]))
           n == [txn |-> report.txn, status |-> report.status, body |-> report.body, nonce |-> o]
           q == [op |-> "telebirrQuery", pc |-> "attempt", order |-> o, snap |-> order[o],
                 notice |-> n, attempt |-> 0]
<1>1. o \in Orders
  BY InFlightType DEF InFlight, Idle, Done, IInv
<1>2. n \in Notice /\ TrueNotice(o, n)
  <2>1. gateway[o] \in Trade \ {"none"}
    BY <1>1 DEF NoticesTrue, RequestTrue, GatewayOK
  <2>. QED
    BY <1>1, <2>1, ReportTrue
<1>3. UNCHANGED <<gateway, interim, acked, overtaken, faults>>
  BY DEF gatewayVars
<1> HIDE DEF report
<1>4. /\ BeginNotice(r, o, "telebirrQuery", n)
      /\ UNCHANGED <<order, attempts, receipts, newestLog, settled>>
  BY DEF QueryAnswered, report
<1> HIDE DEF n, o
<1>5. IInv'
  BY <1>1, <1>2, <1>4, BeginNoticeInv DEF CallbackOps
<1>6. request' = [request EXCEPT ![r] = q]
  BY <1>4 DEF BeginNotice
<1>7. GatewayOK' /\ \A p \in acked' : Closed(p)
  BY <1>3 DEF GatewayOK, AckedClosed
<1>8. q.op = "telebirrQuery" /\ q.order = o /\ q.notice = n
  OBVIOUS
<1> HIDE DEF q
<1>9. RequestTrue(q)
  BY <1>2, <1>8 DEF RequestTrue
<1>. QED
  BY <1>2, <1>3, <1>4, <1>5, <1>6, <1>7, <1>9, RequestMoves

\* The answer adds to the acknowledged orders at most the request's, and only
\* for a reason AnswersZero names.
LEMMA AnswerFacts ==
  ASSUME GatewayOK, NEW r \in Requests, request[r].order \in Orders, Answer(r)
  PROVE  /\ faults' \in 0..MaxFaults
         /\ \A p \in acked' : \/ p \in acked
                              \/ /\ p = request[r].order /\ request'[r] = Done
                                 /\ request[r].op = "telebirrNotify"
                                 /\ request[r].notice.body \in Final /\ AnswersZero(r)
BY DeliveryAssumption DEF Answer, GatewayOK

\* A lookup acknowledges only what a receipt or a successful attempt closed.
LEMMA FoundInv ==
  ASSUME DInv, NEW r \in Requests, Apply(r),
         TelebirrFindAttempt(r) \/ TelebirrFindReceipt(r) \/ TelebirrRollback(r)
  PROVE  DInv'
<1> USE DEF DInv
<1> DEFINE o == request[r].order
           n == request[r].notice
<1>1. request[r].op \in {"telebirrNotify", "telebirrQuery"}
  BY DEF TelebirrFindAttempt, TelebirrFindReceipt, TelebirrRollback, At
<1>2. o \in Orders /\ TrueNotice(o, n)
  BY <1>1, NoticeFacts DEF CallbackOps, NoticesTrue, RequestTrue
<1>3. UNCHANGED <<order, attempts, receipts, newestLog, settled>>
  BY DEF TelebirrFindAttempt, TelebirrFindReceipt, TelebirrRollback, FoundAttempt, FoundReceipt
<1>4. IInv'
  BY <1>3, LookupsInv, FinishInv DEF TelebirrRollback
<1>5. UNCHANGED <<gateway, interim, overtaken>>
  BY DEF Apply, TelebirrFindAttempt, TelebirrFindReceipt, TelebirrRollback, At
<1>6. /\ faults' \in 0..MaxFaults
      /\ \A p \in acked' : \/ p \in acked
                           \/ /\ p = o /\ request'[r] = Done
                              /\ request[r].op = "telebirrNotify"
                              /\ n.body \in Final /\ AnswersZero(r)
  BY <1>2, AnswerFacts DEF Apply
<1>7. GatewayOK'
  BY <1>2, <1>5, <1>6 DEF GatewayOK
<1>8. PICK q : /\ request' = [request EXCEPT ![r] = q]
               /\ \/ q = Done
                  \/ q.op = request[r].op /\ q.order = o /\ q.notice = n
  <2>1. request[r] \in NoticeRequest
    BY <1>1, InFlightType DEF InFlight, Idle, Done, PlainRequest, QueryRequest, PlainOps,
       MerchantTargets, IInv
  <2> DEFINE moved(i, next) == [request[r] EXCEPT !.attempt = i, !.pc = next]
             looked == [request[r] EXCEPT !.pc = "write"]
  <2>2. \A i, next : /\ moved(i, next).op = request[r].op /\ moved(i, next).order = o
                     /\ moved(i, next).notice = n
    BY <2>1 DEF NoticeRequest
  <2>3. looked.op = request[r].op /\ looked.order = o /\ looked.notice = n
    BY <2>1 DEF NoticeRequest
  <2>4. \/ Finish(r)
        \/ \E i, next : request' = [request EXCEPT ![r] = moved(i, next)]
        \/ request' = [request EXCEPT ![r] = looked]
    <3>1. CASE TelebirrFindAttempt(r)
      <4>1. PICK i, next : FoundAttempt(r, i, next)
        BY <3>1 DEF TelebirrFindAttempt
      <4>2. Finish(r) \/ request' = [request EXCEPT ![r].attempt = i, ![r].pc = next]
        BY <4>1 DEF FoundAttempt
      <4>3. request \in [Requests -> RequestState]
        BY DEF IInv, TypeOK
      <4>. QED
        BY <4>2, <4>3
    <3>2. CASE TelebirrFindReceipt(r) \/ TelebirrRollback(r)
      BY <3>2 DEF TelebirrFindReceipt, FoundReceipt, TelebirrRollback
    <3>. QED
      BY <3>1, <3>2
  <2> HIDE DEF moved, looked
  <2>. QED
    BY <2>2, <2>3, <2>4 DEF Finish
<1>9. RequestTrue(q)
  BY <1>1, <1>2, <1>8 DEF RequestTrue, Done, CallbackOps
<1>10. ASSUME request'[r] = Done, request[r].op = "telebirrNotify", n.body \in Final, AnswersZero(r)
       PROVE  Closed(o)
  <2>1. CASE TelebirrFindAttempt(r)
    <3>1. PICK i \in TelebirrAttempts(o, n) : FoundAttempt(r, i, "receipt")
      BY <1>10, <2>1 DEF TelebirrFindAttempt, At
    <3>2. Finish(r) /\ i # 0 /\ attempts[o][i].state = "SUCCESS"
      <4>1. CASE i # 0 /\ attempts[o][i].state = "SUCCESS" /\ n.status = "SUCCESS"
        BY <3>1, <4>1 DEF FoundAttempt
      <4>2. CASE ~(i # 0 /\ attempts[o][i].state = "SUCCESS" /\ n.status = "SUCCESS")
        <5>1. request' = [request EXCEPT ![r].attempt = i, ![r].pc = "receipt"]
          BY <3>1, <4>2 DEF FoundAttempt
        <5>2. request'[r] = [request[r] EXCEPT !.attempt = i, !.pc = "receipt"]
          BY <5>1 DEF IInv, TypeOK
        <5>3. request[r] \in NoticeRequest
          BY <1>1, InFlightType DEF InFlight, Idle, Done, PlainRequest, QueryRequest, PlainOps,
             MerchantTargets, IInv
        <5>4. request'[r].op = "telebirrNotify"
          BY <1>10, <5>2, <5>3 DEF NoticeRequest
        <5>. QED
          BY <1>10, <5>4 DEF Done
      <4>. QED
        BY <4>1, <4>2
    <3>3. i \in DOMAIN attempts[o]
      BY <3>1, <3>2 DEF TelebirrAttempts
    <3>. QED
      BY <1>2, <3>2, <3>3 DEF AttemptsClosed
  <2>2. CASE TelebirrFindReceipt(r)
    <3>1. PICK c \in receipts : c.nonce = n.nonce /\ c.body = n.body
      BY <1>10, <2>2 DEF TelebirrFindReceipt, At, AnswersZero
    <3>. QED
      BY <1>2, <1>10, <3>1 DEF ReceiptsClosed, TrueNotice
  <2>3. CASE TelebirrRollback(r)
    BY <1>10, <2>3 DEF TelebirrRollback, At, AnswersZero
  <2>. QED
    BY <2>1, <2>2, <2>3
<1>11. \A p \in acked' : Closed(p)
  BY <1>6, <1>10 DEF AckedClosed
<1>. QED
  BY <1>3, <1>4, <1>5, <1>7, <1>8, <1>9, <1>11, RequestMoves

\* The notice written: what was closed stays closed, and a final notice closes
\* its order, unless the row was overtaken.
LEMMA WrittenCloses ==
  ASSUME DInv, NEW r \in Requests, NEW o, o = request[r].order, Apply(r), TelebirrTx(r)
  PROVE  /\ \A p \in Orders : Closed(p) => Closed(p)'
         /\ request[r].notice.body \in Final => Closed(o)'
<1> USE DEF DInv
<1> DEFINE n == request[r].notice
           snap == request[r].snap
<1>1. request[r].op \in CallbackOps /\ request[r].pc = "write"
  BY DEF TelebirrTx, At, CallbackOps
<1>2. o \in Orders /\ n \in Notice /\ TrueNotice(o, n) /\ snap \in OrderRow
  BY <1>1, NoticeFacts, InFlightType DEF NoticesTrue, RequestTrue, InFlight, Idle, Done,
     CallbackOps, IInv
<1>3. /\ UNCHANGED gateway
      /\ overtaken \subseteq overtaken'
      /\ Stale(r) => o \in overtaken'
  BY DEF Apply, TelebirrTx, At
<1>4. PICK target \in TargetStates(snap, n.status) :
        UpdateOrder(o, [order[o] EXCEPT
          !.state = target, !.status = merchantStatusFromOrderState(target),
          !.paymentState = TargetPaymentState(snap, n.status),
          !.txn = n.txn, !.paidAt = PaidAt(snap, n)])
  BY DEF TelebirrTx, SettleOrder
<1>5. order \in [Orders -> OrderRow]
  BY DEF IInv, TypeOK
<1>6. /\ order'[o].state = target /\ order'[o].paidAt = PaidAt(snap, n)
      /\ \A p \in Orders : p # o => order'[p] = order[p]
  BY <1>2, <1>4, <1>5 DEF UpdateOrder, OrderRow
<1>7. \/ snap.state # "PENDING_PAYMENT" /\ target = snap.state
      \/ snap.state = "PENDING_PAYMENT" /\ (n.status \in {"SUCCESS", "FAILED"} => target # "PENDING_PAYMENT")
  BY <1>2, SettledStatesType DEF TargetStates, KitchenStates
<1>8. \A p \in Orders : Closed(p) => Closed(p)'
  <2> SUFFICES ASSUME NEW p \in Orders, Closed(p) PROVE Closed(p)'
    OBVIOUS
  <2>1. CASE p \in overtaken \/ p # o
    BY <2>1, <1>3, <1>6 DEF Closed, Recorded
  <2>2. CASE p = o /\ Stale(r)
    BY <2>2, <1>3 DEF Closed
  <2>3. CASE p = o /\ ~Stale(r) /\ p \notin overtaken
    <3>1. snap.state = order[o].state /\ snap.paidAt = order[o].paidAt
      BY <2>3 DEF Stale
    <3>2. order[o].state # "PENDING_PAYMENT" /\ (gateway[o] = "Completed" => order[o].paidAt)
      BY <2>3 DEF Closed, Recorded
    <3>3. order'[o].state # "PENDING_PAYMENT"
      BY <1>6, <1>7, <3>1, <3>2
    <3>4. gateway'[o] = "Completed" => order'[o].paidAt
      BY <1>3, <1>6, <3>1, <3>2 DEF PaidAt
    <3>. QED
      BY <1>3, <2>3, <3>3, <3>4 DEF Closed, Recorded
  <2>. QED
    BY <2>1, <2>2, <2>3
<1>9. ASSUME n.body \in Final PROVE Closed(o)'
  <2>1. gateway'[o] = n.body /\ (n.body = "Completed" => n.status = "SUCCESS")
        /\ n.status \in {"SUCCESS", "FAILED"}
    BY <1>2, <1>3, <1>9 DEF TrueNotice, Final
  <2>2. order'[o].state # "PENDING_PAYMENT"
    BY <1>6, <1>7, <2>1
  <2>3. gateway'[o] = "Completed" => order'[o].paidAt
    BY <1>6, <2>1 DEF PaidAt
  <2>. QED
    BY <1>9, <2>1, <2>2, <2>3 DEF Closed, Recorded
<1>. QED
  BY <1>8, <1>9

\* The outcome goes into one attempt of the order, with the notice's status.
LEMMA RecordedAttempts ==
  ASSUME TypeOK, NEW o \in Orders, NEW i \in Nat, NEW channel, NEW n \in Notice,
         RecordAttempt(o, i, channel, n),
         NEW p \in Orders, NEW j \in DOMAIN attempts'[p], attempts'[p][j].state = "SUCCESS"
  PROVE  \/ j \in DOMAIN attempts[p] /\ attempts[p][j].state = "SUCCESS"
         \/ p = o /\ n.status = "SUCCESS"
<1>1. attempts \in [Orders -> Seq(Attempt)]
  BY DEF TypeOK
<1>2. CASE p # o
  BY <1>1, <1>2 DEF RecordAttempt
<1>3. CASE p = o /\ i = 0
  <2> DEFINE a == [channel |-> channel, txn |-> n.txn, state |-> n.status]
  <2>1. attempts'[o] = Append(attempts[o], a) /\ attempts[o] \in Seq(Attempt)
    BY <1>1, <1>3 DEF RecordAttempt
  <2>2. a.state = n.status
    OBVIOUS
  <2> HIDE DEF a
  <2>3. j \in 1..(Len(attempts[o]) + 1)
    BY <1>3, <2>1
  <2>4. CASE j = Len(attempts[o]) + 1
    BY <1>3, <2>1, <2>2, <2>4
  <2>5. CASE j \in 1..Len(attempts[o])
    BY <1>3, <2>1, <2>5
  <2>. QED
    BY <2>1, <2>3, <2>4, <2>5
<1>4. CASE p = o /\ i # 0
  <2> DEFINE s == attempts[o]
             t == [s EXCEPT ![i].state = n.status, ![i].txn = n.txn]
  <2>1. s \in [1..Len(s) -> Attempt] /\ Len(s) \in Nat
    BY <1>1
  <2>2. attempts'[o] = t
    BY <1>1, <1>4 DEF RecordAttempt
  <2>3. DOMAIN t = DOMAIN s /\ \A k \in DOMAIN s : k # i => t[k] = s[k]
    BY <2>1
  <2>4. i \in DOMAIN s => t[i].state = n.status
    BY <2>1 DEF Attempt
  <2> HIDE DEF t, s
  <2>. QED
    BY <1>4, <2>2, <2>3, <2>4 DEF s
<1>. QED
  BY <1>2, <1>3, <1>4

LEMMA WrittenInv ==
  ASSUME DInv, NEW r \in Requests, NEW o, o = request[r].order, Apply(r), TelebirrTx(r)
  PROVE  DInv'
<1> USE DEF DInv
<1> DEFINE n == request[r].notice
<1>1. request[r].op \in CallbackOps
  BY DEF TelebirrTx, At, CallbackOps
<1>2. o \in Orders /\ n \in Notice /\ request[r].attempt \in Nat /\ TrueNotice(o, n)
  BY <1>1, NoticeFacts DEF NoticesTrue, RequestTrue
<1>3. IInv' /\ request' = [request EXCEPT ![r] = Done]
  BY TelebirrTxInv DEF TelebirrTx, Finish
<1>4. UNCHANGED <<gateway, interim>> /\ overtaken' \subseteq overtaken \cup {o}
  BY DEF Apply
<1>5. (\A p \in Orders : Closed(p) => Closed(p)') /\ (n.body \in Final => Closed(o)')
  BY WrittenCloses
<1>6. /\ faults' \in 0..MaxFaults
      /\ \A p \in acked' : p \in acked \/ (p = o /\ n.body \in Final)
  BY <1>2, AnswerFacts DEF Apply
<1>7. GatewayOK'
  BY <1>2, <1>4, <1>6 DEF GatewayOK
<1>8. AckedClosed'
  BY <1>5, <1>6 DEF AckedClosed, GatewayOK
<1>9. ReceiptsClosed'
  <2>1. receipts' \subseteq receipts \cup {ReceiptOf(o, n)}
    BY DEF TelebirrTx
  <2>2. ReceiptOf(o, n).nonce = o /\ ReceiptOf(o, n).body = n.body
    BY <1>2 DEF ReceiptOf, TrueNotice
  <2>. QED
    BY <1>2, <1>5, <2>1, <2>2 DEF ReceiptsClosed
<1>10. AttemptsClosed'
  <2>1. RecordAttempt(o, request[r].attempt, "TELEBIRR_H5", n)
    BY DEF TelebirrTx
  <2>2. n.status = "SUCCESS" => n.body \in Final
    BY <1>2 DEF TrueNotice, Final
  <2>3. \A p \in Orders : \A j \in DOMAIN attempts'[p] : attempts'[p][j].state = "SUCCESS" =>
          \/ j \in DOMAIN attempts[p] /\ attempts[p][j].state = "SUCCESS"
          \/ p = o /\ n.status = "SUCCESS"
    BY <1>2, <2>1, RecordedAttempts DEF IInv
  <2>. QED
    BY <1>5, <2>2, <2>3 DEF AttemptsClosed
<1>. QED
  BY <1>3, <1>4, <1>5, <1>7, <1>8, <1>9, <1>10, Closing

-----------------------------------------------------------------------------
(* The theorems. *)

LEMMA DeliveryNextInv == DInv /\ [DeliveryNext]_deliveryVars => DInv'
<1> SUFFICES ASSUME DInv, [DeliveryNext]_deliveryVars PROVE DInv'
  OBVIOUS
<1>1. CASE UNCHANGED deliveryVars
  <2>1. UNCHANGED vars /\ UNCHANGED <<gateway, interim, acked, overtaken, faults>>
    BY <1>1 DEF deliveryVars, gatewayVars
  <2>2. IInv'
    BY <2>1, NextInv DEF DInv
  <2>3. GatewayOK'
    BY <2>1 DEF DInv, GatewayOK
  <2>4. NoticesTrue'
    BY <2>1 DEF DInv, NoticesTrue, RequestTrue, TrueNotice, vars
  <2>5. ReceiptsClosed' /\ AttemptsClosed' /\ AckedClosed'
    BY <2>1 DEF DInv, ReceiptsClosed, AttemptsClosed, AckedClosed, Closed, Recorded, vars
  <2>. QED
    BY <2>2, <2>3, <2>4, <2>5 DEF DInv
<1>2. ASSUME NEW o \in Orders, CustomerPays(o) \/ GatewayDecides(o) PROVE DInv'
  BY <1>2, GatewayInv
<1>3. ASSUME NEW r \in Requests, NEW o \in Orders,
             NotifyInterim(r, o) \/ NotifyFinal(r, o) \/ Ask(r, o)
      PROVE  DInv'
  BY <1>3, NotifyInv, AskInv
<1>4. ASSUME NEW r \in Requests, Continue(r) PROVE DInv'
  BY <1>4, InitiatedInv, CancelledInv, QueriedInv DEF Continue
<1>5. ASSUME NEW r \in Requests, Apply(r) PROVE DInv'
  <2>1. \/ TelebirrFindAttempt(r) \/ TelebirrFindReceipt(r) \/ TelebirrRollback(r)
        \/ TelebirrTx(r)
    BY <1>5 DEF Apply
  <2>. QED
    BY <1>5, <2>1, FoundInv, WrittenInv
<1>6. ASSUME NEW r \in Requests, Die(r) \/ Reuse(r) PROVE DInv'
  BY <1>6, EndInv
<1>. QED
  BY <1>1, <1>2, <1>3, <1>4, <1>5, <1>6 DEF DeliveryNext

\* The inductive invariant holds of every execution of the composition; with
\* IInv it carries OrderLifecycle's own invariants over to it.
THEOREM DeliveryInvariance == DeliverySpec => []DInv
BY DeliveryInitInv, DeliveryNextInv, PTL DEF DeliverySpec

\* Rows, requests, the gateway and its acknowledgements keep their types.
THEOREM DeliveryTypeCorrectness == DeliverySpec => []DeliveryTypeOK
<1>1. DInv => DeliveryTypeOK
  BY DEF DInv, IInv, GatewayOK, DeliveryTypeOK
<1>. QED
  BY <1>1, DeliveryInvariance, PTL

\* Code 0 ends the redelivery of a payment only when the order has it, for any
\* number of orders, handlers, retries, deaths and lost answers.
THEOREM AcknowledgedIsRecorded == DeliverySpec => []AckedMeansRecorded
<1>1. DInv => AckedMeansRecorded
  BY DEF DInv, AckedClosed, Closed, Recorded, AckedMeansRecorded
<1>. QED
  BY <1>1, DeliveryInvariance, PTL

\* A payment that arrives by notifications and reconciliations, crashes and
\* retries included, takes no order to the kitchen without a settlement.
THEOREM DeliveredOrdersAreSettled ==
  DeliverySpec => [](KitchenAfterSettlement /\ SuccessIsPaid)
<1>1. DInv => KitchenAfterSettlement /\ SuccessIsPaid
  BY DEF DInv, IInv, RowsSound
<1>. QED
  BY <1>1, DeliveryInvariance, PTL

=============================================================================
