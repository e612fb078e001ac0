-------------------------- MODULE PaymentDelivery --------------------------
(***************************************************************************)
(* How a Telebirr payment reaches the order: OrderLifecycle's handlers     *)
(* composed with the gateway that calls them.  The gateway takes a payment *)
(* and redelivers its notification until the controller (apps/             *)
(* order-service/src/payment/payment.controller.ts) answers code 0; the    *)
(* staff may ask for a reconciliation; the customer may cancel; processes  *)
(* die and answers get lost.  Requests are slots that are used again.      *)
(***************************************************************************)
EXTENDS OrderLifecycle

CONSTANTS
  TxnOf,          \* the gateway's payment_order_id of each merch_order_id
  MaxInitiations, \* bound: payment attempts the customer asks for
  MaxFaults       \* bound: deaths of a handler and lost answers

VARIABLES
  gateway,  \* trade status of each order's payment at the gateway
  interim,  \* orders the gateway has sent a notification still Paying about
  acked,    \* orders whose final notification was answered code 0
  overtaken,\* orders a provider update wrote from a snapshot that was stale
  faults

gatewayVars == <<gateway, interim, acked, overtaken, faults>>
deliveryVars == <<vars, gatewayVars>>

Final == {"Completed", "Expired"}
Trade == {"none", "Paying"} \cup Final

\* A payload is told apart by the trade status it reports.
ASSUME DeliveryAssumption ==
  /\ TxnOf \in [Orders -> Txns]
  /\ Trade \ {"none"} \subseteq Bodies
  /\ MaxInitiations \in Nat /\ MaxFaults \in Nat

DeliveryInit ==
  /\ Init
  /\ \A o \in Orders : order[o].state = "PENDING_PAYMENT" /\ order[o].paymentState = "PENDING"
  /\ gateway = [o \in Orders |-> "none"]
  /\ interim = {} /\ acked = {} /\ overtaken = {} /\ faults = 0

-----------------------------------------------------------------------------
(* The gateway. *)

\* The customer pays on the page of a payment that was initiated.
CustomerPays(o) ==
  /\ gateway[o] = "none"
  /\ attempts[o] # << >>
  /\ gateway' = [gateway EXCEPT ![o] = "Paying"]
  /\ UNCHANGED <<vars, interim, acked, overtaken, faults>>

GatewayDecides(o) ==
  /\ gateway[o] = "Paying"
  /\ \E outcome \in Final : gateway' = [gateway EXCEPT ![o] = outcome]
  /\ UNCHANGED <<vars, interim, acked, overtaken, faults>>

\* The query names an outcome in words of its own.
QueryWord(trade) ==
  CASE trade = "Completed" -> "PAY_SUCCESS"
    [] trade = "Expired" -> "PAY_FAILED"
    [] OTHER -> trade

\* Mutants: the notification's words alone are known, or an unknown word is
\* kept as it is.
mapNotifiedStatus(word) ==
  IF word = "Completed" THEN "SUCCESS" ELSE IF word = "Expired" THEN "FAILED" ELSE "PENDING"
mapKnownStatus(word) ==
  IF word = "Completed" THEN "SUCCESS" ELSE IF word = "Expired" THEN "FAILED" ELSE word

\* mapTradeStatusToPaymentStatus: an unknown word is PENDING.
mapTradeStatusToPaymentStatus(word) ==
  IF word \in {"Completed", "PAY_SUCCESS"} THEN "SUCCESS"
  ELSE IF word \in {"Expired", "PAY_FAILED"} THEN "FAILED"
  ELSE "PENDING"

\* The signed payload about a trade status; a redelivery repeats its bytes.
ReportOf(o, trade, word) ==
  [txn |-> TxnOf[o], status |-> mapTradeStatusToPaymentStatus(word), body |-> trade]

\* A notification that the payment is under way, in time or late; once, for a
\* second one is the same payload again.
NotifyInterim(r, o) ==
  /\ gateway[o] # "none" /\ o \notin interim
  /\ TelebirrNotify(r, o, ReportOf(o, "Paying", "Paying"))
  /\ interim' = interim \cup {o}
  /\ UNCHANGED <<gateway, acked, overtaken, faults>>

NotifyFinal(r, o) ==
  /\ gateway[o] \in Final
  /\ o \notin acked
  /\ TelebirrNotify(r, o, ReportOf(o, gateway[o], gateway[o]))
  /\ UNCHANGED gatewayVars

-----------------------------------------------------------------------------
(* The controller's answer to a notification. *)

\* Mutants: the result of applyTelebirrProviderUpdate is not looked at, or a
\* payment applied before is an error.
AnswersZeroAlways(r) == TRUE
AnswersZeroOnce(r) == request[r].pc = "write" /\ ~KeyTaken(request[r].notice)

\* Code 0 unless the update is refused: a receipt with another payload, or the
\* unique index.
AnswersZero(r) ==
  LET n == request[r].notice IN
  \/ request[r].pc = "attempt"
  \/ request[r].pc = "receipt"
       /\ \E c \in receipts : c.txn = n.txn /\ c.nonce = n.nonce /\ c.body = n.body
  \/ request[r].pc = "write" /\ ~KeyTaken(n)

\* A notification that ends here is answered; the gateway hears it unless the
\* answer is lost.
Answer(r) ==
  LET o == request[r].order
      hears == /\ request'[r] = Done
               /\ request[r].op = "telebirrNotify" /\ request[r].notice.body \in Final
               /\ AnswersZero(r)
  IN \/ /\ acked' = IF hears THEN acked \cup {o} ELSE acked
        /\ UNCHANGED faults
     \/ /\ hears /\ faults < MaxFaults
        /\ faults' = faults + 1
        /\ UNCHANGED acked

\* The update writes columns the row has changed since the snapshot.
Stale(r) ==
  LET row == order[request[r].order] IN
  request[r].snap.state # row.state \/ request[r].snap.paidAt # row.paidAt

-----------------------------------------------------------------------------
(* Handlers of OrderLifecycle that a customer's payment meets. *)

Initiating(o) ==
  {r \in Requests : request[r].op = "initiatePayment" /\ request[r].order = o}

Ask(r, o) ==
  /\ \/ /\ Len(attempts[o]) < MaxInitiations /\ Initiating(o) = {}
        /\ InitiatePayment(r, o)
     \/ CancelOrder(r, o)
     \/ gateway[o] # "none" /\ ReconcileTelebirrOrder(r, o)
  /\ UNCHANGED gatewayVars

Continue(r) ==
  /\ \/ InitiatePaymentTx(r, "TELEBIRR_H5")
     \/ CancelOrderTx(r)
     \/ /\ request[r].op = "query"
        /\ LET o == request[r].order
           IN QueryAnswered(r, ReportOf(o, gateway[o], QueryWord(gateway[o])), TRUE)
  /\ UNCHANGED gatewayVars

Apply(r) ==
  /\ \/ TelebirrFindAttempt(r) \/ TelebirrFindReceipt(r) \/ TelebirrRollback(r)
     \/ TelebirrTx(r)
  /\ overtaken' = IF request[r].pc = "write" /\ ~(request[r].op = "telebirrNotify"
                                                    /\ KeyTaken(request[r].notice))
                     /\ Stale(r)
                  THEN overtaken \cup {request[r].order} ELSE overtaken
  /\ Answer(r)
  /\ UNCHANGED <<gateway, interim>>

Die(r) ==
  /\ faults < MaxFaults
  /\ faults' = faults + 1
  /\ Abort(r)
  /\ UNCHANGED <<gateway, interim, acked, overtaken>>

\* The slot takes another request.
Reuse(r) ==
  /\ request[r] = Done
  /\ request' = [request EXCEPT ![r] = Idle]
  /\ UNCHANGED <<order, attempts, receipts, newestLog, settled, gatewayVars>>

DeliveryNext ==
  \/ \E o \in Orders : CustomerPays(o) \/ GatewayDecides(o)
  \/ \E r \in Requests :
       \/ \E o \in Orders : NotifyInterim(r, o) \/ NotifyFinal(r, o) \/ Ask(r, o)
       \/ Continue(r) \/ Apply(r) \/ Die(r) \/ Reuse(r)

\* A handler that runs goes on; the gateway redelivers, and its call is taken
\* although others keep the slots busy.  Nobody has to pay, cancel or ask.
DeliverySpec ==
  /\ DeliveryInit /\ [][DeliveryNext]_deliveryVars
  /\ \A r \in Requests : WF_deliveryVars(Continue(r) \/ Apply(r)) /\ WF_deliveryVars(Reuse(r))
  /\ \A o \in Orders : SF_deliveryVars(\E r \in Requests : NotifyFinal(r, o))

-----------------------------------------------------------------------------
\* The gateway, the handlers and the attempts keep their shape.
DeliveryTypeOK ==
  /\ TypeOK
  /\ gateway \in [Orders -> Trade]
  /\ interim \subseteq Orders /\ acked \subseteq Orders /\ overtaken \subseteq Orders
  /\ faults \in 0..MaxFaults

\* Nothing is acknowledged and lost: once the gateway stops redelivering, the
\* order has left PENDING_PAYMENT and a completed payment is stamped on it,
\* unless a provider update wrote it from a stale snapshot.
AckedMeansRecorded ==
  \A o \in acked \ overtaken :
    /\ order[o].state # "PENDING_PAYMENT"
    /\ gateway[o] = "Completed" => order[o].paidAt

\* A notification is not refused for ever: whatever crashes and whatever
\* answers get lost, the gateway of a completed payment hears code 0, if it
\* never sent a Paying notification of the same transaction.
CompletedIsAcked ==
  \A o \in Orders :
    (gateway[o] = "Completed" /\ o \notin interim) ~> (o \in acked \/ o \in interim)

\* The reconciliation repairs what notifications cannot: if somebody asks
\* again and again while the order waits, a completed payment reaches it, even
\* one whose notification conflicts with the Paying one.
Asking(o) == \E r \in Requests : request[r].op = "telebirrQuery" /\ request[r].order = o
ReconciliationSettles ==
  \A o \in Orders :
    []<>(order[o].state # "PENDING_PAYMENT" \/ Asking(o)) =>
      (gateway[o] = "Completed" ~> (order[o].state # "PENDING_PAYMENT" \/ o \in overtaken))

=============================================================================
