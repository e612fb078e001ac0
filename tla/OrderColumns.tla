---------------------------- MODULE OrderColumns ----------------------------
(***************************************************************************)
(* The state columns of an Order row (apps/order-service/prisma/           *)
(* schema.prisma) and the pure functions that derive one from another      *)
(* (order/infrastructure/order.mapper.ts and the inline expressions of     *)
(* order/order.service.ts).                                                *)
(***************************************************************************)

OrderState == {"PENDING_PAYMENT", "PAID", "PREPARING", "READY", "COMPLETED",
               "CANCELLED", "PAYMENT_FAILED"}
OrderStatus == {"PENDING", "PREPARING", "COMPLETED", "CANCELLED"}
PaymentState == {"NOT_REQUIRED", "INITIATED", "PENDING", "SUCCESS", "FAILED"}
PaymentMethod == {"TELEBIRR", "CASH"}
DeliveryType == {"DINE_IN", "PICKUP", "DELIVERY"}

\* Mutant: READY is missing from the first case.
merchantStatusWithoutReady(state) ==
  IF state \in {"PREPARING", "READY", "COMPLETED", "CANCELLED"} THEN state
  ELSE "PENDING"

merchantStatusFromOrderState(state) ==
  IF state \in {"PREPARING", "READY"} THEN "PREPARING"
  ELSE IF state \in {"COMPLETED", "CANCELLED"} THEN state
  ELSE "PENDING"

initialMerchantStatus(state) ==
  IF state \in {"PREPARING", "COMPLETED", "CANCELLED"} THEN state ELSE "PENDING"

\* A paid order is accepted at once when the shop's delivery configuration
\* says so.  The configuration may change at any time, so both are possible.
SettledStates(deliveryType) ==
  IF deliveryType = "DELIVERY" THEN {"PAID", "PREPARING"} ELSE {"PAID"}

InitialPaymentState(paymentMethod) ==
  IF paymentMethod = "CASH" THEN "NOT_REQUIRED" ELSE "PENDING"

\* The states createOrder may give an order: only a delivery that needs no
\* payment skips PENDING_PAYMENT.
InitialStates(deliveryType, paymentState) ==
  IF deliveryType = "DELIVERY" /\ paymentState = "NOT_REQUIRED"
  THEN SettledStates(deliveryType) ELSE {"PENDING_PAYMENT"}

=============================================================================
