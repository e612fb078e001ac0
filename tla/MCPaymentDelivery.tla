-------------------------- MODULE MCPaymentDelivery --------------------------
(* Small instances of PaymentDelivery. *)
EXTENDS PaymentDelivery

CONSTANT t1

MCTxnOf == [o \in Orders |-> t1]
=============================================================================
