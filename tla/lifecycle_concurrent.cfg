\* Three overlapping handler executions on one order.
CONSTANTS
  Orders = {o1}
  Requests = {r1, r2, r3}
  Serial = FALSE
  t1 = t1
  t2 = t2
  n1 = n1
  n2 = n2
  b1 = b1
  b2 = b2
  Txns = {t1, t2}
  Nonces = {n1, n2}
  Bodies = {b1, b2}
  NoTxn = NoTxn
  MockTxn = MockTxn
  DeliveryTypes = {"DINE_IN", "DELIVERY"}
  CallbackNotices <- MCCallbackNotices
  ProviderReports <- MCProviderReports
  MaxAttempts = 2
SPECIFICATION Spec
SYMMETRY RequestSymmetry
INVARIANTS TypeOK KitchenAfterSettlement SuccessIsPaid BoardAgreesOffDelivery
PROPERTIES LossesAreOverlaps
\* Quiescent once every request has run.
CHECK_DEADLOCK FALSE
