\* One payment, two slots, one fault.  The system rests once the order is closed
\* and nothing is left to deliver.
CONSTANTS
  Orders = {o1}
  Requests = {r1, r2}
  Serial = FALSE
  t1 = t1
  Txns = {t1}
  Nonces = {}
  Bodies = {"Paying", "Completed", "Expired"}
  NoTxn = NoTxn
  MockTxn = MockTxn
  DeliveryTypes = {"DINE_IN"}
  CallbackNotices = {}
  ProviderReports = {}
  MaxAttempts = 3
  TxnOf <- MCTxnOf
  MaxInitiations = 1
  MaxFaults = 1
SPECIFICATION DeliverySpec
INVARIANTS DeliveryTypeOK AckedMeansRecorded
PROPERTIES CompletedIsAcked ReconciliationSettles
CHECK_DEADLOCK FALSE
