-------------------------- MODULE MCOrderLifecycle --------------------------
(* Small instances of OrderLifecycle: the notices a provider may send. *)
EXTENDS OrderLifecycle, TLC

CONSTANTS t1, t2, n1, n2, b1, b2

\* A transaction that succeeds, a second payload about it with a nonce of its
\* own, and a transaction that fails.
MCCallbackNotices ==
  {[txn |-> t1, status |-> "SUCCESS", nonce |-> n1, body |-> b1],
   [txn |-> t1, status |-> "FAILED", nonce |-> n2, body |-> b2],
   [txn |-> t2, status |-> "FAILED", nonce |-> n2, body |-> b2]}

\* The same for the webhook and the query: t1 is first pending, then done.
MCProviderReports ==
  {[txn |-> t1, status |-> "PENDING", body |-> b2],
   [txn |-> t1, status |-> "SUCCESS", body |-> b1],
   [txn |-> t2, status |-> "FAILED", body |-> b2]}

RequestSymmetry == Permutations(Requests)
=============================================================================
