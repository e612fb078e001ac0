\* Overlapping updates of two tickets by two waiters; one of them is reopened.
CONSTANTS
  Tickets = {t1, t2}
  Staff = {ann, bob}
  Nobody = Nobody
  Requests = {r1, r2, r3}
  Reopened = {t2}
SPECIFICATION Spec
SYMMETRY RequestSymmetry
INVARIANTS TypeOK UpdatesTakeTurns PerformanceBacked
PROPERTIES KeepsThePromise
\* Quiescent once every request has run.
CHECK_DEADLOCK FALSE
