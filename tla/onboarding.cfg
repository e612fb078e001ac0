\* Three approvals of two applications that compete for two phone numbers.
\* The system rests once every approval has ended and nobody is on a staff.
CONSTANTS
  None = None
  Applications = {a1, a2}
  Phones = {n1, n2}
  Requests = {r1, r2, r3}
SPECIFICATION Spec
SYMMETRY OnboardingSymmetry
INVARIANTS TypeOK AnswersAreTrue
PROPERTIES KeepsThePromise
CHECK_DEADLOCK FALSE
