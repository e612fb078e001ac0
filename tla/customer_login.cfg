\* Three finishes on two codes and a challenge of each kind.  The system rests
\* once every finish has run, the rows have expired and the page is signed out.
CONSTANTS
  Requests = {r1, r2, r3}
  None = None
  AttemptLimit = 1
  MaxRows <- RowsPerWay
SPECIFICATION Spec
SYMMETRY FinishSymmetry
INVARIANTS TypeOK SpentOnce 
CHECK_DEADLOCK FALSE
