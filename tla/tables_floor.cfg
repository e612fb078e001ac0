\* Two overlapping executions, two events under way, and the page of s1.
CONSTANTS
  s1 = s1
  s2 = s2
  a = a
  b = b
  n1 = n1
  n2 = n2
  Shops = {s1, s2}
  Viewer = s1
  TableIds = {a, b}
  DemoId = demo
  Names = {n1, n2, vip1}
  DemoName = vip1
  NoTable = NoTable
  Requests = {r1, r2}
  Emitters = {e1, e2}
  Inputs <- MCInputs
  InitialTables <- MCInitialTables
SPECIFICATION Spec
INVARIANTS TypeOK OrdersSitInTheirShop
PROPERTIES CountedOrdersKeepTheirTable FloorAgreesEventually
