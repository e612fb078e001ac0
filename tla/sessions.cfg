\* Two pages of one browser and two logins of a member.
CONSTANTS
  None = None
  b1 = b1
  p1 = p1
  p2 = p2
  Staff = {ann}
  Browsers = {b1}
  Pages = {p1, p2}
  BrowserOf <- OneBrowser
  Sids = {s1, s2}
  Calls <- AllCalls
  MaxCalls = 1
SPECIFICATION Spec
INVARIANTS TypeOK NoFalseAlarm
