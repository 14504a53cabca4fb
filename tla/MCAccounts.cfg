SPECIFICATION Spec
CONSTANTS
  a1 = a1
  a2 = a2
  e1 = e1
  u1 = u1
  u2 = u2
  Adders = {a1, a2}
  Emails = {e1}
  Users = {u1, u2}
  MaxSessions = 2
  MaxInvalidPastes = 1
  MaxTokens = 2
  MaxFaults = 1
SYMMETRY CallSymmetry
INVARIANTS SignInOnce GoodTokenKept
PROPERTIES NoneLeftOver
CHECK_DEADLOCK FALSE
