SPECIFICATION Spec
CONSTANTS
  b1 = b1
  b2 = b2
  w1 = w1
  w2 = w2
  Client = {c1, c2}
  BrainToken = {b1, b2}
  Workspace = {w1, w2}
  HomeOf <- Homes
  Consent = {r1, r2}
  Request = {s1, s2}
  MaxTokens = 3
  MaxLapses = 2
SYMMETRY Interchangeable
INVARIANTS
  TypeOK
  ConsentHolds
PROPERTIES
  SpentStaysSpent
CHECK_DEADLOCK FALSE
