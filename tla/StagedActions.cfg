SPECIFICATION FairSpec
CONSTANTS
  ActionId = {a1, a2}
  Caller = {c1, c2, c3}
  Nobody = Nobody
  MaxAborts = 2
INVARIANTS
  TypeOK
  DoneOnce
PROPERTIES
  SettledIsFinal
  ApprovalEnds
CHECK_DEADLOCK FALSE
