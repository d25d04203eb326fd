SPECIFICATION SessionsSpec
CONSTANTS
  Channel = {c1, c2}
  Kinds = {"mention"}
  Said = {"stopped_by_user", "approved"}
  Acts = {"answer"}
  MaxTurns = 2
  Request = {r1, r2}
  MaxLoads = 3
  Worker = {w1}
  NoWorker = NoWorker
  MaxFaults = 1
  Serial = FALSE
SYMMETRY Symmetry
INVARIANTS
  SessionsTypeOK
  NeverOvercharged
  
CHECK_DEADLOCK FALSE
