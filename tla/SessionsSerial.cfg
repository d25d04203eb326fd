SPECIFICATION SessionsSpec
CONSTANTS
  Channel = {c1}
  Kinds = {"mention", "passive_message"}
  Said = {"stopped_by_user", "approved"}
  Acts = {"answer", "investigate"}
  MaxTurns = 2
  Request = {r1}
  MaxLoads = 3
  Worker = {w1}
  NoWorker = NoWorker
  MaxFaults = 2
  Serial = TRUE
PROPERTIES
  ImplementsTurns
CHECK_DEADLOCK FALSE
