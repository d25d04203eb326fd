SPECIFICATION FairSpec
CONSTANTS
  Channel = {c1}
  Kinds = {"passive_message"}
  Said = {"stopped_by_user"}
  Acts = {"answer"}
  MaxTurns = 2
  Request = {r1}
  MaxLoads = 1
  Worker = {w1, w2}
  NoWorker = NoWorker
  MaxFaults = 1
  Serial = FALSE
PROPERTIES
  LeasesServe
CHECK_DEADLOCK FALSE
