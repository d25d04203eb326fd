SPECIFICATION Spec
CONSTANTS
  Channel = {general, direct}
  DM = {direct}
  Writer = {w1, w2}
  Puts <- SomePuts
  Replies <- SomeReplies
  Evidence = {70, 75}
  MaxPuts = 2
SYMMETRY Interchangeable
INVARIANTS
  TypeOK
  SilenceIsKept
  ReplyIsHonoured
  StricterIsQuieter
CHECK_DEADLOCK FALSE
