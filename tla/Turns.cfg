SPECIFICATION Spec
CONSTANTS
  Channel = {c1, c2}
  Kinds = {"mention", "passive_message", "ignored"}
  Said = {"stopped_by_user", "approved", "budget_exhausted"}
  MaxTurns = 2
  MaxSteers = 2
INVARIANTS
  TypeOK
  OneStory
  DisplacedRightly
PROPERTIES
  TerminalIsFinal
  GateHeld
CHECK_DEADLOCK FALSE
