SPECIFICATION Spec
CONSTANTS
  memo = memo
  note = note
  blank = blank
  fact = fact
  claim = claim
  Source = {x1, x2}
  Content = {memo, note, blank}
  Statement = {fact, claim}
  Quotes <- SomeQuotes
  Infers <- SomeInfers
  NoDocument = NoDocument
  Request = {s1, s2}
  MaxVersions = 2
SYMMETRY Interchangeable
INVARIANTS
  TypeOK
  EvidenceStands
  NothingSkipped
  CopiesBounded
CHECK_DEADLOCK FALSE
