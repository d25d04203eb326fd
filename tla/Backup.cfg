SPECIFICATION Spec
CONSTANTS
  x1 = x1
  x2 = x2
  p1 = p1
  p2 = p2
  Source = {x1, x2}
  Private = {x1}
  Proposal = {p1, p2}
  SourceOf <- Origin
  Request = {s1, s2}
  MaxNumber = 2
  MaxRows = 3
  MaxWipes = 1
SYMMETRY Interchangeable
INVARIANTS
  TypeOK
  ExportIsReadable
  AllOrNothing
PROPERTIES
  QuietExportIsWhole
CHECK_DEADLOCK FALSE
