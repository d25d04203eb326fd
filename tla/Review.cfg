SPECIFICATION Spec
CONSTANTS
  Proposal = {p1}
  Derived = {p1}
  Wording = {w1, w2}
  Request = {s1, s2, s3}
  MaxRevisions = 3
  MaxFaults = 1
SYMMETRY Interchangeable
INVARIANTS
  TypeOK
  ApprovalStands
  HistoryComplete
  RecordLeads
CHECK_DEADLOCK FALSE
