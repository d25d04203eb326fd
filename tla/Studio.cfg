SPECIFICATION StudioSpec
CONSTANTS
  k1 = k1
  k2 = k2
  Question = {q1, q2}
  Answer = {a1}
  NoAnswer = blank
  Section = {x1, x2, x3}
  Item = {k1, k2}
  Type = {"fact", "lesson"}
  TypeOf <- Kinds
  Request = {s1, s2}
  MaxDocuments = 1
  MaxSources = 2
  MaxEdits = 3
SYMMETRY Interchangeable
INVARIANTS
  StudioTypeOK
  InterviewTold
  SeenRespected
PROPERTIES
  CompletedIsFinal
CHECK_DEADLOCK FALSE
