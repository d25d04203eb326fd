SPECIFICATION Spec
CONSTANTS
  User = {u1, u2}
  Key = {k1}
  OwnerToken = owner
  Workspace = {w1, w2}
  Default = w1
  NoSlug = noslug
  Scopes = {{}, {"brain:read"}}
  Request = {s1, s2}
  MaxEvents = 2
SYMMETRY Interchangeable
INVARIANTS
  TypeOK
PROPERTIES
  EndedStaysEnded
  OwnAffairs
CHECK_DEADLOCK FALSE
