SPECIFICATION Spec
CONSTANTS
  Sessions = {s1, s2}
  Admins = {s1, s2}
  Overwriters = {s1, s2}
  Cards = {a}
  None = None
  PackSize = 1
  MaxCopies = 2
  MaxRevision = 6
SYMMETRY Symmetric
PROPERTY FrozenWhileDisabled
CHECK_DEADLOCK FALSE
