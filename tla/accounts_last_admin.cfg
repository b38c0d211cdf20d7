SPECIFICATION Spec
CONSTANTS
  Sessions = {s1, s2, s3}
  Demoters = {s1, s2}
  Users = {u, v, w}
  None = None
SYMMETRY Symmetric
INVARIANT SomeAdmin
CHECK_DEADLOCK FALSE
