SPECIFICATION Spec
CONSTANTS
  Sessions = {s1, s2}
  Demoters = {}
  Users = {u, v, w}
  None = None
SYMMETRY Symmetric
PROPERTY InitialOnce
CHECK_DEADLOCK FALSE
