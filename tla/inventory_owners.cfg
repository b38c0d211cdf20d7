SPECIFICATION Spec
CONSTANTS
  s1 = s1
  s2 = s2
  x = x
  y = y
  Sessions = {s1, s2}
  Characters = {x, y}
  Targets <- OwnTargets
  Deleters = {s1, s2}
  Names = {n, m}
  Things = {t, u}
  MaxCategories = 2
  MaxItems = 2
  MaxOrder = 1
SYMMETRY Symmetric
INVARIANT NoOrphanItems
PROPERTIES OwnInventoryOnly CreatedLast ImplementsBook
CHECK_DEADLOCK FALSE
