SPECIFICATION FairSpec
CONSTANTS
  Sessions = {s1, s2}
  Characters = {x}
  Catalogue = {i, j, k}
  DrawCount = 2
  None = None
INVARIANT DrawsKept
PROPERTIES DrawnWhileActive LockReleased
