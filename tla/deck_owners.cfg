SPECIFICATION Spec
CONSTANTS
  Sessions = {s1, s2}
  Admins = {s1, s2}
  Overwriters = {}
  Cards = {a}
  None = None
  PackSize = 1
  MaxCopies = 2
  MaxRevision = 6
SYMMETRY Symmetric
INVARIANTS ViewCurrent TargetCurrent UndoIsDestroyedNormal GoldenNeverDestroyed KeyedIffInDeck NoOrphans
PROPERTIES ImplementsLedger FrozenWhileDisabled PlaysFinalized
CHECK_DEADLOCK FALSE
