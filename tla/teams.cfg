SPECIFICATION Spec
CONSTANTS
  Sessions = {s1, s2}
  Users = {admin, u}
  Admin = admin
  Characters = {x, y}
  Teams = {t}
  Slugs = {f, g, h}
  MaxChanges = 2
  None = None
SYMMETRY Symmetric
INVARIANTS ShownWasVisible HiddenWasInvisible WrittenByOwner AnsweredMembership PatchedIsAnswered
