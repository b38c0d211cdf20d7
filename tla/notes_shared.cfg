SPECIFICATION Spec
CONSTANTS
  s1 = s1
  s2 = s2
  x = x
  Sessions = {s1, s2}
  Characters = {x}
  Targets <- SharedTargets
  Titles = {n, m}
  Default = n
  Texts = {e, t}
  MaxNotes = 2
  MaxOrder = 1
PROPERTIES ImplementsBook NotesPatchVisible
CHECK_DEADLOCK FALSE
