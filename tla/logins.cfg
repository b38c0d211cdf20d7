SPECIFICATION FairSpec
CONSTANTS
  Sessions = {s1, s2}
  Browsers = {b}
  MaxAttempts = 2
  Window = 2
  Lifetime = 1
  MaxTokens = 3
  None = None
INVARIANTS OneLive LimitHolds
PROPERTY LockoutEnds
