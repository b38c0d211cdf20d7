SPECIFICATION FairDeploySpec
CONSTANTS
  Characters = {x, y}
  MaxCrashes = 3
  MaxDeploys = 2
INVARIANTS LedgerTruthful OneDefaultTab SuccessIsUpToDate
PROPERTIES BackedUp NewComesUp
CHECK_DEADLOCK FALSE
