SPECIFICATION FairSyncSpec
CONSTANTS
  Contracts = {c, d}
  MaxRevisions = 2
  MaxFailures = 2
  None = None
INVARIANT OnePrPerHead
PROPERTIES AdaptationsKept ContractProposed
