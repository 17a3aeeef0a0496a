CONSTANTS
  None = None
  Torn = Torn
  Operator = "ana"
  Order <- MCOrder
  Specs <- MCSpecs
  Words <- MCWords
  Batches <- MCBatches
  Histories <- MCHistories
  Catalogs <- MCCatalogs
  MaxTold = 3
  MaxBatches = 1
  MaxTears = 1
  MaxCeremonies = 3
  MaxChanges = 1
  Protocol <- MCProtocol
  OwnHashes = FALSE
SPECIFICATION Spec
CHECK_DEADLOCK FALSE
INVARIANTS RecordsWereSigned ApprovalIsNoGamble
PROPERTY AskedForWholePolicies
