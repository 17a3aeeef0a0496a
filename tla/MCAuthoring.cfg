CONSTANTS
  None = None
  Torn = Torn
  Operator = "ana"
  Order <- MCOrder
  Specs <- MCSpecs
  Words <- MCWords
  Batches <- MCBatches
  Catalogs <- MCCatalogs
  Histories <- MCHistories
  MaxTold = 4
  MaxBatches = 1
  MaxTears = 1
SPECIFICATION AuthoringSpec
CHECK_DEADLOCK FALSE
INVARIANTS EverythingSaidIsKept RulesAreNotSetAside ReplaysAreHonest
