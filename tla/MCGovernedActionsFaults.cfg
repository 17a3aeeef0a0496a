CONSTANTS
  None = None
  Blank = Blank
  Unnamed = ""
  Operator = "ana"
  Agents <- MCAgents
  Humans <- MCHumans
  Classes <- MCClasses
  GrantIds <- MCGrantIds
  Models <- MCModels
  Requests <- FaultRequests
  NewGrants <- OneGrant
  Instants <- AnyInstant
  Issuers <- MCHumans
  L1Classes <- MCL1Classes
  Controlled <- MCControlled
  Allow <- MCAllow
  MaxChain = 4
  MaxCrashes = 1
  MaxFailures = 1
  TornWrites = TRUE
SPECIFICATION Spec
CHECK_DEADLOCK FALSE
INVARIANTS TypeOK WithinBudget MemoryMirrorsDisk AckedSurvives RevocationStands
