CONSTANTS
  None = None
  Blank = Blank
  Unnamed = ""
  Operator = "ana"
  Agents <- MCAgents
  Humans <- MCHumans
  Classes <- MCClasses
  GrantIds <- MCGrantIds
  Models <- MCModels
  Requests <- MCRequests
  NewGrants <- MCNewGrants
  Instants <- MCInstants
  Issuers <- MCHumans
  L1Classes <- MCL1Classes
  Controlled <- MCControlled
  Allow <- MCAllow
  MaxChain = 5
  MaxCrashes = 0
  MaxFailures = 0
  TornWrites = FALSE
SPECIFICATION Spec
CHECK_DEADLOCK FALSE
INVARIANTS BudgetBalanced StatusHonest ApprovedWasAsked EveryDecisionProvable
PROPERTIES KeepsDecisionBook
