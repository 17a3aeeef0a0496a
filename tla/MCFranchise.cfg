CONSTANTS
  None = None
  Blank = Blank
  AllowanceIds <- MCAllowanceIds
  Principals <- MCPrincipals
  Agents <- MCAgents
  Classes <- MCClasses
  NewAllowances <- MCNewAllowances
  Weights <- MCWeights
  Instants <- MCInstants
  MaxIssues = 2
  MaxChain = 4
  MaxCrashes = 1
  MaxFailures = 1
SPECIFICATION Spec
CHECK_DEADLOCK FALSE
INVARIANTS SpendingMatchesVotes RevocationHolds
