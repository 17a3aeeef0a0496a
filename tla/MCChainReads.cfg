CONSTANTS
  None = None
  Unrecorded = Unrecorded
  Reverted = Reverted
  Unreachable = Unreachable
  NoResult = NoResult
  Readers = {r1, r2}
  Worlds <- MCWorlds
  Tenants <- MCNodes
  Entitlements <- MCEntitlements
  Counts <- MCCounts
  Tokens <- MCTokens
  BookChain = 40204
  Capacity = 2
  MaxCommands = 2
  MaxFailures = 2
  MaxChanges = 1
SYMMETRY Alike
SPECIFICATION Spec
CHECK_DEADLOCK FALSE
INVARIANTS ReadFailureNeverWidens ShownAsRead TreeAsItStands
