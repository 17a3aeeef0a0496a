CONSTANTS
  None = None
  h1 = h1
  h2 = h2
  p1 = p1
  Hooks <- TwoHooks
  Proxied <- NoCalls
  Tenants = {acme, beta}
  MaxRecords = 2
  MaxLaunches = 1
  MaxSwitches = 1
  MaxTimeouts = 0
SPECIFICATION Spec
CHECK_DEADLOCK FALSE
INVARIANTS OutcomeEarned
