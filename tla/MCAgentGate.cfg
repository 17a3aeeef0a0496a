CONSTANTS
  None = None
  h1 = h1
  h2 = h2
  p1 = p1
  Hooks <- OneHook
  Proxied <- OneProxied
  Tenants = {acme}
  MaxRecords = 2
  MaxLaunches = 2
  MaxSwitches = 0
  MaxTimeouts = 1
SPECIFICATION FairSpec
CHECK_DEADLOCK FALSE
INVARIANTS RuledOnce TokenCurrent
PROPERTIES GovernedOnceInstalled EveryCallEnds AnswerReachesAgent
