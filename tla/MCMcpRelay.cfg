CONSTANTS
  None = None
  Override = None
  Default = "mcp-client"
  Msgs <- MCMsgs
  Cap = 1
  MaxDeaths = 1
SPECIFICATION FairSpec
CHECK_DEADLOCK FALSE
INVARIANTS NothingUnruled OrderKept JudgedAsItself AnsweredOnce
PROPERTY EveryRequestAnswered
