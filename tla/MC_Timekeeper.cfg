CONSTANTS
  NTimers = 3
  Period <- MCPeriod
  Requests <- MCRequests
  MaxClk = 40
SPECIFICATION FairSpec
INVARIANTS ExactCharge CountdownInRange NoCycleLost
PROPERTIES AdvanceReturns ServesTimers
\* the clock stops at MaxClk
CHECK_DEADLOCK FALSE
