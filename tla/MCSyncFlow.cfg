SPECIFICATION FlowFairSpec
CONSTANTS
  Keys <- MCKeys
  Priorities <- MCPriorities
INVARIANT RefusedForCause
PROPERTY ImplementsDimensionRuns
PROPERTY EveryWonDimensionSettles
CHECK_DEADLOCK FALSE
