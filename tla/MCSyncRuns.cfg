SPECIFICATION SyncRunsFairSpec
CONSTANTS
  lixinger = lixinger  futu = futu  eod = eod  chain = chain
  Lanes <- MCLanes
  Dims <- MCDims
  Scheduled <- MCScheduled
  LaneOf <- MCLaneOf
  Jobs <- MCJobs
  Runs <- MCRuns
  NoJob = NoJob  NoRun = NoRun
  RetryMax = 2
  MaxFaults = 1
INVARIANT TickRowsBounded
PROPERTY InterruptedHasTwin
PROPERTY ReportedOutcomeStays
PROPERTY EveryRowCloses
CHECK_DEADLOCK FALSE
