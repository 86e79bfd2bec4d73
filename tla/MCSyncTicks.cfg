SPECIFICATION TicksFairSpec
CONSTANTS
  eod = eod  chain = chain  broken = broken
  lixinger = lixinger  futu = futu  t1 = t1  t2 = t2
  Dims <- MCDims
  Period <- MCPeriod
  BadCron = {broken}
  FireNow = {eod, chain}
  Lanes = {lixinger, futu}
  LaneOf <- MCLaneOf
  Ticks = {t1, t2}
  Never = Never
  MaxTime = 2
  MaxFaults = 1
  MaxResets = 1
INVARIANT ClaimsDoNotOverlap
INVARIANT NothingLostWithoutFault
PROPERTY EveryDueIsClaimed
CHECK_DEADLOCK FALSE
