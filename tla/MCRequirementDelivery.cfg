SPECIFICATION DeliveryFairSpec
CONSTANTS
  Sessions = {s1}
  Requests = {q1, q2}
  NoRequest = NoRequest
  Repos = {}
  NoRepo = NoRepo
  Times = {1, 2}
  Relays = {r1}
  BatchSize = 1
  JobCap = 1
  Workers = {w1}
  LeaseSeconds = 1
  AttemptsCap = 1
  MaxFaults = 1
INVARIANTS
  BriefForWorker
  OneRowPerRound
PROPERTIES
  ImplementsWorkQueue
  FinalizedIsSettled
CHECK_DEADLOCK FALSE
