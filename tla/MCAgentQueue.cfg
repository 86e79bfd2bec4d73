SPECIFICATION QueueFairSpec
CONSTANTS
  Events = {e1, e2}
  Workers = {w1, w2}
  NoEvent = NoEvent
  LeaseSeconds = 2
  AttemptsCap = 1
  MaxFaults = 2
INVARIANTS
  ClaimsAreExclusive
  BeliefWithinLease
  LiveClaimExclusive
PROPERTIES
  OutcomeIsFinal
  ImplementsWorkQueue
  EventuallySettled
CHECK_DEADLOCK FALSE
