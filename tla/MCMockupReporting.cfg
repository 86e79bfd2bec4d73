SPECIFICATION MockupSpec
CONSTANTS
  Events = {e1}
  Workers = {w1, w2}
  NoEvent = NoEvent
  LeaseSeconds = 1
  AttemptsCap = 2
  MaxFaults = 1
  MockupCap = 2
SYMMETRY MCSymmetry
INVARIANTS
  MockupHasClaim
CHECK_DEADLOCK FALSE
