SPECIFICATION OutboxSpec
CONSTANTS
  Events = {e1, e2}
  Times = {1, 2}
  Relays = {r1, r2}
  BatchSize = 2
  JobCap = 2
SYMMETRY MCSymmetry
INVARIANTS
  PublishedMeansHandled
  KeyedOnce
  ServedInOrder
  NoSpuriousEffect
CHECK_DEADLOCK FALSE
