SPECIFICATION FairSpec
CONSTANTS
  Capacity = 2
  MaxAttempts = 4
  MaxEvents = 3
  MaxEpochs = 2
  MaxFaults = 2
INVARIANT NothingForgotten
PROPERTY OrderNeverGoesBack
PROPERTY EveryEventArrives
