SPECIFICATION FairSpec
CONSTANTS
  alice = alice  phone = phone  r1 = r1  r2 = r2
  Accounts = {alice}
  NoAccount = NoAccount
  Devices = {phone}
  Rows <- MCRows
  Rounds = {r1, r2}
  MaxAttempts = 3
  Backoff <- MCBackoff
  MaxFaults = 2
INVARIANT SendsBounded
INVARIANT LedgerIsTrue
PROPERTY EndedStays
PROPERTY EveryDeliveryEnds
CHECK_DEADLOCK FALSE
