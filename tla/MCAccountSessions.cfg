SPECIFICATION Spec
CONSTANTS
  r1 = r1  r2 = r2  phone = phone
  Requests = {r1, r2}
  Phones = {phone}
  NoPhone = NoPhone
  FreezeTicks = 3
  MaxTime = 3
  MaxAccounts = 2
  MaxTokens = 3
  MaxCodes = 2
INVARIANT LedgerBalances
INVARIANT OneSuccessor
INVARIANT AnonymisedHasNoSession
PROPERTY GraceHonoured
SYMMETRY MCRequestSymmetry
CHECK_DEADLOCK FALSE
