------------------------- MODULE MCAccountSessions --------------------------
EXTENDS AccountSessions, TLC
CONSTANTS r1, r2, phone
MCRequestSymmetry == Permutations({r1, r2})
=============================================================================
