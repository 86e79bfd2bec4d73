------------------------ MODULE MCRequirementDelivery ------------------------
(* Model-checking instance of RequirementDelivery.                         *)
EXTENDS RequirementDelivery, TLC

MCSymmetry == Permutations(Requests) \cup Permutations(Relays)
=============================================================================
