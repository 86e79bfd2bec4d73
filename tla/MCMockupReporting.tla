-------------------------- MODULE MCMockupReporting --------------------------
(* Model-checking instance of MockupReporting.                             *)
EXTENDS MockupReporting, TLC

MCSymmetry == Permutations(Events) \cup Permutations(Workers)
=============================================================================
