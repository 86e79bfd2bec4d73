-------------------------- MODULE MCIdeationSession --------------------------
(* Model-checking instance of IdeationSession.                             *)
EXTENDS IdeationSession, TLC

MCSymmetry == Permutations(Requests)
=============================================================================
