------------------------------ MODULE MCOutbox ------------------------------
(* Model-checking instance of Outbox: two overlapping scans of two rows.   *)
EXTENDS Outbox, TLC

MCSymmetry == Permutations(Events) \cup Permutations(Relays)
=============================================================================
