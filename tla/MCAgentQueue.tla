---------------------------- MODULE MCAgentQueue ----------------------------
(* Model-checking instance of AgentQueue: two workers, two events.  Its run*)
(* checks liveness, so events and workers are not declared symmetric.      *)
EXTENDS AgentQueue
=============================================================================
