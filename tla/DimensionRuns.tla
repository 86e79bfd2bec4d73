--------------------------- MODULE DimensionRuns ---------------------------
(***************************************************************************)
(* What one round of synchronisation promises, whatever queue runs it: the *)
(* dimensions that are due run once each; one that depends on another      *)
(* waits for it, and if the dependency is hard and the other did not       *)
(* succeed, it does not run (sync-flow-assembler.ts, rules 1 and 2).       *)
(***************************************************************************)
CONSTANTS Dims, Modes
VARIABLES mode, won, status

Before(u, d) == u \in won /\ d \in won /\ mode[<<u, d>>] # "none"
Hard(u, d) == u \in won /\ d \in won /\ mode[<<u, d>>] = "hard"
Ended == {"ok", "failed", "dropped"}

Init ==
  /\ mode \in [Dims \X Dims -> Modes]
  /\ won \subseteq Dims
  /\ status = [d \in Dims |-> "waiting"]

Start(d) ==
  /\ d \in won /\ status[d] = "waiting"
  /\ \A u \in Dims : Before(u, d) => status[u] \in Ended
  /\ \A u \in Dims : Hard(u, d) => status[u] = "ok"
  /\ status' = [status EXCEPT ![d] = "running"]

End(d, s) ==
  /\ status[d] = "running"
  /\ status' = [status EXCEPT ![d] = s]

Drop(d) ==
  /\ d \in won /\ status[d] = "waiting"
  /\ \E u \in Dims : Hard(u, d) /\ status[u] \in {"failed", "dropped"}
  /\ status' = [status EXCEPT ![d] = "dropped"]

Next ==
  /\ \E d \in Dims : Start(d) \/ Drop(d) \/ End(d, "ok") \/ End(d, "failed")
  /\ UNCHANGED <<mode, won>>

Spec == Init /\ [][Next]_<<mode, won, status>>
=============================================================================
