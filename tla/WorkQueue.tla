------------------------------ MODULE WorkQueue ------------------------------
(***************************************************************************)
(* What the agent queue promises, without leases, locks, clocks or worker  *)
(* identities: an event enters the queue once, is handed out any number of *)
(* times while it has no outcome, and gets at most one outcome, only after *)
(* it was handed out, and for good.                                        *)
(***************************************************************************)
CONSTANT Events

VARIABLES
  entered,   \* events that are, or were, in the queue
  handedOut, \* events some poll has returned
  outcome    \* "none" until a worker's result is recorded

Outcomes == {"done", "failed"}

Init ==
  /\ entered = {}
  /\ handedOut = {}
  /\ outcome = [e \in Events |-> "none"]

Enter(e) ==
  /\ e \notin entered
  /\ entered' = entered \cup {e}
  /\ UNCHANGED <<handedOut, outcome>>

HandOut(e) ==
  /\ e \in entered
  /\ outcome[e] = "none"
  /\ handedOut' = handedOut \cup {e}
  /\ UNCHANGED <<entered, outcome>>

Settle(e, o) ==
  /\ e \in handedOut
  /\ outcome[e] = "none"
  /\ outcome' = [outcome EXCEPT ![e] = o]
  /\ UNCHANGED <<entered, handedOut>>

Next ==
  \E e \in Events :
    \/ Enter(e)
    \/ HandOut(e)
    \/ \E o \in Outcomes : Settle(e, o)

Spec == Init /\ [][Next]_<<entered, handedOut, outcome>>
=============================================================================
