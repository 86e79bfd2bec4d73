--------------------------- MODULE MockupReporting ---------------------------
(***************************************************************************)
(* The mockup endpoints of apps/server/src/ideation, which a worker calls  *)
(* with the id of an event: the server derives account and session from    *)
(* the queue row (ClaimedEventOwnershipProvider.derive) and then inserts   *)
(* an idea mockup row (RecordMockupUseCase).  The read and the insert are  *)
(* two calls, and the queue goes on between them.  IssueMockupCredential   *)
(* makes the same read and writes nothing.                                 *)
(***************************************************************************)
EXTENDS AgentQueue

CONSTANT MockupCap  \* bound: the count of mockup rows of an event saturates here

ASSUME MockupAssumption == MockupCap \in Nat \ {0}

VARIABLES
  mockups, \* rows recorded per event
  report,  \* per worker: the event its record call was accepted for
  stale    \* history: accepted after the event's lease had run out

mockupVars == <<mockups, report, stale>>
reportingVars == <<queueVars, mockupVars>>

MockupTypeOK ==
  /\ QueueTypeOK
  /\ mockups \in [Events -> 0..MockupCap]
  /\ report \in [Workers -> Events \cup {NoEvent}]
  /\ stale \in [Workers -> BOOLEAN]

MockupInit ==
  /\ QueueInit
  /\ mockups = [e \in Events |-> 0]
  /\ report = [w \in Workers |-> NoEvent]
  /\ stale = [w \in Workers |-> FALSE]

(* Mutant of IsClaimed: a pending event counts.                            *)
IsQueued(e) == queue[e].status \in {"pending", "claimed"}

(* The status predicate of derive; neither the lease nor the caller counts.*)
IsClaimed(e) == queue[e].status = "claimed"

(* A record call for some event passes derive and the prefix check; another*)
(* event, or one that is not claimed, is a 404.                            *)
DeriveOwnership(w, e) ==
  /\ report[w] = NoEvent
  /\ IsClaimed(e)
  /\ report' = [report EXCEPT ![w] = e]
  /\ stale' = [stale EXCEPT ![w] = queue[e].ttl = 0]
  /\ UNCHANGED <<queueVars, mockups>>

RecordMockup(w, e) ==
  /\ report[w] = e
  /\ mockups' = [mockups EXCEPT ![e] = IF @ < MockupCap THEN @ + 1 ELSE @]
  /\ report' = [report EXCEPT ![w] = NoEvent]
  /\ stale' = [stale EXCEPT ![w] = FALSE]
  /\ UNCHANGED queueVars

(* The call dies between its read and its insert.                          *)
RecordFails(w) ==
  /\ report[w] # NoEvent
  /\ report' = [report EXCEPT ![w] = NoEvent]
  /\ stale' = [stale EXCEPT ![w] = FALSE]
  /\ UNCHANGED <<queueVars, mockups>>

MockupNext ==
  \/ QueueNext /\ UNCHANGED mockupVars
  \/ \E w \in Workers, e \in Events : DeriveOwnership(w, e) \/ RecordMockup(w, e)
  \/ \E w \in Workers : RecordFails(w)

MockupSpec == MockupInit /\ [][MockupNext]_reportingVars

(* A mockup, or a report on its way to being one, belongs to an event that *)
(* some poll has handed out: no id a worker can send gets a mockup recorded*)
(* for work that was never claimed, also when the outcome is recorded      *)
(* between the check and the insert.                                       *)
MockupHasClaim ==
  \A e \in Events :
    (mockups[e] > 0 \/ \E w \in Workers : report[w] = e)
      => /\ queue[e].attempts > 0
         /\ queue[e].status \in {"claimed", "done", "failed"}

(* claimed-event-ownership.ts (line 35) says of the status predicate that  *)
(* "pending / done / expired and up for redelivery do not count".  The     *)
(* lease is not looked at.                                                 *)
ReportWithinLease == \A w \in Workers : ~stale[w]
=============================================================================
