---------------------------- MODULE PushDispatch ----------------------------
(***************************************************************************)
(* Push delivery of alerts (apps/server/src/alert).  An alert that hits    *)
(* inserts, in its trigger's transaction, one push_delivery row for each   *)
(* device bound to its account.  A dispatch round reads the rows that are  *)
(* due and takes them one by one: it looks the binding up again, calls the *)
(* push gateway outside any transaction, and records what came of it with  *)
(* an update that only touches a row that is still PENDING.                *)
(*                                                                         *)
(* The worker runs one round at a time.  A second round overlaps it when   *)
(* two processes are up (a deployment) or when the job's lock was lost and *)
(* the queue hands the job out again; that, a round that dies, an update   *)
(* that throws and an accepted push whose answer is lost are the faults.   *)
(***************************************************************************)
EXTENDS Naturals, FiniteSetsExt

CONSTANTS
  Accounts, NoAccount,
  Devices,      \* registration ids
  Rows,         \* ids of push_delivery, numbers
  Rounds,       \* rounds that can run at the same time
  MaxAttempts,  \* PUSH_MAX_ATTEMPTS
  Backoff,      \* BACKOFF_MINUTES by attempts, in ticks
  MaxFaults     \* bound: faults in one behaviour

ASSUME PushAssumption ==
  /\ Rows \subseteq Nat
  /\ NoAccount \notin Accounts
  /\ MaxAttempts \in Nat \ {0}
  /\ Backoff \in [1..MaxAttempts -> Nat \ {0}]
  /\ MaxFaults \in Nat

VARIABLES
  binding,   \* push_binding: the account of each registration id
  delivery,  \* the push_delivery table
  round,     \* what each round has read and where it is
  sends,     \* history: gateway calls made for each row
  accepted,  \* history: of those, the ones the gateway accepted
  faults     \* faults so far

vars == <<binding, delivery, round, sends, accepted, faults>>

Statuses ==
  {"none", "PENDING", "SENT", "FAILED", "FAILED_INVALID", "SKIPPED_UNBOUND"}
Results == {"unbound", "ok", "invalid_target", "retryable"}

(* wait is the time left until nextAttemptAt.                              *)
Delivery == [status : Statuses, account : Accounts, device : Devices,
             attempts : 0..MaxAttempts, wait : Nat]
NoDelivery == [status |-> "none"]

(* rows are those still to be taken, snapshot their attempts as read.      *)
Round == [step : {"idle", "check", "send", "mark", "unregister"},
          rows : SUBSET Rows, snapshot : [Rows -> 0..MaxAttempts],
          result : Results \cup {"none"}]
Idle == [step |-> "idle", rows |-> {}, snapshot |-> [d \in Rows |-> 0],
         result |-> "none"]

(* Every variable has its type; a round that runs has rows in hand.        *)
PushTypeOK ==
  /\ binding \in [Devices -> Accounts \cup {NoAccount}]
  /\ \A d \in Rows : delivery[d] \in Delivery \cup {NoDelivery}
  /\ round \in [Rounds -> Round]
  /\ \A r \in Rounds : (round[r].rows = {}) <=> (round[r].step = "idle")
  /\ sends \in [Rows -> Nat] /\ accepted \in [Rows -> Nat]
  /\ faults \in 0..MaxFaults

Init ==
  /\ binding = [v \in Devices |-> NoAccount]
  /\ delivery = [d \in Rows |-> NoDelivery]
  /\ round = [r \in Rounds |-> Idle]
  /\ sends = [d \in Rows |-> 0] /\ accepted = [d \in Rows |-> 0]
  /\ faults = 0

Fault == faults < MaxFaults /\ faults' = faults + 1
history == <<sends, accepted>>
Pending(d) == delivery[d].status = "PENDING"

-----------------------------------------------------------------------------
(* Bindings and rows                                                       *)

(* An app reports its registration id: the binding moves to its account.   *)
UpsertBinding(a, v) ==
  /\ binding' = [binding EXCEPT ![v] = a]
  /\ UNCHANGED <<delivery, round, history, faults>>

(* A logout: only the account's own binding goes.                          *)
DeleteBinding(a, v) ==
  /\ binding[v] = a
  /\ binding' = [binding EXCEPT ![v] = NoAccount]
  /\ UNCHANGED <<delivery, round, history, faults>>

(* An alert hits: the rows are numbered in the order of their devices.     *)
FanOut(a) ==
  LET bound == {v \in Devices : binding[v] = a}
      free  == {d \in Rows : delivery[d] = NoDelivery}
  IN /\ bound # {} /\ Cardinality(bound) <= Cardinality(free)
     /\ \E fresh \in kSubset(Cardinality(bound), free) :
        /\ \A d \in fresh, x \in free \ fresh : d < x
        /\ \E to \in [fresh -> bound] :
             /\ \A d, x \in fresh : d # x => to[d] # to[x]
             /\ delivery' = [d \in Rows |->
                  IF d \notin fresh THEN delivery[d]
                  ELSE [status |-> "PENDING", account |-> a, device |-> to[d],
                        attempts |-> 0, wait |-> 0]]
     /\ UNCHANGED <<binding, round, history, faults>>

-----------------------------------------------------------------------------
(* A round                                                                 *)

(* Mutant of Due: rows of any status, nextAttemptAt as before.             *)
DueAnyStatus == {d \in Rows : delivery[d] # NoDelivery /\ delivery[d].wait = 0}

(* Mutant of Due: a row that was tried is never due again.                 *)
DueUntried == {d \in Rows : Pending(d) /\ delivery[d].attempts = 0}

Due == {d \in Rows : Pending(d) /\ delivery[d].wait = 0}

(* A round over no rows does nothing and is left out.                      *)
StartRound(r) ==
  /\ round[r] = Idle /\ Due # {}
  /\ IF \E x \in Rounds : round[x] # Idle THEN Fault ELSE UNCHANGED faults
  /\ round' = [round EXCEPT ![r] =
       [step |-> "check", rows |-> Due, result |-> "none",
        snapshot |-> [d \in Rows |->
                       IF d \in Due THEN delivery[d].attempts ELSE 0]]]
  /\ UNCHANGED <<binding, delivery, history>>

Head(r) == Min(round[r].rows)

NextRow(r) ==
  LET rest == round[r].rows \ {Head(r)}
  IN round' = [round EXCEPT ![r] =
       IF rest = {} THEN Idle
       ELSE [@ EXCEPT !.step = "check", !.rows = rest, !.result = "none",
                      !.snapshot[Head(r)] = 0]]

(* The trigger row is never deleted, so that its lookup always finds it.   *)
CheckBinding(r) ==
  /\ round[r].step = "check"
  /\ LET d == Head(r)
     IN round' = [round EXCEPT ![r] =
          IF binding[delivery[d].device] = delivery[d].account
          THEN [@ EXCEPT !.step = "send"]
          ELSE [@ EXCEPT !.step = "mark", !.result = "unbound"]]
  /\ UNCHANGED <<binding, delivery, history, faults>>

Answered(r, result) ==
  /\ round[r].step = "send"
  /\ round' = [round EXCEPT ![r].step = "mark", ![r].result = result]
  /\ sends' = [sends EXCEPT ![Head(r)] = @ + 1]
  /\ UNCHANGED <<binding, delivery>>

Send(r) ==
  /\ \E result \in Results \ {"unbound"} :
       /\ Answered(r, result)
       /\ accepted' = IF result # "ok" THEN accepted
                      ELSE [accepted EXCEPT ![Head(r)] = @ + 1]
  /\ UNCHANGED faults

(* The gateway accepts the push and its answer does not arrive: an         *)
(* exception, taken as retryable.                                          *)
AnswerLost(r) ==
  /\ Answered(r, "retryable")
  /\ accepted' = [accepted EXCEPT ![Head(r)] = @ + 1]
  /\ Fault

(* Mutant of nextRetryDecision: one attempt too many.                      *)
RetryOnceMore(prev) ==
  IF prev >= MaxAttempts
  THEN [status |-> "FAILED", attempts |-> MaxAttempts, wait |-> 0]
  ELSE [status |-> "PENDING", attempts |-> prev + 1,
        wait |-> Backoff[prev + 1]]

nextRetryDecision(prev) ==
  IF prev + 1 >= MaxAttempts
  THEN [status |-> "FAILED", attempts |-> prev + 1, wait |-> 0]
  ELSE [status |-> "PENDING", attempts |-> prev + 1,
        wait |-> Backoff[prev + 1]]

Outcome(d, result, prev) ==
  LET row == delivery[d]
      retry == nextRetryDecision(prev)
  IN CASE result = "unbound" -> [row EXCEPT !.status = "SKIPPED_UNBOUND"]
       [] result = "ok"      -> [row EXCEPT !.status = "SENT"]
       [] result = "invalid_target" -> [row EXCEPT !.status = "FAILED_INVALID"]
       [] result = "retryable"      ->
            [row EXCEPT !.status = retry.status, !.attempts = retry.attempts,
                        !.wait = retry.wait]

(* Mutant of markPending: the update is by id alone.                       *)
markAny(d, row) == delivery' = [delivery EXCEPT ![d] = row]

markPending(d, row) ==
  delivery' = [delivery EXCEPT ![d] = IF Pending(d) THEN row ELSE @]

(* The outcome is computed from the attempts the round read.               *)
Mark(r) ==
  /\ round[r].step = "mark"
  /\ LET d == Head(r)
     IN markPending(d, Outcome(d, round[r].result, round[r].snapshot[d]))
  /\ IF round[r].result = "invalid_target"
     THEN round' = [round EXCEPT ![r].step = "unregister"]
     ELSE NextRow(r)
  /\ UNCHANGED <<binding, history, faults>>

(* An invalid registration id is deleted, whoever it is bound to by now.   *)
Unregister(r) ==
  /\ round[r].step = "unregister"
  /\ binding' = [binding EXCEPT ![delivery[Head(r)].device] = NoAccount]
  /\ NextRow(r)
  /\ UNCHANGED <<delivery, history, faults>>

(* A database call throws: the row is left to the next round.              *)
RowThrows(r) ==
  /\ round[r] # Idle /\ round[r].step # "send" /\ Fault
  /\ NextRow(r)
  /\ UNCHANGED <<binding, delivery, history>>

Crash(r) ==
  /\ round[r] # Idle /\ Fault
  /\ round' = [round EXCEPT ![r] = Idle]
  /\ UNCHANGED <<binding, delivery, history>>

Tick ==
  /\ \E d \in Rows : Pending(d) /\ delivery[d].wait > 0
  /\ delivery' = [d \in Rows |-> IF Pending(d) /\ delivery[d].wait > 0
                                 THEN [delivery[d] EXCEPT !.wait = @ - 1]
                                 ELSE delivery[d]]
  /\ UNCHANGED <<binding, round, history, faults>>

RoundStep(r) == CheckBinding(r) \/ Send(r) \/ Mark(r) \/ Unregister(r)

Next ==
  \/ \E a \in Accounts, v \in Devices :
       UpsertBinding(a, v) \/ DeleteBinding(a, v)
  \/ \E a \in Accounts : FanOut(a)
  \/ \E r \in Rounds : StartRound(r) \/ RoundStep(r)
  \/ \E r \in Rounds : AnswerLost(r) \/ RowThrows(r) \/ Crash(r)
  \/ Tick

Spec == Init /\ [][Next]_vars

(* The sweep fires every five minutes, a round that runs goes on, time     *)
(* passes.  Nothing is assumed of the gateway, users or alerts.            *)
FairSpec ==
  /\ Spec
  /\ WF_vars(\E r \in Rounds : StartRound(r))
  /\ \A r \in Rounds : WF_vars(RoundStep(r))
  /\ WF_vars(Tick)

-----------------------------------------------------------------------------
(* Properties                                                              *)

(* A delivery that has ended keeps its status and its count of attempts,   *)
(* whatever a round that read it before still writes.                      *)
EndedStays ==
  [][\A d \in Rows : delivery[d].status \notin {"none", "PENDING"}
                       => delivery'[d] = delivery[d]]_vars

(* PUSH_MAX_ATTEMPTS bounds the calls the gateway sees, not only the       *)
(* counter: each overlap or fault costs one more at most, although a round *)
(* that read an old count sets the counter back.                           *)
SendsBounded == \A d \in Rows : sends[d] <= MaxAttempts + faults

Taken(d) == \E r \in Rounds :
  /\ round[r].rows # {} /\ Head(r) = d
  /\ round[r].step = "mark" /\ round[r].result # "unbound"

(* Without faults the ledger is what happened: no user is pushed the same  *)
(* alert twice, SENT is on exactly the rows the gateway accepted, and every*)
(* call is accounted for by an attempt or by the final status.             *)
LedgerIsTrue ==
  faults = 0 => \A d \in Rows :
    /\ accepted[d] <= 1
    /\ delivery[d].status = "SENT" => accepted[d] = 1
    /\ ~Taken(d) /\ delivery[d] # NoDelivery =>
         /\ accepted[d] = 1 => delivery[d].status = "SENT"
         /\ sends[d] = delivery[d].attempts +
              IF delivery[d].status \in {"SENT", "FAILED_INVALID"}
              THEN 1 ELSE 0

(* Every delivery ends, with a device that never answers, with bindings    *)
(* that come and go, and with rounds that die.                             *)
EveryDeliveryEnds == \A d \in Rows : Pending(d) ~> ~Pending(d)
=============================================================================
