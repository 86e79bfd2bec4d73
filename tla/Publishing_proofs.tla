-------------------------- MODULE Publishing_proofs --------------------------
(***************************************************************************)
(* Proofs about the two components that publish a requirement,             *)
(* IdeationSession and Outbox, for any number of sessions, requests,       *)
(* events and overlapping scans and for any batch size.  The two share     *)
(* nothing here; RequirementDelivery_proofs puts them together.            *)
(*                                                                         *)
(* Sessions.  Exactly-once finalisation needs to know that a request       *)
(* publishes at most once, at its end, and for a round its session has     *)
(* reached (PublishedInThePast); that a session keeps the user turn of     *)
(* every stream that is still open until it is deleted (StreamHasQuestion) *)
(* is what puts an answer after its question (AnswersInOrder).             *)
(*                                                                         *)
(* Outbox.  That a published row has been handled follows from what a scan *)
(* knows of the row it is at (ScanProgress): every subscriber before its   *)
(* position has handled the row.  For that the row it is at must be one and*)
(* the same until it is dropped, which takes distinct creation times       *)
(* (RowsOrdered) and a batch of rows that exist.                           *)
(***************************************************************************)
EXTENDS IdeationSession, Outbox, SequenceTheorems, TLAPS

-----------------------------------------------------------------------------
(* Sessions                                                                *)

(* Writing one session's status keeps the table of sessions well typed.    *)
LEMMA StatusUpdate ==
  ASSUME NEW f \in [Sessions -> [status: Statuses, repo: Repos \cup {NoRepo}]],
         NEW s \in Sessions, NEW v \in Statuses
  PROVE  [f EXCEPT ![s] = [f[s] EXCEPT !.status = v]]
           \in [Sessions -> [status: Statuses, repo: Repos \cup {NoRepo}]]
  <1>1. f[s] \in [status: Statuses, repo: Repos \cup {NoRepo}]
    OBVIOUS
  <1>2. [f[s] EXCEPT !.status = v] \in [status: Statuses, repo: Repos \cup {NoRepo}]
    BY <1>1
  <1> QED BY <1>2

PublishedInThePast ==
  \A r \in Requests : published[r] # 0 =>
    /\ request[r].at = "done"
    /\ published[r] <= round[request[r].on]
    /\ Status(request[r].on) # "absent"

RoundStarts == \A s \in Sessions : Status(s) = "absent" <=> round[s] = 0

Asked(r, s) ==
  \E i \in 1..Len(turns[s]) : turns[s][i] = [by |-> r, role |-> "user"]

StreamHasQuestion ==
  \A r \in Requests, s \in Sessions :
    (Status(s) # "deleted" /\ request[r].on = s /\ request[r].op = "clarify"
       /\ request[r].at \in {"asked", "streaming"}) => Asked(r, s)

AnswersInOrder ==
  \A s \in Sessions : Status(s) # "deleted" =>
    \A j \in 1..Len(turns[s]) :
      turns[s][j].role = "assistant" =>
        \E i \in 1..(j - 1) : turns[s][i] = [by |-> turns[s][j].by, role |-> "user"]

AtMostOnce ==
  \A q, r \in Requests :
    (published[q] # 0 /\ published[q] = published[r]
       /\ request[q].on = request[r].on) => q = r

HasEvent(s, k) == \E r \in Requests : request[r].on = s /\ published[r] = k

EveryRound ==
  \A s \in Sessions :
    /\ \A k \in 1..round[s] :
         k < round[s] \/ Status(s) \in FINALISED => HasEvent(s, k)
    /\ Status(s) = "open" => ~HasEvent(s, round[s])

SessionInv ==
  /\ IdeationTypeOK
  /\ RoundStarts
  /\ PublishedInThePast
  /\ AtMostOnce
  /\ EveryRound
  /\ ConvergedHasDraft
  /\ StreamHasQuestion
  /\ AnswersInOrder

(* The two halves of FinalizedOncePerRound, without the set of rounds.     *)
LEMMA OncePerRound == FinalizedOncePerRound <=> AtMostOnce /\ EveryRound
  BY DEF FinalizedOncePerRound, AtMostOnce, EveryRound, HasEvent

-----------------------------------------------------------------------------
(* No session exists and no request runs: the invariant holds.             *)
LEMMA SessionInitInv == IdeationInit => SessionInv
  <1> SUFFICES ASSUME IdeationInit PROVE SessionInv
    OBVIOUS
  <1> USE DEF IdeationInit
  <1>1. SomeSession \in Sessions
    BY IdeationAssumption DEF SomeSession
  <1>2. /\ \A s \in Sessions : Status(s) = "absent" /\ round[s] = 0 /\ turns[s] = <<>>
        /\ \A r \in Requests : request[r].at = "idle" /\ published[r] = 0
    BY DEF Status, NewRequest
  <1>3. IdeationTypeOK
    <2>1. [NewRequest("clarify", SomeSession, FALSE) EXCEPT !.at = "idle"] \in Request
      BY <1>1 DEF NewRequest, Request, Phases
    <2>2. <<>> \in Seq(Turn)
      OBVIOUS
    <2> QED BY <2>1, <2>2 DEF IdeationTypeOK, Statuses
  <1>4. RoundStarts /\ PublishedInThePast /\ AtMostOnce
    BY <1>2 DEF RoundStarts, PublishedInThePast, AtMostOnce
  <1>5. EveryRound /\ ConvergedHasDraft
    BY <1>2 DEF EveryRound, ConvergedHasDraft, FINALISED
  <1>6. StreamHasQuestion /\ AnswersInOrder
    <2>1. \A s \in Sessions : Len(turns[s]) = 0
      BY <1>2
    <2>2. AnswersInOrder
      BY <2>1 DEF AnswersInOrder
    <2>3. StreamHasQuestion
      BY <1>2 DEF StreamHasQuestion
    <2> QED BY <2>2, <2>3
  <1> QED BY <1>3, <1>4, <1>5, <1>6 DEF SessionInv

(* A step that moves one request along and touches no table: the first read*)
(* of a handler, a read, the uncommitted half of a delete, an abandoned    *)
(* request.                                                                *)
LEMMA RequestOnlyInv ==
  ASSUME SessionInv, NEW r \in Requests, NEW x \in Request,
         request' = [request EXCEPT ![r] = x],
         request[r].at # "done",
         x.op = "clarify" /\ x.at \in {"asked", "streaming"} =>
           /\ request[r].op = "clarify" /\ request[r].at \in {"asked", "streaming"}
           /\ x.on = request[r].on,
         UNCHANGED <<session, round, turns, draft, images, published>>
  PROVE  SessionInv'
  <1> USE DEF SessionInv
  <1>1. IdeationTypeOK'
    BY DEF IdeationTypeOK
  <1>2. published[r] = 0
    BY DEF PublishedInThePast
  <1>3. /\ request'[r] = x
        /\ \A q \in Requests : q # r => request'[q] = request[q]
    BY DEF IdeationTypeOK
  <1>4. RoundStarts' /\ ConvergedHasDraft'
    BY DEF RoundStarts, ConvergedHasDraft, Status
  <1>5. PublishedInThePast' /\ AtMostOnce'
    BY <1>2, <1>3 DEF PublishedInThePast, AtMostOnce, Status
  <1>6. \A s \in Sessions, k \in Nat \ {0} : HasEvent(s, k)' <=> HasEvent(s, k)
    BY <1>2, <1>3 DEF HasEvent
  <1>7. EveryRound'
    <2>1. \A s \in Sessions : round[s] \in Nat /\ (Status(s) = "open" => round[s] # 0)
      BY DEF IdeationTypeOK, RoundStarts
    <2> QED BY <1>6, <2>1 DEF EveryRound, Status
  <1>8. StreamHasQuestion'
    BY <1>3 DEF StreamHasQuestion, Asked, Status
  <1>9. AnswersInOrder'
    BY DEF AnswersInOrder, Status
  <1> QED BY <1>1, <1>4, <1>5, <1>7, <1>8, <1>9

(* Creating, reopening, choosing a repository: the rows of the session     *)
(* table and the round move, no request does.                              *)
LEMMA CreateInv ==
  ASSUME SessionInv, NEW s \in Sessions, CreateSession(s)
  PROVE  SessionInv'
  <1> USE DEF SessionInv, CreateSession, SetStatus
  <1>1. IdeationTypeOK'
    BY DEF IdeationTypeOK, Statuses
  <1>2. /\ Status(s)' = "open" /\ round[s] = 0 /\ round'[s] = 1
        /\ \A t \in Sessions \ {s} : Status(t)' = Status(t) /\ round'[t] = round[t]
        /\ \A t \in Sessions : round[t] \in Nat
    BY DEF IdeationTypeOK, Status, RoundStarts
  <1>3. \A r \in Requests : request[r].on = s => published[r] = 0
    BY DEF PublishedInThePast
  <1>4. RoundStarts' /\ ConvergedHasDraft'
    BY <1>2 DEF RoundStarts, ConvergedHasDraft, FINALISED
  <1>5. PublishedInThePast' /\ AtMostOnce'
    BY <1>2, <1>3 DEF PublishedInThePast, AtMostOnce, IdeationTypeOK, Request
  <1>6. EveryRound'
    BY <1>2, <1>3 DEF EveryRound, HasEvent, FINALISED
  <1>7. StreamHasQuestion' /\ AnswersInOrder'
    BY <1>2 DEF StreamHasQuestion, AnswersInOrder, Asked
  <1> QED BY <1>1, <1>4, <1>5, <1>6, <1>7

(* Reopening a finalised session starts a round that has no event yet.     *)
LEMMA ReopenInv ==
  ASSUME SessionInv, NEW s \in Sessions, ReopenSession(s)
  PROVE  SessionInv'
  <1> USE DEF SessionInv, ReopenSession, SetStatus
  <1>1. IdeationTypeOK'
    <2>1. round' \in [Sessions -> Nat]
      BY DEF IdeationTypeOK
    <2>2. session' \in [Sessions -> [status: Statuses, repo: Repos \cup {NoRepo}]]
      <3>1. session \in [Sessions -> [status: Statuses, repo: Repos \cup {NoRepo}]]
        BY DEF IdeationTypeOK
      <3>2. "open" \in Statuses
        BY DEF Statuses
      <3>3. session' = [session EXCEPT ![s] = [session[s] EXCEPT !.status = "open"]]
        BY <3>1
      <3> QED BY <3>1, <3>2, <3>3, StatusUpdate
    <2> QED BY <2>1, <2>2 DEF IdeationTypeOK
  <1>2. /\ Status(s) \in FINALISED /\ Status(s)' = "open" /\ round'[s] = round[s] + 1
        /\ \A t \in Sessions \ {s} : Status(t)' = Status(t) /\ round'[t] = round[t]
        /\ \A t \in Sessions : round[t] \in Nat
    BY DEF IdeationTypeOK, Status
  <1>3. \A r \in Requests : published[r] \in Nat /\ request[r].on \in Sessions
    BY DEF IdeationTypeOK, Request
  <1>4. \A r \in Requests : request[r].on = s => published[r] # round[s] + 1
    BY <1>2, <1>3 DEF PublishedInThePast
  <1>5. RoundStarts' /\ ConvergedHasDraft'
    BY <1>2 DEF RoundStarts, ConvergedHasDraft, FINALISED
  <1>6. PublishedInThePast' /\ AtMostOnce'
    BY <1>2, <1>3 DEF PublishedInThePast, AtMostOnce
  <1>7. EveryRound'
    <2>1. \A t \in Sessions, k \in Nat : HasEvent(t, k)' = HasEvent(t, k)
      BY DEF HasEvent
    <2>2. ~HasEvent(s, round[s] + 1)
      BY <1>4 DEF HasEvent
    <2>3. \A k \in 1..(round[s] + 1) : k < round[s] + 1 => HasEvent(s, k)
      BY <1>2 DEF EveryRound
    <2>4. "open" \notin FINALISED
      BY DEF FINALISED
    <2>5. ASSUME NEW t \in Sessions
          PROVE  /\ \A k \in 1..round'[t] :
                      k < round'[t] \/ Status(t)' \in FINALISED => HasEvent(t, k)
                 /\ Status(t)' = "open" => ~HasEvent(t, round'[t])
      <3>1. CASE t = s
        BY <1>2, <2>2, <2>3, <2>4, <3>1
      <3>2. CASE t # s
        BY <1>2, <3>2 DEF EveryRound
      <3> QED BY <3>1, <3>2
    <2> QED BY <1>2, <2>1, <2>5 DEF EveryRound, HasEvent
  <1>8. StreamHasQuestion' /\ AnswersInOrder'
    BY <1>2 DEF StreamHasQuestion, AnswersInOrder, Asked, FINALISED
  <1> QED BY <1>1, <1>5, <1>6, <1>7, <1>8

(* Statuses may move as a session's export or repository choice moves them:*)
(* nothing is published, and finalised sessions stay finalised.            *)
LEMMA SessionOnlyInv ==
  ASSUME SessionInv,
         session' \in [Sessions -> [status: Statuses, repo: Repos \cup {NoRepo}]],
         \A s \in Sessions : \/ Status(s)' = Status(s)
                             \/ Status(s) \in FINALISED /\ Status(s)' \in FINALISED,
         request' \in [Requests -> Request],
         \/ UNCHANGED request
         \/ \E r \in Requests :
              /\ request[r].at = "rendering"
              /\ request'[r].on = request[r].on /\ request'[r].at = "done"
              /\ \A q \in Requests \ {r} : request'[q] = request[q],
         UNCHANGED <<round, turns, draft, images, published>>
  PROVE  SessionInv'
  <1> USE DEF SessionInv
  <1>1. IdeationTypeOK'
    BY DEF IdeationTypeOK
  <1>2. \A q \in Requests : /\ request'[q].on = request[q].on
                            /\ published[q] # 0 => request'[q].at = "done"
                            /\ request'[q].at \in {"asked", "streaming"} =>
                                 request'[q] = request[q]
    BY DEF PublishedInThePast
  <1>3. \A s \in Sessions :
          /\ (Status(s)' = "absent") <=> (Status(s) = "absent")
          /\ (Status(s)' = "deleted") <=> (Status(s) = "deleted")
          /\ (Status(s)' = "open") <=> (Status(s) = "open")
          /\ (Status(s)' \in FINALISED) <=> (Status(s) \in FINALISED)
    BY DEF FINALISED
  <1>4. RoundStarts' /\ ConvergedHasDraft'
    BY <1>3 DEF RoundStarts, ConvergedHasDraft
  <1>5. PublishedInThePast' /\ AtMostOnce'
    BY <1>2, <1>3 DEF PublishedInThePast, AtMostOnce, IdeationTypeOK, Request
  <1>6. EveryRound'
    BY <1>2, <1>3 DEF EveryRound, HasEvent
  <1>7. StreamHasQuestion' /\ AnswersInOrder'
    BY <1>2, <1>3 DEF StreamHasQuestion, AnswersInOrder, Asked
  <1> QED BY <1>1, <1>4, <1>5, <1>6, <1>7

(* The race of generates: one that finds the session open publishes for the*)
(* round, which has no event yet; any other publishes nothing.             *)
LEMMA GenerateInv ==
  ASSUME SessionInv, NEW r \in Requests, NEW s \in Sessions, request[r].on = s,
         GenerateCommit(r)
  PROVE  SessionInv'
  <1> DEFINE won == Status(s) = "open"
  <1> USE DEF SessionInv, GenerateCommit
  <1>1. request[r] \in Request /\ request[r].op = "generate"
        /\ request[r].at = "checked" /\ published[r] = 0
    BY DEF IdeationTypeOK, Request, Running, PublishedInThePast
  <1>2. /\ request' \in [Requests -> Request]
        /\ request'[r].on = s /\ request'[r].at = "done" /\ request'[r].op = "generate"
        /\ \A q \in Requests \ {r} : request'[q] = request[q]
    BY <1>1 DEF Finish, Request, Phases, IdeationTypeOK
  <1>3. /\ session' \in [Sessions -> [status: Statuses, repo: Repos \cup {NoRepo}]]
        /\ Status(s)' = IF won THEN "converged" ELSE Status(s)
        /\ \A t \in Sessions : t # s => Status(t)' = Status(t)
    <2> DEFINE v == IF won THEN "converged" ELSE session[s].status
    <2>1. session \in [Sessions -> [status: Statuses, repo: Repos \cup {NoRepo}]]
      BY DEF IdeationTypeOK
    <2>2. session' = [session EXCEPT ![s] = [session[s] EXCEPT !.status = v]]
      BY <2>1
    <2>3. v \in Statuses
      BY <2>1 DEF Statuses, FINALISED
    <2>4. session' \in [Sessions -> [status: Statuses, repo: Repos \cup {NoRepo}]]
      <3> HIDE DEF v
      <3> QED BY <2>1, <2>2, <2>3, StatusUpdate
    <2>5. session'[s].status = v /\ \A t \in Sessions : t # s => session'[t] = session[t]
      BY <2>1, <2>2
    <2> QED BY <2>4, <2>5 DEF Status
  <1>4. /\ published' \in [Requests -> Nat]
        /\ published'[r] = IF won THEN round[s] ELSE 0
        /\ \A q \in Requests \ {r} : published'[q] = published[q]
    BY <1>1 DEF IdeationTypeOK
  <1>5. /\ draft' \in [Sessions -> Requests \cup {NoRequest}]
        /\ draft'[s] = r /\ \A t \in Sessions : t # s => draft'[t] = draft[t]
    BY <1>1 DEF IdeationTypeOK
  <1>6. IdeationTypeOK'
    BY <1>2, <1>3, <1>4, <1>5 DEF IdeationTypeOK
  <1>7. RoundStarts'
    BY <1>1, <1>3 DEF RoundStarts
  <1>8. ConvergedHasDraft'
    BY <1>1, <1>3, <1>5, IdeationAssumption DEF ConvergedHasDraft
  <1>9. PublishedInThePast'
    <2> SUFFICES ASSUME NEW q \in Requests, published'[q] # 0
                 PROVE  /\ request'[q].at = "done"
                        /\ published'[q] <= round[request'[q].on]
                        /\ Status(request[q].on)' # "absent"
      BY DEF PublishedInThePast
    <2>1. CASE q = r
      BY <1>1, <1>2, <1>3, <1>4, <2>1 DEF IdeationTypeOK
    <2>2. CASE q # r
      <3>1. request[q].on \in Sessions
        BY DEF IdeationTypeOK, Request
      <3> QED BY <1>2, <1>3, <1>4, <2>2, <3>1 DEF PublishedInThePast
    <2> QED BY <2>1, <2>2
  <1>10. won => \A q \in Requests : request[q].on = s => published[q] # round[s]
    BY <1>1 DEF EveryRound, HasEvent
  <1>11. AtMostOnce'
    BY <1>2, <1>4, <1>10 DEF AtMostOnce
  <1>12. EveryRound'
    <2>1. won => HasEvent(s, round[s])'
      BY <1>2, <1>4 DEF HasEvent
    <2>2. ASSUME NEW t \in Sessions, NEW k \in Nat \ {0},
                 HasEvent(t, k)' \/ HasEvent(t, k), ~(won /\ t = s /\ k = round[s])
          PROVE  HasEvent(t, k)' /\ HasEvent(t, k)
      BY <1>1, <1>2, <1>4, <2>2 DEF HasEvent
    <2>3. "converged" \in FINALISED /\ "converged" # "open" /\ "open" \notin FINALISED
      BY DEF FINALISED
    <2>4. \A t \in Sessions : round[t] \in Nat /\ (Status(t) = "open" => round[t] # 0)
      BY DEF RoundStarts, IdeationTypeOK
    <2>5. ASSUME NEW t \in Sessions
          PROVE  /\ \A k \in 1..round[t] :
                      k < round[t] \/ Status(t)' \in FINALISED => HasEvent(t, k)'
                 /\ Status(t)' = "open" => ~HasEvent(t, round[t])'
      <3>1. CASE won /\ t = s
        BY <1>1, <1>3, <2>1, <2>2, <2>3, <2>4, <3>1 DEF EveryRound
      <3>2. CASE ~(won /\ t = s)
        <4>1. Status(t)' = Status(t)
          BY <1>3, <3>2
        <4> QED BY <2>2, <2>4, <3>2, <4>1 DEF EveryRound
      <3> QED BY <3>1, <3>2
    <2> QED BY <2>5 DEF EveryRound
  <1>13. StreamHasQuestion' /\ AnswersInOrder'
    BY <1>1, <1>2, <1>3 DEF StreamHasQuestion, AnswersInOrder, Asked
  <1> QED BY <1>6, <1>7, <1>8, <1>9, <1>11, <1>12, <1>13

(* A turn is appended: the turns before it keep their places, a user turn  *)
(* adds no obligation, and an assistant turn has its question before it.   *)
LEMMA AppendInv ==
  ASSUME SessionInv, NEW r \in Requests, NEW s \in Sessions, NEW turn \in Turn,
         request[r].on = s, request[r].op = "clarify",
         turns' = [turns EXCEPT ![s] = Append(@, turn)],
         \/ /\ turn = [by |-> r, role |-> "user"] /\ request[r].at = "checked"
            /\ request' = [request EXCEPT ![r].at = "asked"]
         \/ /\ turn = [by |-> r, role |-> "assistant"] /\ request[r].at = "streaming"
            /\ request' = [request EXCEPT ![r].at = "done"],
         images' \in [Sessions -> SUBSET Requests],
         UNCHANGED <<session, round, draft, published>>
  PROVE  SessionInv'
  <1> USE DEF SessionInv
  <1> DEFINE n == Len(turns[s])
  <1>1. /\ turns[s] \in Seq(Turn) /\ n \in Nat /\ Len(turns'[s]) = n + 1
        /\ turns' \in [Sessions -> Seq(Turn)]
        /\ turns'[s][n + 1] = turn /\ \A i \in 1..n : turns'[s][i] = turns[s][i]
        /\ \A t \in Sessions : t # s => turns'[t] = turns[t]
    BY DEF IdeationTypeOK
  <1>2. /\ request' \in [Requests -> Request]
        /\ request'[r].at \in {"asked", "done"}
        /\ \A q \in Requests : q # r => request'[q] = request[q]
        /\ \A q \in Requests : request'[q].on = request[q].on /\ request'[q].op = request[q].op
    <2>1. PICK p \in {"asked", "done"} :
            request' = [request EXCEPT ![r] = [request[r] EXCEPT !.at = p]]
      BY DEF IdeationTypeOK
    <2>2. [request[r] EXCEPT !.at = p] \in Request
      <3>1. request[r] \in Request /\ p \in Phases
        BY DEF IdeationTypeOK, Phases
      <3> QED BY <3>1 DEF Request
    <2>3. /\ [request[r] EXCEPT !.at = p].at = p
          /\ [request[r] EXCEPT !.at = p].on = request[r].on
          /\ [request[r] EXCEPT !.at = p].op = request[r].op
      BY DEF IdeationTypeOK, Request
    <2> QED BY <2>1, <2>2, <2>3 DEF IdeationTypeOK
  <1>3. IdeationTypeOK'
    BY <1>1, <1>2 DEF IdeationTypeOK
  <1>4. published[r] = 0
    BY DEF PublishedInThePast
  <1>5. RoundStarts' /\ ConvergedHasDraft' /\ AtMostOnce' /\ EveryRound'
    BY <1>2 DEF RoundStarts, ConvergedHasDraft, AtMostOnce, EveryRound, HasEvent, Status
  <1>6. PublishedInThePast'
    BY <1>2, <1>4 DEF PublishedInThePast, Status
  <1>7. \A q \in Requests, t \in Sessions : Asked(q, t) => Asked(q, t)'
    <2> SUFFICES ASSUME NEW q \in Requests, NEW t \in Sessions,
                        NEW i \in 1..Len(turns[t]), turns[t][i] = [by |-> q, role |-> "user"]
                 PROVE  \E j \in 1..Len(turns'[t]) :
                          turns'[t][j] = [by |-> q, role |-> "user"]
      BY DEF Asked
    <2>1. i \in 1..Len(turns'[t]) /\ turns'[t][i] = turns[t][i]
      BY <1>1
    <2> QED BY <2>1
  <1>8. StreamHasQuestion'
    <2> SUFFICES ASSUME NEW q \in Requests, NEW t \in Sessions,
                        Status(t) # "deleted", request'[q].on = t,
                        request'[q].op = "clarify", request'[q].at \in {"asked", "streaming"}
                 PROVE  Asked(q, t)'
      BY DEF StreamHasQuestion, Status
    <2>1. CASE q = r
      <3>1. turn = [by |-> r, role |-> "user"] /\ t = s
        BY <1>2, <2>1 DEF IdeationTypeOK, Request
      <3>2. n + 1 \in 1..Len(turns'[s]) /\ turns'[s][n + 1] = [by |-> r, role |-> "user"]
        BY <1>1, <3>1
      <3> QED BY <2>1, <3>1, <3>2 DEF Asked
    <2>2. CASE q # r
      BY <1>2, <1>7, <2>2 DEF StreamHasQuestion
    <2> QED BY <2>1, <2>2
  <1>9. AnswersInOrder'
    <2> SUFFICES ASSUME NEW t \in Sessions, Status(t) # "deleted",
                        NEW j \in 1..Len(turns'[t]), turns'[t][j].role = "assistant"
                 PROVE  \E i \in 1..(j - 1) :
                          turns'[t][i] = [by |-> turns'[t][j].by, role |-> "user"]
      BY DEF AnswersInOrder, Status
    <2>1. CASE t # s
      BY <1>1, <2>1 DEF AnswersInOrder
    <2>2. CASE t = s /\ j \in 1..n
      <3>1. turns'[s][j] = turns[s][j]
        BY <1>1, <2>2
      <3>2. PICK i \in 1..(j - 1) : turns[s][i] = [by |-> turns[s][j].by, role |-> "user"]
        BY <2>2, <3>1 DEF AnswersInOrder
      <3>3. turns'[s][i] = turns[s][i]
        BY <1>1, <2>2, <3>2
      <3> QED BY <2>2, <3>1, <3>2, <3>3
    <2>3. CASE t = s /\ j = n + 1
      <3>1. turn = [by |-> r, role |-> "assistant"] /\ request[r].at = "streaming"
        BY <1>1, <2>3
      <3>2. Asked(r, s)
        BY <2>3, <3>1 DEF StreamHasQuestion
      <3>3. PICK i \in 1..n : turns[s][i] = [by |-> r, role |-> "user"]
        BY <3>2 DEF Asked
      <3>4. turns'[s][i] = [by |-> turns'[s][j].by, role |-> "user"] /\ i \in 1..(j - 1)
        BY <1>1, <2>3, <3>1, <3>3
      <3> QED BY <2>3, <3>4
    <2> QED BY <1>1, <2>1, <2>2, <2>3
  <1> QED BY <1>3, <1>5, <1>6, <1>8, <1>9

(* A delete that finds the row takes the session out of every obligation;  *)
(* one that does not is rolled back.                                       *)
LEMMA DeleteCommitInv ==
  ASSUME SessionInv, NEW r \in Requests, NEW s \in Sessions, request[r].on = s,
         DeleteCommit(r)
  PROVE  SessionInv'
  <1> DEFINE won == Live(s)
  <1> USE DEF SessionInv, DeleteCommit
  <1>1. request[r] \in Request /\ request[r].at = "purging" /\ published[r] = 0
    BY DEF IdeationTypeOK, Running, PublishedInThePast
  <1>2. /\ request' \in [Requests -> Request]
        /\ request'[r].on = s /\ request'[r].at = "done"
        /\ \A q \in Requests \ {r} : request'[q] = request[q]
    BY <1>1 DEF Finish, Request, Phases, IdeationTypeOK
  <1>3. /\ session' \in [Sessions -> [status: Statuses, repo: Repos \cup {NoRepo}]]
        /\ won => Status(s)' = "deleted" /\ Status(s) \in {"open"} \cup FINALISED
        /\ \A t \in Sessions : t # s \/ ~won => Status(t)' = Status(t)
    <2>1. session \in [Sessions -> [status: Statuses, repo: Repos \cup {NoRepo}]]
      BY DEF IdeationTypeOK
    <2>2. session' = [session EXCEPT ![s] =
                        [session[s] EXCEPT !.status = IF won THEN "deleted" ELSE @]]
      BY <2>1
    <2>3. "deleted" \in Statuses
      BY DEF Statuses
    <2>4. [session[s] EXCEPT !.status = IF won THEN "deleted" ELSE @]
            \in [status: Statuses, repo: Repos \cup {NoRepo}]
      BY <2>1, <2>3
    <2>5. session' \in [Sessions -> [status: Statuses, repo: Repos \cup {NoRepo}]]
      BY <2>1, <2>2, <2>4
    <2>6. \A t \in Sessions : t # s => session'[t] = session[t]
      BY <2>1, <2>2
    <2>7. session'[s].status = IF won THEN "deleted" ELSE session[s].status
      BY <2>1, <2>2
    <2> QED BY <2>5, <2>6, <2>7 DEF Status, Live
  <1>4. /\ turns' \in [Sessions -> Seq(Turn)]
        /\ \A t \in Sessions : t # s \/ ~won => turns'[t] = turns[t]
    <2>1. turns[s] \in Seq(Turn) /\ request[r].purged \in Nat
      BY <1>1 DEF IdeationTypeOK, Request
    <2>2. \A i \in (request[r].purged + 1)..Len(turns[s]) : turns[s][i] \in Turn
      BY <2>1
    <2>3. SubSeq(turns[s], request[r].purged + 1, Len(turns[s])) \in Seq(Turn)
      BY <2>1, <2>2, SubSeqProperties
    <2> QED BY <2>1, <2>3 DEF IdeationTypeOK
  <1>5. /\ draft' \in [Sessions -> Requests \cup {NoRequest}]
        /\ \A t \in Sessions : t # s \/ ~won => draft'[t] = draft[t]
    BY DEF IdeationTypeOK
  <1>6. IdeationTypeOK'
    BY <1>2, <1>3, <1>4, <1>5 DEF IdeationTypeOK
  <1>7. "deleted" \notin FINALISED /\ "absent" \notin FINALISED
    BY DEF FINALISED
  <1>8. RoundStarts' /\ ConvergedHasDraft'
    BY <1>3, <1>5, <1>7 DEF RoundStarts, ConvergedHasDraft
  <1>9. PublishedInThePast'
    <2>1. \A q \in Requests : request[q].on \in Sessions /\ request'[q].on = request[q].on
      BY <1>2 DEF IdeationTypeOK, Request
    <2>2. \A t \in Sessions : Status(t)' = "absent" => Status(t) = "absent"
      BY <1>3
    <2> QED BY <1>1, <1>2, <2>1, <2>2 DEF PublishedInThePast, Status
  <1>10. AtMostOnce'
    BY <1>1, <1>2 DEF AtMostOnce
  <1>11. EveryRound'
    <2>1. \A t \in Sessions, k \in Nat : HasEvent(t, k)' <=> HasEvent(t, k)
      BY <1>2 DEF HasEvent
    <2>2. \A t \in Sessions : round[t] \in Nat
      BY DEF IdeationTypeOK
    <2> QED BY <1>3, <1>7, <2>1, <2>2 DEF EveryRound
  <1>12. StreamHasQuestion' /\ AnswersInOrder'
    BY <1>2, <1>3, <1>4 DEF StreamHasQuestion, AnswersInOrder, Asked
  <1> QED BY <1>6, <1>8, <1>9, <1>10, <1>11, <1>12

-----------------------------------------------------------------------------
(* Every step preserves SessionInv.                                        *)
LEMMA SessionNextInv == SessionInv /\ [IdeationNext]_ideationVars => SessionInv'
  <1> SUFFICES ASSUME SessionInv, [IdeationNext]_ideationVars PROVE SessionInv'
    OBVIOUS
  <1>0. /\ request \in [Requests -> Request]
        /\ \A r \in Requests : request[r].on \in Sessions
    BY DEF SessionInv, IdeationTypeOK, Request
  <1>1. ASSUME NEW s \in Sessions, CreateSession(s) \/ ReopenSession(s) PROVE SessionInv'
    BY <1>1, CreateInv, ReopenInv
  <1>2. ASSUME NEW s \in Sessions, NEW repo \in Repos,
               SetSessionRepo(s, repo)
        PROVE  SessionInv'
    <2>1. session' \in [Sessions -> [status: Statuses, repo: Repos \cup {NoRepo}]]
      BY <1>2 DEF SetSessionRepo, SessionInv, IdeationTypeOK
    <2>2. \A t \in Sessions : Status(t)' = Status(t)
      BY <1>2 DEF SetSessionRepo, SessionInv, IdeationTypeOK, Status
    <2> QED BY <1>0, <1>2, <2>1, <2>2, SessionOnlyInv DEF SetSessionRepo
  <1>3. ASSUME NEW r \in Requests, NEW op \in Operations, NEW s \in Sessions,
               NEW image \in BOOLEAN, Begin(r, op, s, image)
        PROVE  SessionInv'
    <2>1. NewRequest(op, s, image) \in Request /\ NewRequest(op, s, image).at = "checked"
      BY DEF NewRequest, Request, Operations, Phases
    <2> QED BY <1>3, <2>1, RequestOnlyInv DEF Begin
  <1>4. ASSUME NEW r \in Requests, Abandon(r) PROVE SessionInv'
    <2>1. [request[r] EXCEPT !.at = "done"] \in Request
      BY <1>0 DEF Request, Phases
    <2>2. [request[r] EXCEPT !.at = "done"].at = "done"
      BY <1>0 DEF Request
    <2>3. request' = [request EXCEPT ![r] = [request[r] EXCEPT !.at = "done"]]
      BY <1>0, <1>4 DEF Abandon, Finish
    <2> QED BY <1>4, <2>1, <2>2, <2>3, RequestOnlyInv DEF Abandon
  <1>5. ASSUME NEW r \in Requests, GenerateCommit(r) PROVE SessionInv'
    BY <1>0, <1>5, GenerateInv
  <1>6. ASSUME NEW r \in Requests, ClarifyAsk(r) PROVE SessionInv'
    <2> DEFINE s == request[r].on
               turn == [by |-> r, role |-> "user"]
    <2>1. turn \in Turn
      BY DEF Turn
    <2>2. images' \in [Sessions -> SUBSET Requests]
      BY <1>0, <1>6 DEF ClarifyAsk, SessionInv, IdeationTypeOK
    <2> QED BY <1>0, <1>6, <2>1, <2>2, AppendInv DEF ClarifyAsk, Running
  <1>7. ASSUME NEW r \in Requests, ClarifyRead(r) PROVE SessionInv'
    <2> DEFINE x == [request[r] EXCEPT !.at = "streaming",
                       !.imageOn = IF request[r].image THEN LastAsker(turns[request[r].on])
                                                       ELSE NoRequest]
    <2>1. LastAsker(turns[request[r].on]) \in Requests \cup {NoRequest}
      <3> SUFFICES ASSUME NEW h \in Seq(Turn) PROVE LastAsker(h) \in Requests \cup {NoRequest}
        BY <1>0 DEF SessionInv, IdeationTypeOK
      <3> DEFINE last == {i \in 1..Len(h) :
                            /\ h[i].role = "user"
                            /\ \A j \in (i + 1)..Len(h) : h[j].role # "user"}
      <3>1. CASE last = {}
        BY <3>1 DEF LastAsker
      <3>2. CASE last # {}
        <4> DEFINE i == CHOOSE k \in last : TRUE
        <4>1. i \in last
          BY <3>2
        <4>2. h[i] \in Turn
          BY <4>1
        <4> QED BY <3>2, <4>2 DEF LastAsker, Turn
      <3> QED BY <3>1, <3>2
    <2>2. x \in Request
      BY <1>0, <2>1 DEF Request, Phases
    <2>3. x.at = "streaming" /\ x.on = request[r].on /\ x.op = request[r].op
      BY <1>0 DEF Request
    <2>4. request' = [request EXCEPT ![r] = x]
      BY <1>0, <1>7 DEF ClarifyRead
    <2> HIDE DEF x
    <2> QED BY <1>7, <2>2, <2>3, <2>4, RequestOnlyInv DEF ClarifyRead, Running
  <1>8. ASSUME NEW r \in Requests, LandAssistant(r) PROVE SessionInv'
    <2> DEFINE turn == [by |-> r, role |-> "assistant"]
    <2>1. turn \in Turn
      BY DEF Turn
    <2>2. images' \in [Sessions -> SUBSET Requests]
      BY <1>8 DEF LandAssistant, SessionInv, IdeationTypeOK
    <2> QED BY <1>0, <1>8, <2>1, <2>2, AppendInv DEF LandAssistant, Running, Finish
  <1>9. ASSUME NEW r \in Requests, ExportRead(r) PROVE SessionInv'
    <2>1. PICK p \in {"done", "rendering"} :
            request' = [request EXCEPT ![r] = [request[r] EXCEPT !.at = p]]
      BY <1>0, <1>9 DEF ExportRead
    <2>2. [request[r] EXCEPT !.at = p] \in Request
      BY <1>0 DEF Request, Phases
    <2>3. [request[r] EXCEPT !.at = p].at = p
      BY <1>0 DEF Request
    <2> QED BY <1>9, <2>1, <2>2, <2>3, RequestOnlyInv DEF ExportRead, Running
  <1>10. ASSUME NEW r \in Requests, ExportMark(r) PROVE SessionInv'
    <2>1. session' \in [Sessions -> [status: Statuses, repo: Repos \cup {NoRepo}]]
      <3> DEFINE v == IF session[request[r].on].status = "converged"
                        THEN "handed-off" ELSE session[request[r].on].status
      <3>1. session \in [Sessions -> [status: Statuses, repo: Repos \cup {NoRepo}]]
        BY DEF SessionInv, IdeationTypeOK
      <3>2. session[request[r].on].status \in Statuses
        BY <1>0, <3>1
      <3>3. v \in Statuses
        BY <3>2 DEF Statuses, FINALISED
      <3>4. session' = [session EXCEPT ![request[r].on] =
                          [session[request[r].on] EXCEPT !.status = v]]
        BY <1>0, <1>10, <3>1 DEF ExportMark
      <3> HIDE DEF v
      <3> QED BY <1>0, <3>1, <3>3, <3>4, StatusUpdate
    <2>2. \A t \in Sessions : \/ Status(t)' = Status(t)
                              \/ Status(t) \in FINALISED /\ Status(t)' \in FINALISED
      <3> SUFFICES ASSUME NEW t \in Sessions
                   PROVE  \/ session'[t].status = session[t].status
                          \/ session[t].status \in FINALISED /\ session'[t].status \in FINALISED
        BY DEF Status
      <3> QED BY <1>10 DEF ExportMark, SessionInv, IdeationTypeOK, FINALISED
    <2>3. request' = [request EXCEPT ![r] =
                        [request[r] EXCEPT !.at = "done", !.reply = "handed-off"]]
      BY <1>0, <1>10 DEF ExportMark
    <2>4. [request[r] EXCEPT !.at = "done", !.reply = "handed-off"] \in Request
      BY <1>0 DEF Request, Phases
    <2>5. /\ request' \in [Requests -> Request]
          /\ request'[r].on = request[r].on /\ request'[r].at = "done"
          /\ \A q \in Requests \ {r} : request'[q] = request[q]
      BY <1>0, <2>3, <2>4 DEF Request
    <2> QED BY <1>10, <2>1, <2>2, <2>5, SessionOnlyInv DEF ExportMark, Running
  <1>11. ASSUME NEW r \in Requests, DeleteChildren(r) PROVE SessionInv'
    <2> DEFINE x == [request[r] EXCEPT !.at = "purging",
                       !.purged = Len(turns[request[r].on]),
                       !.locked = (draft[request[r].on] # NoRequest)]
    <2>1. Len(turns[request[r].on]) \in Nat
      BY <1>0 DEF SessionInv, IdeationTypeOK
    <2>2. x \in Request
      BY <1>0, <2>1 DEF Request, Phases
    <2>3. x.at = "purging"
      BY <1>0 DEF Request
    <2>4. request' = [request EXCEPT ![r] = x]
      BY <1>0, <1>11 DEF DeleteChildren
    <2> HIDE DEF x
    <2> QED BY <1>11, <2>2, <2>3, <2>4, RequestOnlyInv DEF DeleteChildren, Running
  <1>12. ASSUME NEW r \in Requests, DeleteCommit(r) PROVE SessionInv'
    BY <1>0, <1>12, DeleteCommitInv
  <1>13. CASE UNCHANGED ideationVars
    BY <1>13 DEF ideationVars, SessionInv, IdeationTypeOK, RoundStarts, PublishedInThePast,
                 AtMostOnce, EveryRound, HasEvent, ConvergedHasDraft, StreamHasQuestion,
                 AnswersInOrder, Asked, Status
  <1> QED BY <1>1, <1>2, <1>3, <1>4, <1>5, <1>6, <1>7, <1>8, <1>9, <1>10, <1>11, <1>12, <1>13
          DEF IdeationNext, RequestStep

(* The inductive invariant of the sessions.                                *)
THEOREM SessionInvariant == IdeationSpec => []SessionInv
  <1>1. IdeationInit => SessionInv
    BY SessionInitInv
  <1>2. SessionInv /\ [IdeationNext]_ideationVars => SessionInv'
    BY SessionNextInv
  <1> QED BY <1>1, <1>2, PTL DEF IdeationSpec

(* Sessions, children and requests are always well-formed.                 *)
THEOREM SessionTypeCorrect == IdeationSpec => []IdeationTypeOK
  <1>1. SessionInv => IdeationTypeOK
    BY DEF SessionInv
  <1> QED BY <1>1, SessionInvariant, PTL

(* However many generates race, with whatever reopenings and deletes in    *)
(* between, each finalised round has published exactly one event           *)
(* (GenerateBriefUseCase's conditional update).                            *)
THEOREM ExactlyOnceFinalisation == IdeationSpec => []FinalizedOncePerRound
  <1>1. SessionInv => FinalizedOncePerRound
    BY OncePerRound DEF SessionInv
  <1> QED BY <1>1, SessionInvariant, PTL

(* Whoever reads a converged session finds its brief.                      *)
THEOREM BriefIsThere == IdeationSpec => []ConvergedHasDraft
  <1>1. SessionInv => ConvergedHasDraft
    BY DEF SessionInv
  <1> QED BY <1>1, SessionInvariant, PTL

(* A live session shows every answer after its question, whatever clarify  *)
(* requests and deletes interleave.                                        *)
THEOREM AnswersAreInOrder == IdeationSpec => []AnswerFollowsQuestion
  <1>1. SessionInv => AnswerFollowsQuestion
    BY DEF SessionInv, AnswersInOrder, AnswerFollowsQuestion, Live, FINALISED
  <1> QED BY <1>1, SessionInvariant, PTL

-----------------------------------------------------------------------------
Moves(s) ==
  \/ Status(s)' = Status(s)
  \/ Status(s) = "absent" /\ Status(s)' = "open"
  \/ Status(s) = "open" /\ Status(s)' \in {"converged", "deleted"}
  \/ Status(s) = "converged" /\ Status(s)' \in {"handed-off", "open", "deleted"}
  \/ Status(s) = "handed-off" /\ Status(s)' \in {"open", "deleted"}

(* Whatever a request has read before, the write it makes now moves the    *)
(* session along an edge of the status machine.                            *)
LEMMA StepMoves ==
  ASSUME IdeationTypeOK, [IdeationNext]_ideationVars
  PROVE  \A s \in Sessions : Moves(s)
  <1> DEFINE T == [Sessions -> [status: Statuses, repo: Repos \cup {NoRepo}]]
  <1>1. session \in T /\ \A r \in Requests : request[r].on \in Sessions
    BY DEF IdeationTypeOK, Request
  <1>2. CASE UNCHANGED session
    BY <1>2 DEF Moves, Status
  <1>3. ASSUME NEW x \in Sessions, CreateSession(x) PROVE \A s \in Sessions : Moves(s)
    BY <1>1, <1>3 DEF CreateSession, SetStatus, Moves, Status
  <1>4. ASSUME NEW x \in Sessions, ReopenSession(x) PROVE \A s \in Sessions : Moves(s)
    BY <1>1, <1>4 DEF ReopenSession, SetStatus, Moves, Status, FINALISED
  <1>5. ASSUME NEW x \in Sessions, NEW repo \in Repos, SetSessionRepo(x, repo)
        PROVE  \A s \in Sessions : Moves(s)
    BY <1>1, <1>5 DEF SetSessionRepo, Moves, Status
  <1>6. ASSUME NEW r \in Requests, GenerateCommit(r) PROVE \A s \in Sessions : Moves(s)
    BY <1>1, <1>6 DEF GenerateCommit, Moves, Status
  <1>7. ASSUME NEW r \in Requests, ExportMark(r) PROVE \A s \in Sessions : Moves(s)
    BY <1>1, <1>7 DEF ExportMark, Moves, Status
  <1>8. ASSUME NEW r \in Requests, DeleteCommit(r) PROVE \A s \in Sessions : Moves(s)
    BY <1>1, <1>8 DEF DeleteCommit, Moves, Status, Live, FINALISED
  <1> QED BY <1>2, <1>3, <1>4, <1>5, <1>6, <1>7, <1>8
          DEF IdeationNext, RequestStep, Begin, Abandon, ClarifyAsk, ClarifyRead,
              LandAssistant, ExportRead, DeleteChildren, ideationVars

(* The status machine (session-status.rules.ts) is kept by every           *)
(* interleaving of handlers.                                               *)
THEOREM StatusMachine == IdeationSpec => StatusMovesLegally
  <1>1. SessionInv /\ [IdeationNext]_ideationVars => [\A s \in Sessions : Moves(s)]_ideationVars
    BY StepMoves DEF SessionInv
  <1>2. StatusMovesLegally <=> [][\A s \in Sessions : Moves(s)]_ideationVars
    BY DEF StatusMovesLegally, Moves
  <1> QED BY <1>1, <1>2, SessionInvariant, PTL DEF IdeationSpec

-----------------------------------------------------------------------------
(* What a finalisation leaves behind                                       *)

BriefStays ==
  \A r \in Requests : published[r] # 0 =>
    draft[request[r].on] # NoRequest \/ Status(request[r].on) = "deleted"

(* A request that has published is over: nothing changes it, or the round  *)
(* it published, again.                                                    *)
LEMMA PublishedStays ==
  ASSUME SessionInv, [IdeationNext]_ideationVars,
         NEW r \in Requests, published[r] # 0
  PROVE  published'[r] = published[r] /\ request'[r] = request[r]
  <1> USE DEF Running, Finish
  <1>1. request[r].at = "done" /\ request \in [Requests -> Request]
        /\ published \in [Requests -> Nat]
    BY DEF SessionInv, PublishedInThePast, IdeationTypeOK
  <1>2. CASE UNCHANGED <<request, published>>
    BY <1>2
  <1>3. ASSUME NEW q \in Requests, NEW op \in Operations, NEW s \in Sessions,
               NEW image \in BOOLEAN, Begin(q, op, s, image)
        PROVE  published'[r] = published[r] /\ request'[r] = request[r]
    BY <1>1, <1>3 DEF Begin
  <1>4. ASSUME NEW q \in Requests, RequestStep(q)
        PROVE  published'[r] = published[r] /\ request'[r] = request[r]
    <2>1. q # r
      BY <1>1, <1>4
         DEF RequestStep, Abandon, GenerateCommit, ClarifyAsk, ClarifyRead,
             LandAssistant, ExportRead, ExportMark, DeleteChildren, DeleteCommit
    <2> QED BY <1>1, <1>4, <2>1
            DEF RequestStep, Abandon, GenerateCommit, ClarifyAsk, ClarifyRead,
                LandAssistant, ExportRead, ExportMark, DeleteChildren, DeleteCommit
  <1> QED BY <1>2, <1>3, <1>4
          DEF IdeationNext, CreateSession, ReopenSession, SetSessionRepo,
              SetStatus, ideationVars

(* A brief goes only with its session (DeleteSessionUseCase's transaction).*)
LEMMA BriefGoesWithSession ==
  ASSUME SessionInv, [IdeationNext]_ideationVars, NEW s \in Sessions,
         draft[s] # NoRequest
  PROVE  draft'[s] # NoRequest \/ Status(s)' = "deleted"
  <1>1. CASE UNCHANGED draft
    BY <1>1
  <1>2. ASSUME NEW r \in Requests, GenerateCommit(r)
        PROVE  draft'[s] # NoRequest
    BY <1>2, IdeationAssumption DEF GenerateCommit, SessionInv, IdeationTypeOK
  <1>3. ASSUME NEW r \in Requests, DeleteCommit(r)
        PROVE  draft'[s] # NoRequest \/ Status(s)' = "deleted"
    BY <1>3 DEF DeleteCommit, SessionInv, IdeationTypeOK, Status
  <1> QED BY <1>1, <1>2, <1>3
          DEF IdeationNext, RequestStep, CreateSession, ReopenSession,
              SetSessionRepo, Begin, Abandon, ClarifyAsk, ClarifyRead,
              LandAssistant, ExportRead, ExportMark, DeleteChildren, ideationVars

(* The generate that publishes stores its brief with it, and no delete     *)
(* takes the brief and leaves the session.                                 *)
LEMMA BriefStaysInv ==
  ASSUME SessionInv, BriefStays, [IdeationNext]_ideationVars
  PROVE  BriefStays'
  <1> SUFFICES ASSUME NEW r \in Requests, published'[r] # 0
               PROVE  \/ draft'[request'[r].on] # NoRequest
                      \/ session'[request'[r].on].status = "deleted"
    BY DEF BriefStays, Status
  <1>1. CASE published[r] # 0
    <2>1. request'[r].on = request[r].on /\ request[r].on \in Sessions
      BY <1>1, PublishedStays DEF SessionInv, IdeationTypeOK, Request
    <2>2. CASE draft[request[r].on] # NoRequest
      BY <2>1, <2>2, BriefGoesWithSession DEF Status
    <2>3. CASE Status(request[r].on) = "deleted"
      <3>1. Moves(request[r].on)
        BY <2>1, StepMoves DEF SessionInv
      <3>2. Status(request[r].on)' = "deleted"
        BY <2>3, <3>1 DEF Moves
      <3> QED BY <2>1, <3>2 DEF Status
    <2> QED BY <1>1, <2>2, <2>3 DEF BriefStays
  <1>2. CASE published[r] = 0
    <2>1. GenerateCommit(r)
      BY <1>2
         DEF IdeationNext, RequestStep, CreateSession, ReopenSession,
             SetSessionRepo, Begin, Abandon, ClarifyAsk, ClarifyRead,
             LandAssistant, ExportRead, ExportMark, DeleteChildren,
             DeleteCommit, GenerateCommit, SessionInv, IdeationTypeOK,
             ideationVars
    <2>2. draft'[request[r].on] = r /\ request'[r].on = request[r].on
      BY <2>1 DEF GenerateCommit, Finish, SessionInv, IdeationTypeOK, Request
    <2> QED BY <2>2, IdeationAssumption
  <1> QED BY <1>1, <1>2

(* Every request that has published has left a brief behind, which lasts as*)
(* long as its session: through reopenings, later briefs that replace it,  *)
(* and deletes that come to nothing.                                       *)
THEOREM BriefOutlivesRound == IdeationSpec => []BriefStays
  <1>1. IdeationInit => BriefStays
    BY DEF IdeationInit, BriefStays
  <1>2. SessionInv /\ BriefStays /\ [IdeationNext]_ideationVars => BriefStays'
    BY BriefStaysInv
  <1> QED BY <1>1, <1>2, SessionInvariant, PTL DEF IdeationSpec

-----------------------------------------------------------------------------
(* The outbox                                                              *)

Handled(i, e) ==
  Accepts(SubscribersOf(e)[i], outbox[e].data) => effects[SubscribersOf(e)[i]][e] > 0

RowsOrdered ==
  \A e \in Events : outbox[e].status # "absent" =>
    \A f \in Events :
      outbox[f].status # "absent" /\ outbox[e].createdAt = outbox[f].createdAt => e = f

BatchExists ==
  \A r \in Relays, e \in Events : e \in scan[r].batch => outbox[e].status # "absent"

ScanProgress ==
  \A r \in Relays, e \in Events : IsHead(r, e) =>
    \A i \in 1..Len(SubscribersOf(e)) : i < scan[r].next => Handled(i, e)

OutboxInv ==
  /\ OutboxTypeOK
  /\ RowsOrdered
  /\ BatchExists
  /\ ScanProgress
  /\ PublishedMeansHandled
  /\ KeyedOnce
  /\ ServedInOrder
  /\ NoSpuriousEffect

-----------------------------------------------------------------------------
(* The registry holds at most two subscribers per type, all different.     *)
LEMMA RegistryFacts ==
  ASSUME NEW t \in EventTypes
  PROVE  /\ Len(byType(t)) \in 0..2
         /\ \A i \in 1..Len(byType(t)) : byType(t)[i] \in Subscribers
         /\ \A i, j \in 1..Len(byType(t)) : byType(t)[i] = byType(t)[j] => i = j
  <1>1. CASE t = FINALIZED
    <2>1. byType(t) = <<"EnqueueRequirement">>
      BY <1>1 DEF byType, FINALIZED, ANCHOR_CREATED, UNSUBSCRIBED
    <2> QED BY <2>1 DEF Subscribers
  <1>2. CASE t = ANCHOR_CREATED
    <2>1. byType(t) = <<"AnchorColdStart", "BrokerHistoryBackfill">>
      BY <1>2 DEF byType, FINALIZED, ANCHOR_CREATED, UNSUBSCRIBED
    <2> QED BY <2>1 DEF Subscribers
  <1>3. CASE t = UNSUBSCRIBED
    <2>1. byType(t) = <<>>
      BY <1>3 DEF byType, FINALIZED, ANCHOR_CREATED, UNSUBSCRIBED
    <2> QED BY <2>1
  <1> QED BY <1>1, <1>2, <1>3 DEF EventTypes

(* One delivery never lowers the count of what a subscriber has done; it is*)
(* positive afterwards, and at most one for a keyed subscriber that was.   *)
LEMMA InsertedFacts ==
  ASSUME NEW s \in Subscribers, NEW n \in Nat
  PROVE  /\ Inserted(s, n) \in Nat /\ Inserted(s, n) > 0
         /\ IsKeyed(s) /\ n <= 1 => Inserted(s, n) <= 1
  BY OutboxAssumption DEF Inserted

(* What the type invariant says of one row and of its subscribers.         *)
LEMMA RowTypes ==
  ASSUME OutboxTypeOK, NEW e \in Events
  PROVE  /\ outbox[e].eventType \in EventTypes /\ outbox[e].createdAt \in Nat
         /\ Len(SubscribersOf(e)) \in 0..2
         /\ \A i \in 1..Len(SubscribersOf(e)) : SubscribersOf(e)[i] \in Subscribers
  <1>1. outbox[e].eventType \in EventTypes /\ outbox[e].createdAt \in Nat
    BY DEF OutboxTypeOK, Row
  <1> QED BY <1>1, RegistryFacts DEF SubscribersOf

(* The empty table satisfies the invariant.                                *)
LEMMA OutboxInitInv == OutboxInit => OutboxInv
  <1> SUFFICES ASSUME OutboxInit PROVE OutboxInv
    OBVIOUS
  <1> USE DEF OutboxInit
  <1>1. OutboxTypeOK
    BY DEF OutboxTypeOK, Row, NoRow, EventTypes, Payloads, Idle
  <1>2. \A e \in Events : outbox[e].status = "absent"
    BY DEF NoRow
  <1>3. \A s \in Subscribers, e \in Events : effects[s][e] = 0
    OBVIOUS
  <1>4. RowsOrdered /\ PublishedMeansHandled
    BY <1>2 DEF RowsOrdered, PublishedMeansHandled
  <1>5. BatchExists /\ ScanProgress
    BY DEF BatchExists, ScanProgress, IsHead, Idle
  <1>6. KeyedOnce /\ NoSpuriousEffect
    BY <1>3 DEF KeyedOnce, NoSpuriousEffect
  <1>7. ServedInOrder
    BY <1>1, <1>3, RowTypes DEF ServedInOrder
  <1> QED BY <1>1, <1>4, <1>5, <1>6, <1>7 DEF OutboxInv

-----------------------------------------------------------------------------
(* One lemma per group of actions.  A new row is in no batch and nobody has*)
(* done anything for it (BatchExists, NoSpuriousEffect).                   *)
LEMMA PublishInv ==
  ASSUME OutboxInv, NEW e \in Events, NEW t \in EventTypes, NEW d \in Payloads,
         NEW at \in Times, Publish(e, t, d, at)
  PROVE  OutboxInv'
  <1> USE DEF OutboxInv, Publish
  <1>1. OutboxTypeOK'
    BY OutboxAssumption DEF OutboxTypeOK, Row
  <1>2. \A f \in Events \ {e} : outbox'[f] = outbox[f]
    BY DEF OutboxTypeOK
  <1>3. outbox'[e].status = "unpublished" /\ outbox'[e].createdAt = at
    BY DEF OutboxTypeOK
  <1>4. RowsOrdered'
    BY <1>2, <1>3 DEF RowsOrdered
  <1>5. BatchExists'
    BY <1>2, <1>3 DEF BatchExists
  <1>6. \A s \in Subscribers : ~(effects[s][e] > 0)
    BY DEF NoSpuriousEffect
  <1>7. \A r \in Relays, f \in Events : IsHead(r, f)' => f # e /\ IsHead(r, f)
    <2>1. \A r \in Relays : scan[r].batch \in SUBSET Events
      BY DEF OutboxTypeOK
    <2>2. \A r \in Relays : e \notin scan[r].batch
      BY DEF BatchExists
    <2> QED BY <1>2, <2>1, <2>2 DEF IsHead
  <1>8. \A f \in Events \ {e} : SubscribersOf(f)' = SubscribersOf(f)
    BY <1>2 DEF SubscribersOf
  <1>9. ScanProgress'
    BY <1>2, <1>7, <1>8 DEF ScanProgress, Handled
  <1>10. PublishedMeansHandled'
    BY <1>2, <1>3, <1>8 DEF PublishedMeansHandled
  <1>11. KeyedOnce'
    BY DEF KeyedOnce
  <1>12. ServedInOrder'
    <2>1. \A j \in 1..Len(SubscribersOf(e)') : SubscribersOf(e)'[j] \in Subscribers
      BY <1>1, RegistryFacts DEF OutboxTypeOK, Row, SubscribersOf
    <2>2. \A j \in 1..Len(SubscribersOf(e)') : ~(effects'[SubscribersOf(e)'[j]][e] > 0)
      BY <1>6, <2>1
    <2>3. ASSUME NEW f \in Events, NEW i \in 1..Len(SubscribersOf(f)'),
                 NEW j \in 1..Len(SubscribersOf(f)'), i < j,
                 effects'[SubscribersOf(f)'[j]][f] > 0,
                 Accepts(SubscribersOf(f)'[i], outbox'[f].data)
          PROVE  effects'[SubscribersOf(f)'[i]][f] > 0
      <3>1. f # e
        BY <2>2, <2>3
      <3> QED BY <1>2, <1>8, <2>3, <3>1 DEF ServedInOrder
    <2> QED BY <2>3 DEF ServedInOrder
  <1>13. NoSpuriousEffect'
    BY <1>2, <1>6, <1>8 DEF NoSpuriousEffect
  <1> QED BY <1>1, <1>4, <1>5, <1>9, <1>10, <1>11, <1>12, <1>13

(* A scan that starts is before the first subscriber.                      *)
LEMMA ScanStartInv ==
  ASSUME OutboxInv, NEW r \in Relays, ScanStart(r)
  PROVE  OutboxInv'
  <1> USE DEF OutboxInv, ScanStart
  <1>1. OldestUnpublished \subseteq Unpublished /\ Unpublished \subseteq Events
    BY DEF OldestUnpublished, Unpublished
  <1>2. OutboxTypeOK'
    BY <1>1 DEF OutboxTypeOK
  <1>3. BatchExists'
    BY <1>1 DEF BatchExists, Unpublished, OutboxTypeOK
  <1>4. ScanProgress'
    <2> SUFFICES ASSUME NEW q \in Relays, NEW e \in Events, IsHead(q, e)',
                        NEW i \in 1..Len(SubscribersOf(e)'), i < scan'[q].next
                 PROVE  Handled(i, e)'
      BY DEF ScanProgress
    <2>1. CASE q = r
      <3>1. scan'[r].next = 1
        BY DEF OutboxTypeOK
      <3>2. i \in Nat /\ i >= 1
        <4>1. SubscribersOf(e)' = SubscribersOf(e)
          BY DEF SubscribersOf
        <4> QED BY <4>1, RowTypes
      <3> QED BY <2>1, <3>1, <3>2
    <2>2. CASE q # r
      <3>1. scan'[q] = scan[q]
        BY <2>2 DEF OutboxTypeOK
      <3> QED BY <3>1 DEF IsHead, ScanProgress, Handled, SubscribersOf
    <2> QED BY <2>1, <2>2
  <1>5. RowsOrdered' /\ PublishedMeansHandled' /\ KeyedOnce' /\ ServedInOrder' /\ NoSpuriousEffect'
    BY DEF RowsOrdered, PublishedMeansHandled, KeyedOnce, ServedInOrder, NoSpuriousEffect,
           SubscribersOf
  <1> QED BY <1>2, <1>3, <1>4, <1>5

(* A subscriber returns: it was the next in order, so all before it have   *)
(* handled the row, and now it has.                                        *)
LEMMA HandleInv ==
  ASSUME OutboxInv, NEW r \in Relays, NEW e \in Events, Handle(r, e)
  PROVE  OutboxInv'
  <1> USE DEF OutboxInv, Handle
  <1> DEFINE k == scan[r].next
             s == SubscribersOf(e)[k]
  <1>1. k \in 1..Len(SubscribersOf(e)) /\ k \in 1..2 /\ s \in Subscribers
    <2>1. k \in 1..3 /\ k <= Len(SubscribersOf(e))
      BY DEF OutboxTypeOK
    <2>2. /\ Len(SubscribersOf(e)) \in 0..2
          /\ \A i \in 1..Len(SubscribersOf(e)) : SubscribersOf(e)[i] \in Subscribers
      BY RowTypes
    <2> QED BY <2>1, <2>2
  <1>2. \A q \in Subscribers, f \in Events :
          /\ effects[q][f] \in Nat /\ effects'[q][f] \in Nat
          /\ (q # s \/ f # e) => effects'[q][f] = effects[q][f]
          /\ effects[q][f] > 0 => effects'[q][f] > 0
          /\ IsKeyed(q) /\ effects[q][f] <= 1 => effects'[q][f] <= 1
    BY <1>1, InsertedFacts DEF OutboxTypeOK
  <1>3. /\ Accepts(s, outbox[e].data) => effects'[s][e] > 0
        /\ ~Accepts(s, outbox[e].data) => effects' = effects
    BY <1>1, InsertedFacts DEF OutboxTypeOK
  <1>4. OutboxTypeOK'
    <2>1. effects' \in [Subscribers -> [Events -> Nat]]
      BY <1>1, InsertedFacts DEF OutboxTypeOK
    <2>2. scan' \in [Relays -> [batch: SUBSET Events, next: 1..3]]
      <3>1. k + 1 \in 1..3
        BY <1>1
      <3>2. [scan[r] EXCEPT !.next = k + 1] \in [batch: SUBSET Events, next: 1..3]
        BY <3>1 DEF OutboxTypeOK
      <3>3. scan' = [scan EXCEPT ![r] = [scan[r] EXCEPT !.next = k + 1]]
        BY DEF OutboxTypeOK
      <3> QED BY <3>2, <3>3 DEF OutboxTypeOK
    <2> QED BY <2>1, <2>2 DEF OutboxTypeOK
  <1>5. \A f \in Events : SubscribersOf(f)' = SubscribersOf(f)
    BY DEF SubscribersOf
  <1>6. /\ \A q \in Relays : scan'[q].batch = scan[q].batch
        /\ \A q \in Relays : q # r => scan'[q].next = scan[q].next
        /\ scan'[r].next = k + 1
    BY DEF OutboxTypeOK
  <1>7. RowsOrdered' /\ BatchExists'
    BY <1>6 DEF RowsOrdered, BatchExists
  <1>8. \A f \in Events : \A i \in 1..Len(SubscribersOf(f)) : Handled(i, f) => Handled(i, f)'
    BY <1>2, <1>5, RowTypes DEF Handled
  <1>9. ScanProgress'
    <2> SUFFICES ASSUME NEW q \in Relays, NEW f \in Events, IsHead(q, f)',
                        NEW i \in 1..Len(SubscribersOf(f)), i < scan'[q].next
                 PROVE  Handled(i, f)'
      BY <1>5 DEF ScanProgress
    <2>1. IsHead(q, f)
      BY <1>6 DEF IsHead
    <2>2. CASE q # r
      BY <1>6, <1>8, <2>1, <2>2 DEF ScanProgress
    <2>3. CASE q = r
      <3>1. f = e
        <4>1. outbox[f].createdAt <= outbox[e].createdAt
              /\ outbox[e].createdAt <= outbox[f].createdAt
          BY <2>1, <2>3 DEF IsHead
        <4>2. outbox[f].status # "absent" /\ outbox[e].status # "absent"
          BY <2>1, <2>3 DEF IsHead, BatchExists
        <4>3. outbox[f].createdAt = outbox[e].createdAt
          BY <4>1, RowTypes
        <4> QED BY <4>2, <4>3 DEF RowsOrdered
      <3>2. i \in Nat /\ (i < k \/ i = k)
        BY <1>1, <1>6, <2>3, RowTypes
      <3>3. CASE i < k
        BY <1>8, <3>1, <3>3 DEF ScanProgress
      <3>4. CASE i = k
        <4>1. SubscribersOf(e)'[i] = s
          BY <1>5, <3>4
        <4> QED BY <1>3, <3>1, <3>4, <4>1 DEF Handled
      <3> QED BY <3>2, <3>3, <3>4
    <2> QED BY <2>2, <2>3
  <1>10. PublishedMeansHandled'
    BY <1>2, <1>5, RowTypes DEF PublishedMeansHandled
  <1>11. KeyedOnce'
    BY <1>2 DEF KeyedOnce
  <1>12. ServedInOrder'
    <2> SUFFICES ASSUME NEW f \in Events, NEW i \in 1..Len(SubscribersOf(f)),
                        NEW j \in 1..Len(SubscribersOf(f)), i < j,
                        effects'[SubscribersOf(f)[j]][f] > 0,
                        Accepts(SubscribersOf(f)[i], outbox[f].data)
                 PROVE  effects'[SubscribersOf(f)[i]][f] > 0
      BY <1>5 DEF ServedInOrder
    <2>1. SubscribersOf(f)[i] \in Subscribers /\ SubscribersOf(f)[j] \in Subscribers
      BY RowTypes
    <2>2. CASE effects[SubscribersOf(f)[j]][f] > 0
      BY <1>2, <2>1, <2>2 DEF ServedInOrder
    <2>3. CASE ~(effects[SubscribersOf(f)[j]][f] > 0)
      <3>1. f = e /\ SubscribersOf(e)[j] = SubscribersOf(e)[k]
        BY <1>2, <2>1, <2>3
      <3>2. j = k
        BY <1>1, <3>1, RegistryFacts DEF SubscribersOf, OutboxTypeOK, Row
      <3>3. Handled(i, e)
        BY <3>1, <3>2 DEF ScanProgress
      <3> QED BY <1>2, <2>1, <3>1, <3>3 DEF Handled
    <2> QED BY <2>2, <2>3
  <1>13. NoSpuriousEffect'
    <2> SUFFICES ASSUME NEW q \in Subscribers, NEW f \in Events, effects'[q][f] > 0
                 PROVE  /\ outbox[f].status # "absent"
                        /\ \E i \in 1..Len(SubscribersOf(f)) : SubscribersOf(f)[i] = q
                        /\ Accepts(q, outbox[f].data)
      BY <1>5 DEF NoSpuriousEffect
    <2>1. CASE effects[q][f] > 0
      BY <2>1 DEF NoSpuriousEffect
    <2>2. CASE ~(effects[q][f] > 0)
      <3>1. q = s /\ f = e /\ Accepts(s, outbox[e].data)
        BY <1>2, <1>3, <2>2
      <3>2. outbox[e].status # "absent"
        BY DEF IsHead, BatchExists
      <3> QED BY <1>1, <3>1, <3>2
    <2> QED BY <2>1, <2>2
  <1> QED BY <1>4, <1>7, <1>9, <1>10, <1>11, <1>12, <1>13

(* A scan leaves a row behind, or is gone; the row may be published, but   *)
(* only when every subscriber has returned.                                *)
LEMMA DropInv ==
  ASSUME OutboxInv, NEW r \in Relays,
         scan' = [scan EXCEPT ![r] = Idle] \/ \E e \in Events : Drop(r, e),
         \/ outbox' = outbox
         \/ \E e \in Events : /\ IsHead(r, e) /\ Dispatched(r, e)
                              /\ outbox' = [outbox EXCEPT ![e].status = "published"],
         UNCHANGED effects
  PROVE  OutboxInv'
  <1> USE DEF OutboxInv
  <1>1. PICK x \in [batch: SUBSET scan[r].batch, next: {1}] : scan' = [scan EXCEPT ![r] = x]
    <2>1. CASE scan' = [scan EXCEPT ![r] = Idle]
      BY <2>1 DEF Idle
    <2>2. ASSUME NEW e \in Events, Drop(r, e)
          PROVE  \E x \in [batch: SUBSET scan[r].batch, next: {1}] :
                   scan' = [scan EXCEPT ![r] = x]
      <3>1. scan' = [scan EXCEPT ![r] = [batch |-> scan[r].batch \ {e}, next |-> 1]]
        BY <2>2 DEF Drop, OutboxTypeOK
      <3> QED BY <3>1
    <2> QED BY <2>1, <2>2
  <1>2. /\ \A q \in Relays : q # r => scan'[q] = scan[q]
        /\ scan'[r].next = 1 /\ scan'[r].batch \subseteq scan[r].batch
        /\ \A q \in Relays : scan'[q].batch \subseteq scan[q].batch
        /\ scan' \in [Relays -> [batch: SUBSET Events, next: 1..3]]
    <2>1. x \in [batch: SUBSET Events, next: 1..3]
      BY DEF OutboxTypeOK
    <2> QED BY <1>1, <2>1 DEF OutboxTypeOK
  <1>3. \A f \in Events : /\ SubscribersOf(f)' = SubscribersOf(f)
                          /\ outbox'[f].data = outbox[f].data
                          /\ outbox'[f].createdAt = outbox[f].createdAt
    <2>1. CASE outbox' = outbox
      BY <2>1 DEF SubscribersOf
    <2>2. ASSUME NEW e \in Events, outbox' = [outbox EXCEPT ![e].status = "published"],
                 NEW f \in Events
          PROVE  /\ outbox'[f].eventType = outbox[f].eventType
                 /\ outbox'[f].data = outbox[f].data
                 /\ outbox'[f].createdAt = outbox[f].createdAt
      BY <2>2 DEF OutboxTypeOK, Row
    <2> QED BY <2>1, <2>2 DEF SubscribersOf
  <1>4. OutboxTypeOK' /\ \A f \in Events :
                            (outbox'[f].status = "absent") <=> (outbox[f].status = "absent")
    <2>1. CASE outbox' = outbox
      BY <1>2, <2>1 DEF OutboxTypeOK
    <2>2. ASSUME NEW e \in Events, IsHead(r, e),
                 outbox' = [outbox EXCEPT ![e].status = "published"]
          PROVE  /\ outbox' \in [Events -> Row]
                 /\ \A f \in Events :
                      (outbox'[f].status = "absent") <=> (outbox[f].status = "absent")
      <3>1. outbox' \in [Events -> Row]
        BY <2>2 DEF OutboxTypeOK, Row
      <3>2. outbox[e].status # "absent" /\ outbox'[e].status = "published"
        BY <2>2 DEF IsHead, BatchExists, OutboxTypeOK, Row
      <3>3. \A f \in Events \ {e} : outbox'[f] = outbox[f]
        BY <2>2 DEF OutboxTypeOK
      <3> QED BY <3>1, <3>2, <3>3
    <2> QED BY <1>2, <2>1, <2>2 DEF OutboxTypeOK
  <1>5. RowsOrdered' /\ BatchExists'
    BY <1>2, <1>3, <1>4 DEF RowsOrdered, BatchExists
  <1>6. ScanProgress'
    <2> SUFFICES ASSUME NEW q \in Relays, NEW f \in Events, IsHead(q, f)',
                        NEW i \in 1..Len(SubscribersOf(f)), i < scan'[q].next
                 PROVE  Handled(i, f)'
      BY <1>3 DEF ScanProgress
    <2>1. i \in Nat /\ i >= 1
      BY RowTypes
    <2>2. q # r /\ scan'[q] = scan[q]
      BY <1>2, <2>1
    <2>3. IsHead(q, f)
      <3>1. scan[q].batch \subseteq Events
        BY DEF OutboxTypeOK
      <3> QED BY <1>3, <2>2, <3>1 DEF IsHead
    <2>4. Handled(i, f)
      BY <2>2, <2>3 DEF ScanProgress
    <2> QED BY <1>3, <2>4 DEF Handled
  <1>7. PublishedMeansHandled'
    <2> SUFFICES ASSUME NEW f \in Events, outbox'[f].status = "published",
                        NEW i \in 1..Len(SubscribersOf(f)),
                        Accepts(SubscribersOf(f)[i], outbox[f].data)
                 PROVE  effects[SubscribersOf(f)[i]][f] > 0
      BY <1>3 DEF PublishedMeansHandled
    <2>1. CASE outbox[f].status = "published"
      BY <2>1 DEF PublishedMeansHandled
    <2>2. CASE outbox[f].status # "published"
      <3>1. IsHead(r, f) /\ Dispatched(r, f)
        BY <2>2 DEF OutboxTypeOK, Row
      <3>2. i < scan[r].next
        BY <3>1, RowTypes DEF Dispatched
      <3> QED BY <3>1, <3>2 DEF ScanProgress, Handled
    <2> QED BY <2>1, <2>2
  <1>8. KeyedOnce'
    BY DEF KeyedOnce
  <1>9. ServedInOrder' /\ NoSpuriousEffect'
    BY <1>3, <1>4 DEF ServedInOrder, NoSpuriousEffect
  <1> QED BY <1>4, <1>5, <1>6, <1>7, <1>8, <1>9

-----------------------------------------------------------------------------
(* Every step preserves OutboxInv.                                         *)
LEMMA OutboxNextInv == OutboxInv /\ [OutboxNext]_outboxVars => OutboxInv'
  <1> SUFFICES ASSUME OutboxInv, [OutboxNext]_outboxVars PROVE OutboxInv'
    OBVIOUS
  <1>1. ASSUME NEW e \in Events, NEW t \in EventTypes, NEW d \in Payloads,
               NEW at \in Times, Publish(e, t, d, at)
        PROVE  OutboxInv'
    BY <1>1, PublishInv
  <1>2. ASSUME NEW r \in Relays, ScanStart(r) PROVE OutboxInv'
    BY <1>2, ScanStartInv
  <1>3. ASSUME NEW r \in Relays, NEW e \in Events, RelayStep(r, e) PROVE OutboxInv'
    <2>1. CASE Handle(r, e)
      BY <2>1, HandleInv
    <2>2. CASE HandleThrows(r, e)
      BY <2>2, DropInv DEF HandleThrows
    <2>3. CASE MarkPublished(r, e)
      BY <2>3, DropInv DEF MarkPublished
    <2>4. CASE MarkThrows(r, e)
      BY <2>4, DropInv DEF MarkThrows
    <2> QED BY <1>3, <2>1, <2>2, <2>3, <2>4 DEF RelayStep
  <1>4. ASSUME NEW r \in Relays, ScanCrash(r) PROVE OutboxInv'
    BY <1>4, DropInv DEF ScanCrash
  <1>5. CASE UNCHANGED outboxVars
    BY <1>5 DEF outboxVars, OutboxInv, OutboxTypeOK, RowsOrdered, BatchExists, ScanProgress,
                IsHead, Handled, SubscribersOf, PublishedMeansHandled, KeyedOnce,
                ServedInOrder, NoSpuriousEffect
  <1> QED BY <1>1, <1>2, <1>3, <1>4, <1>5 DEF OutboxNext

(* The inductive invariant of the outbox holds in every reachable state.   *)
THEOREM OutboxInvariant == OutboxSpec => []OutboxInv
  <1>1. OutboxInit => OutboxInv
    BY OutboxInitInv
  <1>2. OutboxInv /\ [OutboxNext]_outboxVars => OutboxInv'
    BY OutboxNextInv
  <1> QED BY <1>1, <1>2, PTL DEF OutboxSpec

(* Table, scans and effects are always well-formed.                        *)
THEOREM OutboxTypeCorrect == OutboxSpec => []OutboxTypeOK
  <1>1. OutboxInv => OutboxTypeOK
    BY DEF OutboxInv
  <1> QED BY <1>1, OutboxInvariant, PTL

(* No delivery is lost: what is marked published was handled by every      *)
(* subscriber that accepts it (OutboxEventCronPublisher.scan).             *)
THEOREM NothingIsLost == OutboxSpec => []PublishedMeansHandled
  <1>1. OutboxInv => PublishedMeansHandled
    BY DEF OutboxInv
  <1> QED BY <1>1, OutboxInvariant, PTL

(* However often a row is redelivered, a keyed subscriber holds at most    *)
(* one row for it (createMany with skipDuplicates).                        *)
THEOREM DeliveryIsIdempotent == OutboxSpec => []KeyedOnce
  <1>1. OutboxInv => KeyedOnce
    BY DEF OutboxInv
  <1> QED BY <1>1, OutboxInvariant, PTL

(* No later subscriber has work for an event that an earlier one has not   *)
(* handled (OutboxSubscriberRegistry.dispatch).                            *)
THEOREM RegistrationOrderIsKept == OutboxSpec => []ServedInOrder
  <1>1. OutboxInv => ServedInOrder
    BY DEF OutboxInv
  <1> QED BY <1>1, OutboxInvariant, PTL

(* Nothing is done for an event, or by a subscriber, that was not meant.   *)
THEOREM EffectsAreMeant == OutboxSpec => []NoSpuriousEffect
  <1>1. OutboxInv => NoSpuriousEffect
    BY DEF OutboxInv
  <1> QED BY <1>1, OutboxInvariant, PTL
=============================================================================
