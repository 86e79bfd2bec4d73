--------------------------- MODULE IdeationSession ---------------------------
(***************************************************************************)
(* Idea sessions of apps/server/src/ideation: a session is talked through  *)
(* (clarify), turned into a brief (generate), handed off (export),         *)
(* reopened and deleted.                                                   *)
(*                                                                         *)
(* A use case is a series of database calls with LLM calls in between,     *)
(* under READ COMMITTED and without a lock on the session.  A request here *)
(* goes through the same series; requests on one session interleave        *)
(* between any two of its calls, and any of them may be abandoned.  Child  *)
(* rows (turns, draft, attachments) carry no foreign key.  A session id is *)
(* used once: `deleted` is the absence of a row that once existed.  All    *)
(* requests come from the session's owner: each call is scoped by          *)
(* accountId, and a stranger's gets the 404 of a missing session.          *)
(***************************************************************************)
EXTENDS Naturals, Sequences

CONSTANTS
  Sessions,  \* session ids
  Requests,  \* HTTP requests that run over several calls, each used once
  NoRequest, \* "no request"
  Repos,     \* grounding repositories a session can be locked to
  NoRepo     \* repo = null

ASSUME IdeationAssumption ==
  /\ Sessions # {}
  /\ NoRequest \notin Requests
  /\ NoRepo \notin Repos

VARIABLES
  session, \* the idea_session table
  round,   \* history: 1 + the times a session was reopened (0: not created)
  turns,   \* idea_turn rows of a session in id order, by the request that wrote them
  draft,   \* requirements_draft: the request whose brief is stored
  images,  \* idea_attachment rows, by the request that wrote them
  request, \* what a request has read, and its next call
  published\* the round whose requirement-finalized event a request published (0: none)

ideationVars == <<session, round, turns, draft, images, request, published>>

-----------------------------------------------------------------------------
Turn == [by: Requests, role: {"user", "assistant"}]

FINALISED == {"converged", "handed-off"}   \* REOPENABLE_STATUSES
Statuses == {"absent", "open", "deleted"} \cup FINALISED

(* `at` is the last call made: idle, checked (the first read), asked and   *)
(* streaming (clarify: user turn inserted, history read), rendering        *)
(* (export: draft read), purging (delete: child rows deleted, not          *)
(* committed), done.  `purged` and `locked` are the turn rows and the draft*)
(* row a delete has deleted and keeps locked; `image`: a clarify carries   *)
(* one; `imageOn`: whose user message it was attached to; `reply`: the     *)
(* status an export answered.                                              *)
Phases == {"idle", "checked", "asked", "streaming", "rendering", "purging", "done"}

Request == [at: Phases,
            op: {"generate", "clarify", "export", "delete"},
            on: Sessions, image: BOOLEAN,
            purged: Nat, locked: BOOLEAN,
            imageOn: Requests \cup {NoRequest},
            reply: {"none", "handed-off"}]

SomeSession == CHOOSE s \in Sessions : TRUE

NewRequest(op, s, image) ==
  [at |-> "checked", op |-> op, on |-> s, image |-> image, purged |-> 0,
   locked |-> FALSE, imageOn |-> NoRequest, reply |-> "none"]

IdeationTypeOK ==
  /\ session \in [Sessions -> [status: Statuses, repo: Repos \cup {NoRepo}]]
  /\ round \in [Sessions -> Nat]
  /\ turns \in [Sessions -> Seq(Turn)]
  /\ draft \in [Sessions -> Requests \cup {NoRequest}]
  /\ images \in [Sessions -> SUBSET Requests]
  /\ request \in [Requests -> Request]
  /\ published \in [Requests -> Nat]

IdeationInit ==
  /\ session = [s \in Sessions |-> [status |-> "absent", repo |-> NoRepo]]
  /\ round = [s \in Sessions |-> 0]
  /\ turns = [s \in Sessions |-> <<>>]
  /\ draft = [s \in Sessions |-> NoRequest]
  /\ images = [s \in Sessions |-> {}]
  /\ request = [r \in Requests |->
                  [NewRequest("clarify", SomeSession, FALSE) EXCEPT !.at = "idle"]]
  /\ published = [r \in Requests |-> 0]

Status(s) == session[s].status
Live(s) == Status(s) \in {"open"} \cup FINALISED
SetStatus(s, status) == session' = [session EXCEPT ![s].status = status]

Running(r, op, at) == request[r].op = op /\ request[r].at = at

Finish(r) == request' = [request EXCEPT ![r].at = "done"]

(* A delete in flight on s keeps its draft row locked.                     *)
DraftLocked(s) ==
  \E r \in Requests : Running(r, "delete", "purging")
                        /\ request[r].on = s /\ request[r].locked

(* A delete in flight on s keeps some child row locked.                    *)
ChildrenLocked(s) ==
  \E r \in Requests : Running(r, "delete", "purging") /\ request[r].on = s
                        /\ (request[r].locked \/ request[r].purged > 0)

-----------------------------------------------------------------------------
(* Handlers that are one statement                                         *)

CreateSession(s) ==
  /\ Status(s) = "absent"
  /\ SetStatus(s, "open")
  /\ round' = [round EXCEPT ![s] = 1]
  /\ UNCHANGED <<turns, draft, images, request, published>>

(* The conditional update wins; on an open session it changes nothing.     *)
ReopenSession(s) ==
  /\ Status(s) \in FINALISED
  /\ SetStatus(s, "open")
  /\ round' = [round EXCEPT ![s] = @ + 1]
  /\ UNCHANGED <<turns, draft, images, request, published>>

SetSessionRepo(s, repo) ==
  /\ Status(s) = "open"
  /\ session' = [session EXCEPT ![s].repo = repo]
  /\ UNCHANGED <<round, turns, draft, images, request, published>>

-----------------------------------------------------------------------------
(* The first read of a multi-call handler.  Generate and clarify ask for an*)
(* open session, export and delete for one that exists.  What fails the    *)
(* read is a 404 and no request at all.                                    *)
Begin(r, op, s, image) ==
  /\ request[r].at = "idle"
  /\ IF op \in {"generate", "clarify"} THEN Status(s) = "open" ELSE Live(s)
  /\ image => op = "clarify"
  /\ request' = [request EXCEPT ![r] = NewRequest(op, s, image)]
  /\ UNCHANGED <<session, round, turns, draft, images, published>>

(* A request ends with nothing more written: its process dies, its database*)
(* or LLM call fails, the brief is incomplete, an open transaction is      *)
(* rolled back.                                                            *)
Abandon(r) ==
  /\ request[r].at \notin {"idle", "done"}
  /\ Finish(r)
  /\ UNCHANGED <<session, round, turns, draft, images, published>>

(* Mutant of GenerateCommit: the event is published without asking whether *)
(* the conditional update matched.                                         *)
GenerateAlwaysPublishes(r) ==
  /\ Running(r, "generate", "checked")
  /\ ~DraftLocked(request[r].on)
  /\ LET s == request[r].on IN
       /\ draft' = [draft EXCEPT ![s] = r]
       /\ session' = [session EXCEPT ![s].status = IF @ = "open" THEN "converged" ELSE @]
       /\ published' = [published EXCEPT ![r] = round[s]]
  /\ Finish(r)
  /\ UNCHANGED <<round, turns, images>>

(* GenerateBriefUseCase's transaction, after the LLM has emitted a complete*)
(* brief: the draft is upserted whatever the session has become meanwhile; *)
(* the conditional open -> converged, and with it the event, only if it is *)
(* still open.  The upsert waits for a delete that holds the draft.        *)
GenerateCommit(r) ==
  /\ Running(r, "generate", "checked")
  /\ ~DraftLocked(request[r].on)
  /\ LET s == request[r].on
         won == Status(s) = "open" IN
       /\ draft' = [draft EXCEPT ![s] = r]
       /\ session' = [session EXCEPT ![s].status = IF won THEN "converged" ELSE @]
       /\ published' = [published EXCEPT ![r] = IF won THEN round[s] ELSE @]
  /\ Finish(r)
  /\ UNCHANGED <<round, turns, images>>

(* ClarifyTurnUseCase: user turn and attachment in one transaction.        *)
ClarifyAsk(r) ==
  /\ Running(r, "clarify", "checked")
  /\ LET s == request[r].on IN
       /\ turns' = [turns EXCEPT ![s] = Append(@, [by |-> r, role |-> "user"])]
       /\ images' = [images EXCEPT ![s] = IF request[r].image THEN @ \cup {r} ELSE @]
  /\ request' = [request EXCEPT ![r].at = "asked"]
  /\ UNCHANGED <<session, round, draft, published>>

(* The author of the last user turn of a history.                          *)
LastAsker(history) ==
  LET last == {i \in 1..Len(history) :
                 /\ history[i].role = "user"
                 /\ \A j \in (i + 1)..Len(history) : history[j].role # "user"} IN
    IF last = {} THEN NoRequest ELSE history[CHOOSE i \in last : TRUE].by

(* The history is read back; an image goes to the last user message.       *)
ClarifyRead(r) ==
  /\ Running(r, "clarify", "asked")
  /\ request' = [request EXCEPT ![r].at = "streaming",
       ![r].imageOn = IF request[r].image THEN LastAsker(turns[request[r].on])
                                          ELSE NoRequest]
  /\ UNCHANGED <<session, round, turns, draft, images, published>>

(* The stream has ended or was stopped: landAssistant inserts the assistant*)
(* turn, without another look at the session.                              *)
LandAssistant(r) ==
  /\ Running(r, "clarify", "streaming")
  /\ LET s == request[r].on IN
       turns' = [turns EXCEPT ![s] = Append(@, [by |-> r, role |-> "assistant"])]
  /\ Finish(r)
  /\ UNCHANGED <<session, round, draft, images, published>>

(* ExportBriefUseCase reads the draft (none: 404) ...                      *)
ExportRead(r) ==
  /\ Running(r, "export", "checked")
  /\ request' = [request EXCEPT ![r].at =
       IF draft[request[r].on] = NoRequest THEN "done" ELSE "rendering"]
  /\ UNCHANGED <<session, round, turns, draft, images, published>>

(* Mutants of ExportMark: any session is handed off; the answer is the     *)
(* status from before the update.                                          *)
ExportMarksAny(r) ==
  /\ Running(r, "export", "rendering")
  /\ LET s == request[r].on IN
       session' = [session EXCEPT ![s].status = IF Live(s) THEN "handed-off" ELSE @]
  /\ request' = [request EXCEPT ![r].at = "done", ![r].reply = "handed-off"]
  /\ UNCHANGED <<round, turns, draft, images, published>>

ExportAnswersOldStatus(r) ==
  /\ Running(r, "export", "rendering")
  /\ LET s == request[r].on IN
       /\ session' = [session EXCEPT ![s].status =
                        IF @ = "converged" THEN "handed-off" ELSE @]
       /\ request' = [request EXCEPT ![r].at = "done", ![r].reply = Status(s)]
  /\ UNCHANGED <<round, turns, draft, images, published>>

(* ... and moves converged to handed-off; whatever that did, the answer    *)
(* says handed-off.                                                        *)
ExportMark(r) ==
  /\ Running(r, "export", "rendering")
  /\ LET s == request[r].on IN
       session' = [session EXCEPT ![s].status =
                     IF @ = "converged" THEN "handed-off" ELSE @]
  /\ request' = [request EXCEPT ![r].at = "done", ![r].reply = "handed-off"]
  /\ UNCHANGED <<round, turns, draft, images, published>>

(* Mutant of DeleteChildren: the deletes are not one transaction.          *)
DeleteChildrenAtOnce(r) ==
  /\ Running(r, "delete", "checked")
  /\ LET s == request[r].on IN
       /\ turns' = [turns EXCEPT ![s] = <<>>]
       /\ draft' = [draft EXCEPT ![s] = NoRequest]
  /\ request' = [request EXCEPT ![r].at = "purging"]
  /\ UNCHANGED <<session, round, images, published>>

(* DeleteSessionUseCase's transaction: the child rows there are now ...    *)
DeleteChildren(r) ==
  /\ Running(r, "delete", "checked")
  /\ LET s == request[r].on IN
       /\ ~ChildrenLocked(s)
       /\ request' = [request EXCEPT ![r].at = "purging",
                                     ![r].purged = Len(turns[s]),
                                     ![r].locked = draft[s] # NoRequest]
  /\ UNCHANGED <<session, round, turns, draft, images, published>>

(* ... and the session row; commit.  If another delete was first, there is *)
(* no row to delete and everything is rolled back.                         *)
DeleteCommit(r) ==
  /\ Running(r, "delete", "purging")
  /\ LET s == request[r].on
         won == Live(s) IN
       /\ session' = [session EXCEPT ![s].status = IF won THEN "deleted" ELSE @]
       /\ turns' = [turns EXCEPT ![s] =
                      IF won THEN SubSeq(@, request[r].purged + 1, Len(@)) ELSE @]
       /\ draft' = [draft EXCEPT ![s] =
                      IF won /\ request[r].locked THEN NoRequest ELSE @]
  /\ Finish(r)
  /\ UNCHANGED <<round, images, published>>

RequestStep(r) ==
  \/ Abandon(r)
  \/ GenerateCommit(r)
  \/ ClarifyAsk(r) \/ ClarifyRead(r) \/ LandAssistant(r)
  \/ ExportRead(r) \/ ExportMark(r)
  \/ DeleteChildren(r) \/ DeleteCommit(r)

Operations == {"generate", "clarify", "export", "delete"}

IdeationNext ==
  \/ \E s \in Sessions : CreateSession(s) \/ ReopenSession(s)
  \/ \E s \in Sessions, repo \in Repos : SetSessionRepo(s, repo)
  \/ \E r \in Requests, op \in Operations, s \in Sessions, image \in BOOLEAN :
       Begin(r, op, s, image)
  \/ \E r \in Requests : RequestStep(r)

IdeationSpec == IdeationInit /\ [][IdeationNext]_ideationVars

-----------------------------------------------------------------------------
(* Safety                                                                  *)

(* Exactly-once finalisation: however many generates race, each round of a *)
(* session (from its creation or reopening to the next reopening) has      *)
(* published exactly one requirement-finalized event once it is converged, *)
(* and none before.                                                        *)
FinalizedOncePerRound ==
  /\ \A q, r \in Requests :
       (published[q] # 0 /\ published[q] = published[r]
          /\ request[q].on = request[r].on) => q = r
  /\ \A s \in Sessions :
       LET rounds == {published[r] : r \in {q \in Requests : request[q].on = s}} IN
         /\ \A k \in 1..round[s] :
              k < round[s] \/ Status(s) \in FINALISED => k \in rounds
         /\ Status(s) = "open" => round[s] \notin rounds

(* A session that reads converged or handed-off has a brief: what the      *)
(* worker is told to fetch, and what export renders, is there, even while a*)
(* delete of the session is half way.                                      *)
ConvergedHasDraft ==
  \A s \in Sessions : Status(s) \in FINALISED => draft[s] # NoRequest

(* A live session never shows an assistant turn without the user turn it   *)
(* answers before it, with concurrent turns, failed deletes and abandoned  *)
(* streams.                                                                *)
AnswerFollowsQuestion ==
  \A s \in Sessions : Live(s) =>
    \A j \in 1..Len(turns[s]) :
      turns[s][j].role = "assistant" =>
        \E i \in 1..(j - 1) : turns[s][i] = [by |-> turns[s][j].by, role |-> "user"]

(* The status machine: the only moves are open -> converged, converged ->  *)
(* handed-off, either of these -> open, and any -> deleted, which is final.*)
StatusMovesLegally ==
  [][\A s \in Sessions :
       \/ Status(s)' = Status(s)
       \/ Status(s) = "absent" /\ Status(s)' = "open"
       \/ Status(s) = "open" /\ Status(s)' \in {"converged", "deleted"}
       \/ Status(s) = "converged" /\ Status(s)' \in {"handed-off", "open", "deleted"}
       \/ Status(s) = "handed-off" /\ Status(s)' \in {"open", "deleted"}]_ideationVars

-----------------------------------------------------------------------------
(* What the source's comments say, and the code does not keep              *)

(* delete-session.usecase.ts: one transaction deletes turns, brief and     *)
(* session together, "otherwise orphan turn / brief rows are left".        *)
NoOrphans ==
  \A s \in Sessions : Status(s) = "deleted" =>
    turns[s] = <<>> /\ draft[s] = NoRequest

(* generate-brief.usecase.ts: a converged session must be reopened before  *)
(* its brief can be generated again.                                       *)
ConvergedBriefIsFixed ==
  [][\A s \in Sessions :
       Status(s) \in FINALISED /\ Status(s)' \in FINALISED
         => draft'[s] = draft[s]]_ideationVars

(* brief.controller.ts: export moves a converged session to handed-off, and*)
(* its answer carries that status.  At the moment of the answer the session*)
(* is handed off (or gone).                                                *)
ExportHandsOff ==
  [][\A r \in Requests :
       (request[r].reply = "none" /\ request'[r].reply = "handed-off")
         => Status(request[r].on)' \in {"handed-off", "deleted"}]_ideationVars

(* clarify-turn.usecase.ts: the last user message of the history, which is *)
(* given the image, is the turn just inserted.                             *)
ImageOnOwnTurn ==
  \A r \in Requests : request[r].imageOn \in {r, NoRequest}
=============================================================================
