------------------------------ MODULE SyncFlow ------------------------------
(***************************************************************************)
(* The dimensions won by a tick in one lane become one BullMQ flow         *)
(* (sync-flow-assembler.ts).  A flow is a tree in which a job has one      *)
(* parent, and dependencies form a graph, so the flow is a chain: the      *)
(* dimensions in a total order, each the child of the next.  A link that   *)
(* is a hard dependency fails the parent together with its child, any      *)
(* other link lets it go on.  A graph that a chain cannot express is       *)
(* refused.                                                                *)
(*                                                                         *)
(* Dimension keys are numbers, in the order of their names.                *)
(***************************************************************************)
EXTENDS Integers, Sequences, FiniteSets, SequencesExt

CONSTANTS
  Keys,        \* dimension keys
  Priorities   \* values of sync_dimension.priority

ASSUME SyncFlowAssumption ==
  /\ Keys \subseteq Nat /\ IsFiniteSet(Keys)
  /\ Priorities \subseteq Int

VARIABLES
  mode,        \* sync_dependency: the mode of each edge
  priority,    \* sync_dimension.priority
  won,         \* the dimensions to run
  phase,       \* "won", "queued" or "refused"
  chain,       \* the flow, deepest child first
  status       \* what became of each dimension's job

flowVars == <<mode, priority, won, phase, chain, status>>

Modes == {"none", "soft", "hard"}
Edge(u, d) == mode[<<u, d>>] # "none"

-----------------------------------------------------------------------------
(* assertAcyclic: every set of dimensions has one without upstream in it.  *)
Acyclic ==
  \A S \in (SUBSET Keys) \ {{}} : \E d \in S : \A u \in S : ~Edge(u, d)

(* The choice among the ready: highest priority, then first name.          *)
Precedes(a, b) ==
  \/ priority[a] > priority[b]
  \/ priority[a] = priority[b] /\ a < b

(* Mutant of Ready: soft edges do not count.                               *)
ReadyByHard(done) ==
  {d \in Keys \ done : \A u \in Keys \ done : mode[<<u, d>>] # "hard"}

(* In-degree 0: all upstreams are already in the order.                    *)
Ready(done) == {d \in Keys \ done : \A u \in Keys \ done : ~Edge(u, d)}

(* deriveExecutionOrder: Kahn's algorithm over all dimensions, also those  *)
(* that are not won.                                                       *)
pick(ready) == CHOOSE d \in ready : \A e \in ready \ {d} : Precedes(d, e)

executionOrder[n \in 0..Cardinality(Keys)] ==
  IF n = 0 THEN <<>>
  ELSE Append(executionOrder[n - 1],
              pick(Ready(ToSet(executionOrder[n - 1]))))

deriveExecutionOrder == executionOrder[Cardinality(Keys)]

(* Mutant of sortedWonChain: the dimensions that are not won run as well.  *)
wholeChain(order) == order

sortedWonChain(order) ==
  LET kept[n \in 0..Len(order)] ==
        IF n = 0 THEN <<>>
        ELSE IF order[n] \in won THEN Append(kept[n - 1], order[n])
        ELSE kept[n - 1]
  IN kept[Len(order)]

(* Mutant of Expressible: hard edges may be anywhere in the chain.         *)
ExpressibleAnyOrder(c) ==
  \A i, j \in DOMAIN c : Edge(c[i], c[j]) => i < j

(* assertEdgesExpressible: edges go with the order, and a hard edge joins  *)
(* neighbours in the chain.                                                *)
Expressible(c) ==
  \A i, j \in DOMAIN c :
    /\ Edge(c[i], c[j]) => i < j
    /\ mode[<<c[i], c[j]>>] = "hard" => j = i + 1

(* Mutant of failParentOnFailure: any dependency fails the parent.         *)
AnyEdgeFailsParent(i) == mode[<<chain[i], chain[i + 1]>>] # "none"

(* The option of the i-th job towards its parent, the next in the chain;   *)
(* a link without edge ignores failures.                                   *)
failParentOnFailure(i) == mode[<<chain[i], chain[i + 1]>>] = "hard"

-----------------------------------------------------------------------------
FlowInit ==
  /\ mode \in [Keys \X Keys -> Modes]
  /\ \A d \in Keys : mode[<<d, d>>] = "none"
  /\ priority \in [Keys -> Priorities]
  /\ won \in (SUBSET Keys) \ {{}}
  /\ phase = "won" /\ chain = <<>>
  /\ status = [d \in Keys |-> "waiting"]

(* A cycle anywhere in the graph, or a graph that a chain cannot express,  *)
(* throws: nothing is queued.                                              *)
assembleSyncFlow ==
  /\ phase = "won"
  /\ \E c \in IF ~Acyclic THEN {<<>>}
               ELSE {sortedWonChain(o) : o \in {deriveExecutionOrder}} :
       IF c # <<>> /\ Expressible(c)
       THEN phase' = "queued" /\ chain' = c
       ELSE phase' = "refused" /\ chain' = <<>>
  /\ UNCHANGED <<mode, priority, won, status>>

(* BullMQ runs a job when its child has ended, and not if the child's      *)
(* failure fails it.                                                       *)
Children(i) == {k \in DOMAIN chain : k = i - 1}

(* Mutant of ChildEnded: a bare child, whose failure leaves its parent     *)
(* waiting.                                                                *)
ChildSucceeded(i) == \A k \in Children(i) : status[chain[k]] = "ok"

ChildEnded(i) ==
  \A k \in Children(i) : status[chain[k]] \in {"ok", "failed", "dropped"}
FailedByChild(i) ==
  \E k \in Children(i) : /\ status[chain[k]] \in {"failed", "dropped"}
                         /\ failParentOnFailure(k)

SetStatus(i, from, to) ==
  /\ phase = "queued" /\ status[chain[i]] = from
  /\ status' = [status EXCEPT ![chain[i]] = to]
  /\ UNCHANGED <<mode, priority, won, phase, chain>>

JobStarts(i) ==
  ChildEnded(i) /\ ~FailedByChild(i) /\ SetStatus(i, "waiting", "running")
JobDropped(i) == FailedByChild(i) /\ SetStatus(i, "waiting", "dropped")
JobEnds(i, s) == SetStatus(i, "running", s)

FlowNext ==
  \/ assembleSyncFlow
  \/ \E i \in DOMAIN chain :
       \/ JobStarts(i) \/ JobDropped(i)
       \/ JobEnds(i, "ok") \/ JobEnds(i, "failed")

FlowSpec == FlowInit /\ [][FlowNext]_flowVars
FlowFairSpec == FlowSpec /\ WF_flowVars(FlowNext)

-----------------------------------------------------------------------------
(* Every variable has its type.                                            *)
FlowTypeOK ==
  /\ mode \in [Keys \X Keys -> Modes]
  /\ priority \in [Keys -> Priorities]
  /\ won \subseteq Keys
  /\ phase \in {"won", "queued", "refused"}
  /\ ToSet(chain) \subseteq won /\ IsInjective(chain)
  /\ status \in [Keys -> {"waiting", "running", "ok", "failed", "dropped"}]

(* The chain keeps all that the dependencies between the won dimensions    *)
(* say, direct or through others: order, hard failures that stop what      *)
(* follows, and nothing else that stops.                                   *)
Abstract == INSTANCE DimensionRuns WITH Dims <- Keys
ImplementsDimensionRuns == Abstract!Spec

(* Only what a chain cannot express is refused: a cycle, or a hard edge    *)
(* between won dimensions that other won dimensions must come between or   *)
(* are preferred to.  The check of the order's direction never fires.      *)
RefusedForCause ==
  phase = "refused" =>
    \/ ~Acyclic
    \/ \E order \in {deriveExecutionOrder} :
         \E i, k, j \in DOMAIN order :
           /\ i < k /\ k < j /\ mode[<<order[i], order[j]>>] = "hard"
           /\ {order[i], order[k], order[j]} \subseteq won

(* A queued flow ends, with every won dimension run, or dropped after a    *)
(* hard upstream that did not succeed: no parent waits for ever.           *)
EveryWonDimensionSettles ==
  phase = "queued" ~>
    \A d \in won : \/ status[d] \in {"ok", "failed"}
                   \/ /\ status[d] = "dropped"
                      /\ \E u \in won : /\ mode[<<u, d>>] = "hard"
                                        /\ status[u] \in {"failed", "dropped"}
=============================================================================
