---------------------------- MODULE ReviewWorkflow ----------------------------
(***************************************************************************)
(* One durable review workflow under the adaptive provider: the plan of    *)
(* stages, the evidence recorded against the current head, the stage       *)
(* results pinned to a commit and to a gate, the amendments that late risk *)
(* evidence makes, and the merge readiness derived from all of it          *)
(* (packages/core/src/review-workflows.ts).                                *)
(*                                                                         *)
(* A command is one transaction in one turn of the writer: an action.  The *)
(* revisions are 1 .. revision; the one numbered n + 1 was caused by the   *)
(* evidence history[n].  Every definition of a stage but its dependencies  *)
(* is fixed, for the core refuses to redefine a stage; the hash of a gate  *)
(* is abstracted to what it hashes.  All stages are required, as those of  *)
(* the default plan and of the adaptive provider are.                      *)
(***************************************************************************)
EXTENDS Naturals, Sequences, FiniteSets

CONSTANTS
  Stages,        \* every stage id that may come into the plan
  InitialDeps,   \* the stages of the first plan, with their dependencies
  Kind,          \* the kind of each stage
  Needs,         \* the evidence each stage needs: its type, and from whom
  RiskStages,    \* the stage each risk category asks for
  CheckStage,    \* the stage that every risk stage depends on ...
  ReviewStage,   \* ... and the one that is to depend on it
  Offers,        \* what evidence is offered: its type, source and category
  Remarks,       \* the offers that are made without a stage as well
  Heads,         \* commits
  Events,        \* external event ids
  Approvals,     \* enforcement.minimumHumanApprovals
  MaxRevision,   \* bound on revisions ...
  MaxMoves,      \* ... on those that move the head ...
  MaxRemarks     \* ... and on those that only record evidence

NoRisk == "no category"
HeadChanged == "git.head.changed"

VARIABLES
  head,      \* review_workflows.head_sha
  stages,    \* the stages of the current plan
  deps,      \* their dependencies
  history,   \* review_workflow_evidence, by recorded revision
  results    \* review_workflow_stage_results

vars == <<head, stages, deps, history, results>>

revision == Len(history) + 1

\* An offer made for a commit under an event id.
Submission(o, commit, event) ==
  [event |-> event, type |-> o.type, source |-> o.source, category |-> o.category,
   commit |-> commit]

Evidence == {Submission(o, commit, event) : o \in Offers, commit \in Heads, event \in Events}

-----------------------------------------------------------------------------
\* Plans.

\* The stages a stage depends on, directly or not, and itself: what every
\* dependency-closed set with the stage in it has in common.
ClosedWith(d, s) == {C \in SUBSET Stages : s \in C /\ \A t \in C : d[t] \subseteq C}

Below(d, s) == Stages \ UNION {Stages \ C : C \in ClosedWith(d, s)}

\* What stageGateHash hashes: the definitions of all of these.
GateAlone(d, s) == [t \in {s} |-> d[t]]       \* mutant: the stage's own only
Gate(d, s) == [t \in Below(d, s) |-> d[t]]

\* validatePlan, with the enforcement: known dependencies, no cycle, the three
\* baseline gates, and no human approval without a pull request below it.
StagesOf(ss, kind) == {s \in ss : Kind[s] = kind}

ValidPlan(ss, d) ==
  /\ \A s \in Stages : d[s] \subseteq ss /\ (s \notin ss => d[s] = {})
  /\ \A s \in ss : \A t \in d[s] : s \notin Below(d, t)
  /\ \A kind \in {"protected-base", "pull-request", "human-approval"} : StagesOf(ss, kind) # {}
  /\ \A s \in StagesOf(ss, "human-approval") :
       Below(d, s) \cap StagesOf(ss, "pull-request") # {}

Extend(f) == [s \in Stages |-> IF s \in DOMAIN f THEN f[s] ELSE {}]

ASSUME ReviewAssumption ==
  /\ DOMAIN InitialDeps \subseteq Stages
  /\ ValidPlan(DOMAIN InitialDeps, Extend(InitialDeps))
  /\ RiskStages \subseteq Stages /\ NoRisk \notin RiskStages
  /\ {CheckStage, ReviewStage} \subseteq DOMAIN InitialDeps
  /\ \A o \in Offers : o.category \in RiskStages \cup {NoRisk}
  /\ Approvals \in Nat /\ {MaxRevision, MaxMoves, MaxRemarks} \subseteq Nat
  /\ MaxRevision # 0

\* What merge readiness rests on, of the plans that are used: one human gate, the
\* only stage that a human approval completes; and no stage is completed by the
\* evidence that adds one.
ASSUME PolicyAssumption ==
  /\ \A s, t \in StagesOf(Stages, "human-approval") : s = t
  /\ \A s \in Stages :
       /\ Needs[s].type = "review.human.approved" /\ "human" \in Needs[s].from
            => Kind[s] = "human-approval"
       /\ Needs[s].type # "risk.detected"

TypeOK ==
  /\ head \in Heads
  /\ stages \subseteq Stages /\ deps \in [Stages -> SUBSET Stages]
  /\ ValidPlan(stages, deps)
  /\ history \in Seq(Evidence) /\ revision <= MaxRevision
  /\ \A x \in results :
       /\ x.revision \in 2 .. revision
       /\ x.stage \in stages /\ x.commit = history[x.revision - 1].commit

\* A created workflow, at revision 1.
Init ==
  /\ head \in Heads
  /\ stages = DOMAIN InitialDeps
  /\ deps = Extend(InitialDeps)
  /\ history = <<>>
  /\ results = {}

-----------------------------------------------------------------------------
\* What revise and applyAmendments make of the plan when e is recorded.

Risky(e) == e.type = "risk.detected" /\ e.category # NoRisk

RevisedStages(e) == IF Risky(e) THEN stages \cup {e.category} ELSE stages

\* (mutant: the risk stage is added, but nothing waits for it)
DetachedDeps(e) ==
  IF Risky(e) THEN [deps EXCEPT ![e.category] = {CheckStage}] ELSE deps

RevisedDeps(e) ==
  IF Risky(e)
  THEN [deps EXCEPT ![e.category] = {CheckStage}, ![ReviewStage] = @ \cup {e.category}]
  ELSE deps

-----------------------------------------------------------------------------
\* deriveStageStates, from the results that #stageResultsForPlan selects.

ResultsFor(h, d) == {x \in results : x.commit = h /\ x.gate = Gate(d, x.stage)}

StageSet(rs) == {x.stage : x \in rs}

Completed == StageSet(ResultsFor(head, deps)) \cap stages

\* The latest result of each completed stage.
Latest(rs) == {x \in rs : \A y \in rs : y.stage = x.stage => y.revision <= x.revision}

-----------------------------------------------------------------------------
\* The commands.  Whoever sends one has read the revision it expects.

\* #evidenceByExternalEventId
NeverKnown(event) == FALSE                     \* mutant: no replay check
Known(event) == \E n \in DOMAIN history : history[n].event = event

\* assertExpectedRevision
IsCurrent(expected) == expected = revision

\* A new event, against the revision and the head it names.
Admitted(expected, e) ==
  /\ ~Known(e.event)
  /\ IsCurrent(expected) /\ revision < MaxRevision
  /\ Risky(e) => ValidPlan(RevisedStages(e), RevisedDeps(e))

\* #advance: the next revision, with its evidence and the plan it leads to.
Advance(e) ==
  /\ history' = Append(history, e)
  /\ stages' = RevisedStages(e)
  /\ deps' = RevisedDeps(e)

\* validateEvidenceInput
OnHead(e) == e.commit = head

MayAppend(expected, e) == Admitted(expected, e) /\ OnHead(e)

AppendEvidence(expected, e) ==
  /\ MayAppend(expected, e)
  /\ Advance(e)
  /\ UNCHANGED <<head, results>>

\* validateStageEvidence
Satisfies(e, s) == e.type = Needs[s].type /\ e.source.kind \in Needs[s].from

\* (mutant: a stage may be completed before what it depends on)
DependenciesIgnored(done, d, s) == TRUE
DependenciesMet(done, d, s) == d[s] \subseteq done

\* The evidence is recorded first: the stage is judged by the plan it leads to.
MayComplete(expected, e, s) ==
  /\ Admitted(expected, e) /\ OnHead(e)
  /\ s \in RevisedStages(e) /\ Satisfies(e, s)
  /\ LET d == RevisedDeps(e)
         done == StageSet(ResultsFor(head, d))
     IN  s \notin done /\ DependenciesMet(done, d, s)

CompleteStage(expected, e, s) ==
  /\ MayComplete(expected, e, s)
  /\ results' = results \cup
       {[revision |-> revision + 1, stage |-> s, gate |-> Gate(RevisedDeps(e), s), commit |-> head]}
  /\ Advance(e)
  /\ UNCHANGED head

MayMove(expected, e) ==
  Admitted(expected, e) /\ e.type = HeadChanged /\ e.commit # head

UpdateHead(expected, e) ==
  /\ MayMove(expected, e)
  /\ head' = e.commit
  /\ Advance(e)
  /\ UNCHANGED results

\* A repetition: the event is known, and was recorded with this evidence.
Repeats(e) == \E n \in DOMAIN history : history[n] = e

\* ... and completed this stage.
RepeatsAny(e, s) == Repeats(e)                 \* mutant: whatever it completed
RepeatsFor(e, s) ==
  \E x \in results : x.stage = s /\ history[x.revision - 1] = e

-----------------------------------------------------------------------------
\* deriveMergeReadiness, from the evidence that #readinessEvidence selects.

MaxOf(S) == CHOOSE n \in S : \A m \in S : m <= n

HumanApproval(n) ==
  history[n].type = "review.human.approved" /\ history[n].source.kind = "human"

\* Approvals of the head given since the human gate was last passed.
\* (mutant: any approval of the head)
SinceEver(rs) == 1 .. Len(history)
SinceGate(rs) ==
  LET gates == {x.revision : x \in {y \in rs : Kind[y.stage] = "human-approval"}}
  IN  IF gates = {} THEN {} ELSE (MaxOf(gates) - 1) .. Len(history)

\* The entries of the history that readiness looks at.
Considered(rs) ==
  {x.revision - 1 : x \in rs}
    \cup {n \in SinceGate(rs) : HumanApproval(n) /\ history[n].commit = head}
    \cup {n \in DOMAIN history :
            history[n].type \in {"git.pull-request.opened", "git.base.protected"}
            /\ history[n].source.kind = "git-host" /\ history[n].commit = head}

Claimed(type, ns) ==
  \E n \in ns : history[n].type = type /\ history[n].source.kind = "git-host"

Approvers(ns) == {history[n].source : n \in {m \in ns : HumanApproval(m)}}

Ready ==
  LET rs == Latest(ResultsFor(head, deps))
      ns == Considered(rs)
  IN  /\ stages \subseteq StageSet(rs)
      /\ Claimed("git.pull-request.opened", ns) /\ Claimed("git.base.protected", ns)
      /\ Cardinality(Approvers(ns)) >= Approvals

-----------------------------------------------------------------------------
\* Requests against the current revision, with ids of their own; one that is
\* stale or a repetition changes nothing (ReviewClients sends those too).
moves == Cardinality({n \in DOMAIN history : history[n].type = HeadChanged})
remarks == Len(history) - moves - Cardinality(results)

Request(o, commit) ==
  LET e == Submission(o, commit, CHOOSE v \in Events : ~Known(v))
  IN  \/ o \in Remarks /\ remarks < MaxRemarks /\ AppendEvidence(revision, e)
      \/ \E s \in Stages : CompleteStage(revision, e, s)
      \/ moves < MaxMoves /\ UpdateHead(revision, e)

Next ==
  /\ revision < MaxRevision /\ \E v \in Events : ~Known(v)
  /\ \E o \in Offers, commit \in Heads : Request(o, commit)

Spec == Init /\ [][Next]_vars

-----------------------------------------------------------------------------
\* A stage counts as complete only while all it depends on does, whatever was
\* added to the plan since and however often the head moved to and fro.
CompletedClosed == \A s \in Completed : deps[s] \subseteq Completed

\* The results that count were recorded in an order the present plan allows,
\* one for each stage.
RecordedInOrder ==
  LET rs == ResultsFor(head, deps) IN
  \A x, y \in rs :
    /\ x.stage = y.stage => x = y
    /\ y.stage \in deps[x.stage] => y.revision < x.revision

\* Types, a valid plan (no cycle, every human gate behind a review of the pull request), and
\* results in its order.
WorkflowInv == TypeOK /\ RecordedInOrder

\* Ready to merge: enough different people have approved this very commit after
\* the last of the stages their approval has to wait for.
ReadyMeansApproved ==
  Ready =>
    LET gates == StagesOf(stages, "human-approval")
        rs == ResultsFor(head, deps)
        waitedFor == {x \in rs : \E s \in gates : x.stage # s /\ x.stage \in Below(deps, s)}
        approvals == {n \in DOMAIN history :
                        /\ HumanApproval(n) /\ history[n].commit = head
                        /\ \A x \in waitedFor : x.revision < n + 1}
    IN  /\ stages \subseteq StageSet(rs)
        /\ Cardinality({history[n].source : n \in approvals}) >= Approvals

\* A new risk reopens the review stage and everything that waits for it, and
\* nothing else.
RiskReopens ==
  [][stages' # stages =>
       Completed' = Completed \ {s \in Stages : ReviewStage \in Below(deps, s)}]_vars

\* "A head change invalidates every old result": what counts now was recorded
\* after the last change of the head.
HeadChangeInvalidates ==
  \A x \in ResultsFor(head, deps), n \in DOMAIN history :
    history[n].type = HeadChanged => n < x.revision
=============================================================================
