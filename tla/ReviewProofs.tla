----------------------------- MODULE ReviewProofs -----------------------------
(***************************************************************************)
(* Proofs about ReviewWorkflow, for every set of stages, plan, commit and  *)
(* offer of evidence: what counts as complete was recorded in an order the *)
(* present plan allows, however the plan grew and the head moved.  What    *)
(* every command does is shown once, for the workflow alone and for the    *)
(* clients of ReviewClients, who repeat their commands over a network.     *)
(***************************************************************************)
EXTENDS ReviewClients, FiniteSetTheorems, TLAPS

Plans == [Stages -> SUBSET Stages]

-----------------------------------------------------------------------------
\* Gates.

\* What is below a stage is closed under dependencies and contains the stage.
LEMMA BelowIsClosed ==
  ASSUME NEW d \in Plans, NEW s \in Stages
  PROVE  /\ s \in Below(d, s) /\ Below(d, s) \subseteq Stages
         /\ \A t \in Below(d, s) : d[t] \subseteq Below(d, s)
BY DEF Below, ClosedWith, Plans

\* ... and the least such set.
LEMMA BelowIsLeast ==
  ASSUME NEW d \in Plans, NEW s \in Stages, NEW C \in SUBSET Stages, s \in C,
         \A t \in C : d[t] \subseteq C
  PROVE  Below(d, s) \subseteq C
BY DEF Below, ClosedWith

\* Plans that agree below a stage agree below everything it depends on.
LEMMA BelowIsLocal ==
  ASSUME NEW c \in Plans, NEW d \in Plans, NEW s \in Stages, NEW t \in Below(c, s),
         Below(c, s) = Below(d, s), \A u \in Below(c, s) : c[u] = d[u]
  PROVE  Below(c, t) \subseteq Below(d, t)
<1> DEFINE C == Below(c, s) \cap Below(d, t)
<1>1. t \in Stages
  BY BelowIsClosed
<1>2. t \in C /\ C \subseteq Stages
  BY <1>1, BelowIsClosed
<1>3. ASSUME NEW u \in C PROVE c[u] \subseteq C
  BY <1>1, <1>3, BelowIsClosed
<1>4. Below(c, t) \subseteq C
  <2> HIDE DEF C
  <2>1. QED BY <1>1, <1>2, <1>3, BelowIsLeast
<1>5. QED BY <1>4

\* Two plans that give a stage the same gate give all it depends on the same gates.
LEMMA GateDetermines ==
  ASSUME NEW c \in Plans, NEW d \in Plans, NEW s \in Stages, Gate(c, s) = Gate(d, s)
  PROVE  c[s] = d[s] /\ \A t \in c[s] : Gate(c, t) = Gate(d, t)
<1>1. Below(c, s) = Below(d, s) /\ \A u \in Below(c, s) : c[u] = d[u]
  BY DEF Gate
<1>2. c[s] = d[s]
  BY <1>1, BelowIsClosed
<1>3. ASSUME NEW t \in c[s] PROVE Gate(c, t) = Gate(d, t)
  <2>1. t \in Below(c, s) /\ t \in Below(d, s) /\ t \in Stages
    BY <1>1, BelowIsClosed
  <2>2. Below(c, t) = Below(d, t)
    <3>1. Below(c, t) \subseteq Below(d, t)
      BY <1>1, <2>1, BelowIsLocal
    <3>2. Below(d, t) \subseteq Below(c, t)
      BY <1>1, <2>1, BelowIsLocal
    <3>3. QED BY <3>1, <3>2
  <2>3. Below(c, t) \subseteq Below(c, s)
    BY <2>1, BelowIsClosed, BelowIsLeast
  <2>4. QED BY <1>1, <2>2, <2>3 DEF Gate
<1>4. QED BY <1>2, <1>3

-----------------------------------------------------------------------------
\* Types.

\* #advance goes from a valid plan to a valid plan and loses no stage.
LEMMA AdvanceType ==
  ASSUME TypeOK, NEW e \in Evidence, Advance(e), revision < MaxRevision,
         Risky(e) => ValidPlan(RevisedStages(e), RevisedDeps(e))
  PROVE  /\ history' \in Seq(Evidence) /\ revision' = revision + 1 /\ revision' <= MaxRevision
         /\ history'[revision] = e /\ \A n \in 1 .. Len(history) : history'[n] = history[n]
         /\ stages \subseteq stages' /\ stages' \subseteq Stages
         /\ deps' = RevisedDeps(e) /\ deps' \in Plans /\ ValidPlan(stages', deps')
<1> USE DEF TypeOK, Plans
<1>1. /\ history' \in Seq(Evidence) /\ Len(history') = Len(history) + 1
      /\ history'[Len(history) + 1] = e /\ \A n \in 1 .. Len(history) : history'[n] = history[n]
  BY DEF Advance
<1>2. Risky(e) => e.category \in Stages /\ CheckStage \in Stages /\ ReviewStage \in Stages
  BY ReviewAssumption DEF Evidence, Submission, Risky
<1>3. RevisedDeps(e) \in Plans /\ RevisedStages(e) \subseteq Stages /\ stages \subseteq RevisedStages(e)
  BY <1>2 DEF RevisedDeps, RevisedStages
<1>4. ValidPlan(RevisedStages(e), RevisedDeps(e))
  BY DEF RevisedDeps, RevisedStages
<1>5. revision' = revision + 1 /\ revision' <= MaxRevision
  BY <1>1, ReviewAssumption DEF revision
<1>6. QED BY <1>1, <1>3, <1>4, <1>5 DEF Advance, revision

\* A request with an id of its own is evidence.
LEMMA RequestIsEvidence ==
  ASSUME NEW o \in Offers, NEW commit \in Heads, \E v \in Events : ~Known(v)
  PROVE  Submission(o, commit, CHOOSE v \in Events : ~Known(v)) \in Evidence
<1>1. PICK v : v = CHOOSE w \in Events : ~Known(w)
  OBVIOUS
<1>2. v \in Events
  BY <1>1
<1>3. Submission(o, commit, v) \in Evidence
  BY <1>2 DEF Evidence
<1>4. QED BY <1>1, <1>3

\* A command against the current revision that is carried out with evidence e.
Command(e) ==
  \/ AppendEvidence(revision, e)
  \/ \E s \in Stages : CompleteStage(revision, e, s)
  \/ UpdateHead(revision, e)

LEMMA StepsAreCommands ==
  ASSUME [Next]_vars
  PROVE  UNCHANGED vars \/ \E e \in Evidence : Command(e)
<1>1. ASSUME NEW o \in Offers, NEW commit \in Heads, \E v \in Events : ~Known(v), Request(o, commit)
      PROVE  \E e \in Evidence : Command(e)
  <2>1. PICK e : e = Submission(o, commit, CHOOSE v \in Events : ~Known(v))
    OBVIOUS
  <2>2. e \in Evidence
    BY <1>1, <2>1, RequestIsEvidence
  <2>3. AppendEvidence(revision, e) \/ (\E s \in Stages : CompleteStage(revision, e, s))
        \/ UpdateHead(revision, e)
    BY <1>1, <2>1 DEF Request
  <2>4. QED BY <2>2, <2>3 DEF Command
<1>2. QED BY <1>1 DEF Next

\* What every command does: it advances, and only a head that changes moves it.
LEMMA CommandsAdvance ==
  ASSUME NEW e \in Evidence, Command(e)
  PROVE  /\ Advance(e) /\ Admitted(revision, e)
         /\ \/ head' = head /\ e.commit = head
            \/ head' = e.commit /\ e.type = HeadChanged /\ UNCHANGED results
BY DEF Command, AppendEvidence, MayAppend, CompleteStage, MayComplete, UpdateHead, MayMove, OnHead

\* What a completed stage adds.
LEMMA CommandResults ==
  ASSUME NEW e \in Evidence, Command(e)
  PROVE  \/ UNCHANGED results
         \/ \E s \in Stages :
              /\ results' = results \cup
                   {[revision |-> revision + 1, stage |-> s, gate |-> Gate(RevisedDeps(e), s),
                     commit |-> head]}
              /\ s \in RevisedStages(e) /\ Satisfies(e, s) /\ head' = head /\ e.commit = head
              /\ s \notin StageSet(ResultsFor(head, RevisedDeps(e)))
              /\ RevisedDeps(e)[s] \subseteq StageSet(ResultsFor(head, RevisedDeps(e)))
BY DEF Command, AppendEvidence, CompleteStage, MayComplete, UpdateHead, DependenciesMet, OnHead

LEMMA CommandType ==
  ASSUME TypeOK, NEW e \in Evidence, Command(e)
  PROVE  TypeOK'
<1>1. Len(history) \in Nat /\ revision = Len(history) + 1
  BY DEF TypeOK, revision
<1>2. Advance(e) /\ Admitted(revision, e)
  BY CommandsAdvance
<1>3. /\ history' \in Seq(Evidence) /\ revision' = revision + 1 /\ revision' <= MaxRevision
      /\ history'[revision] = e /\ \A n \in 1 .. Len(history) : history'[n] = history[n]
      /\ stages \subseteq stages' /\ stages' \subseteq Stages
      /\ deps' \in Plans /\ ValidPlan(stages', deps')
  BY <1>2, AdvanceType DEF Admitted
<1>4. head' \in Heads
  BY CommandsAdvance DEF TypeOK, Evidence, Submission
<1>5. ASSUME NEW x \in results
      PROVE  /\ x.revision \in 2 .. revision'
             /\ x.stage \in stages' /\ x.commit = history'[x.revision - 1].commit
  BY <1>1, <1>3 DEF TypeOK
<1>6. ASSUME NEW s \in RevisedStages(e), NEW g, e.commit = head,
             NEW x, x = [revision |-> revision + 1, stage |-> s, gate |-> g, commit |-> head]
      PROVE  /\ x.revision \in 2 .. revision'
             /\ x.stage \in stages' /\ x.commit = history'[x.revision - 1].commit
  BY <1>1, <1>2, <1>3, <1>6 DEF Advance
<1>7. \A x \in results' : /\ x.revision \in 2 .. revision'
                          /\ x.stage \in stages' /\ x.commit = history'[x.revision - 1].commit
  BY <1>5, <1>6, CommandResults
<1>8. QED BY <1>3, <1>4, <1>7 DEF TypeOK, Plans

LEMMA InitType == Init => TypeOK
<1> SUFFICES ASSUME Init PROVE TypeOK
  OBVIOUS
<1>1. deps \in [Stages -> SUBSET Stages]
  BY ReviewAssumption DEF Init, ValidPlan, Extend
<1>2. history \in Seq(Evidence) /\ revision = 1
  BY DEF Init, revision
<1>3. QED BY <1>1, <1>2, ReviewAssumption DEF Init, TypeOK

LEMMA UnchangedType == TypeOK /\ UNCHANGED vars => TypeOK'
BY DEF vars, TypeOK, revision

\* Every reachable plan is valid: no cycle, the baseline gates, and every human
\* gate behind a pull request; and every result stands for recorded evidence
\* (createWorkflow, validatePlan, applyAmendments).
THEOREM ReviewTypes == Spec => []TypeOK
<1>1. TypeOK /\ [Next]_vars => TypeOK'
  BY StepsAreCommands, CommandType, UnchangedType
<1>2. QED BY <1>1, InitType, PTL DEF Spec

-----------------------------------------------------------------------------
\* Results.

\* One result for each stage, commit and gate.
Unique ==
  \A x, y \in results : x.stage = y.stage /\ x.commit = y.commit /\ x.gate = y.gate => x = y

\* By every plan that gives a result's stage its gate, the stages it depends on
\* had their results for the commit before.
Founded ==
  \A d \in Plans, x \in results : x.gate = Gate(d, x.stage) =>
    \A t \in d[x.stage] :
      \E y \in ResultsFor(x.commit, d) : y.stage = t /\ y.revision < x.revision

ResultsInv == Unique /\ Founded

\* Results that stay go on being founded.
LEMMA ResultsKept ==
  ASSUME ResultsInv, UNCHANGED results
  PROVE  ResultsInv'
BY DEF ResultsInv, Unique, Founded, ResultsFor

\* A completed stage adds a founded result, and the only one of its gate.
LEMMA ResultAdded ==
  ASSUME TypeOK, ResultsInv, NEW d0 \in Plans, NEW s \in Stages,
         NEW n, n = [revision |-> revision + 1, stage |-> s, gate |-> Gate(d0, s), commit |-> head],
         results' = results \cup {n},
         s \notin StageSet(ResultsFor(head, d0)), d0[s] \subseteq StageSet(ResultsFor(head, d0))
  PROVE  ResultsInv'
<1> USE DEF ResultsFor, StageSet
<1>1. \A y \in results : ~(y.stage = s /\ y.commit = head /\ y.gate = Gate(d0, s))
  OBVIOUS
<1>2. Unique'
  BY <1>1 DEF ResultsInv, Unique
<1>3. ASSUME NEW d \in Plans, NEW x \in results', x.gate = Gate(d, x.stage), NEW t \in d[x.stage]
      PROVE  \E y \in results' : /\ y.commit = x.commit /\ y.gate = Gate(d, y.stage)
                                 /\ y.stage = t /\ y.revision < x.revision
  <2>1. CASE x \in results
    BY <1>3, <2>1 DEF ResultsInv, Founded
  <2>2. CASE x = n
    <3>1. Gate(d0, s) = Gate(d, s)
      BY <1>3, <2>2
    <3>2. t \in d0[s] /\ Gate(d0, t) = Gate(d, t)
      BY <1>3, <2>2, <3>1, GateDetermines
    <3>3. PICK y \in results : y.commit = head /\ y.gate = Gate(d0, y.stage) /\ y.stage = t
      BY <3>2
    <3>4. y.revision \in Nat /\ y.revision < revision + 1
      BY DEF TypeOK, revision
    <3>5. QED BY <2>2, <3>2, <3>3, <3>4
  <2>3. QED BY <2>1, <2>2
<1>4. Founded'
  BY <1>3 DEF Founded
<1>5. QED BY <1>2, <1>4 DEF ResultsInv

LEMMA CommandFounded ==
  ASSUME TypeOK, ResultsInv, NEW e \in Evidence, Command(e)
  PROVE  ResultsInv'
<1>1. RevisedDeps(e) \in Plans
  BY CommandsAdvance, AdvanceType DEF Admitted
<1>2. ASSUME NEW s \in Stages,
             results' = results \cup
               {[revision |-> revision + 1, stage |-> s, gate |-> Gate(RevisedDeps(e), s),
                 commit |-> head]},
             s \notin StageSet(ResultsFor(head, RevisedDeps(e))),
             RevisedDeps(e)[s] \subseteq StageSet(ResultsFor(head, RevisedDeps(e)))
      PROVE  ResultsInv'
  BY <1>1, <1>2, ResultAdded
<1>3. QED BY <1>2, CommandResults, ResultsKept

\* Every stage result rests on earlier results for the same commit (completeStage
\* with missingDependencies, pinned by stageGateHash).
THEOREM ResultsAreFounded == Spec => []ResultsInv
<1>1. Init => ResultsInv
  BY DEF Init, ResultsInv, Unique, Founded
<1>2. TypeOK /\ ResultsInv /\ [Next]_vars => ResultsInv'
  BY StepsAreCommands, CommandFounded, ResultsKept DEF vars
<1>3. QED BY <1>1, <1>2, ReviewTypes, PTL DEF Spec

-----------------------------------------------------------------------------
\* What counts for the current head and plan.

LEMMA CountsInOrder == TypeOK /\ ResultsInv => RecordedInOrder
<1> SUFFICES ASSUME TypeOK, ResultsInv,
                    NEW x \in ResultsFor(head, deps), NEW y \in ResultsFor(head, deps)
             PROVE  /\ x.stage = y.stage => x = y
                    /\ y.stage \in deps[x.stage] => y.revision < x.revision
  BY DEF RecordedInOrder
<1>1. /\ x \in results /\ x.commit = head /\ x.gate = Gate(deps, x.stage)
      /\ y \in results /\ y.commit = head /\ y.gate = Gate(deps, y.stage)
  BY DEF ResultsFor
<1>2. x.stage = y.stage => x = y
  BY <1>1 DEF ResultsInv, Unique
<1>3. ASSUME y.stage \in deps[x.stage] PROVE y.revision < x.revision
  <2>1. deps \in Plans
    BY DEF TypeOK, Plans
  <2>2. PICK z \in ResultsFor(head, deps) : z.stage = y.stage /\ z.revision < x.revision
    BY <1>1, <1>3, <2>1 DEF ResultsInv, Founded
  <2>3. z = y
    BY <1>1, <2>2 DEF ResultsFor, ResultsInv, Unique
  <2>4. QED BY <2>2, <2>3
<1>4. QED BY <1>2, <1>3

\* The plan is always valid, and the results that count were recorded in an order
\* it allows, one for each stage (deriveStageStates, #stageResultsForPlan).
THEOREM WorkflowInvariant == Spec => []WorkflowInv
BY CountsInOrder, ReviewTypes, ResultsAreFounded, PTL DEF WorkflowInv

LEMMA CountsAreClosed == TypeOK /\ ResultsInv => CompletedClosed
<1> SUFFICES ASSUME TypeOK, ResultsInv, NEW s \in Completed, NEW t \in deps[s]
             PROVE  t \in Completed
  BY DEF CompletedClosed
<1>1. s \in stages /\ t \in stages /\ deps \in Plans
  BY DEF Completed, TypeOK, ValidPlan, Plans
<1>2. PICK x \in ResultsFor(head, deps) : x.stage = s
  BY DEF Completed, StageSet
<1>3. x \in results /\ x.commit = head /\ x.gate = Gate(deps, x.stage)
  BY DEF ResultsFor
<1>4. \E y \in ResultsFor(head, deps) : y.stage = t
  BY <1>1, <1>2, <1>3 DEF ResultsInv, Founded
<1>5. QED BY <1>1, <1>4 DEF Completed, StageSet

\* A stage counts as complete only while all it depends on does, whatever was
\* added to the plan since and however often the head moved to and fro.
THEOREM CompletionIsClosed == Spec => []CompletedClosed
BY CountsAreClosed, ReviewTypes, ResultsAreFounded, PTL

-----------------------------------------------------------------------------
\* Merge readiness.

\* The evidence of a result fits its stage, and its gate names stages of the plan,
\* which has all those it began with.
Fits ==
  /\ DOMAIN InitialDeps \subseteq stages
  /\ \A x \in results : /\ Satisfies(history[x.revision - 1], x.stage)
                       /\ DOMAIN x.gate \subseteq stages

LEMMA BelowIsPlanned ==
  ASSUME NEW ss \in SUBSET Stages, NEW d \in Plans, ValidPlan(ss, d), NEW s \in ss
  PROVE  Below(d, s) \subseteq ss
BY BelowIsLeast DEF ValidPlan

LEMMA CommandFits ==
  ASSUME TypeOK, Fits, NEW e \in Evidence, Command(e)
  PROVE  Fits'
<1>1. Len(history) \in Nat /\ revision = Len(history) + 1
  BY DEF TypeOK, revision
<1>2. Advance(e) /\ Admitted(revision, e)
  BY CommandsAdvance
<1>3. /\ history'[revision] = e /\ \A n \in 1 .. Len(history) : history'[n] = history[n]
      /\ stages \subseteq stages' /\ stages' \subseteq Stages
      /\ deps' = RevisedDeps(e) /\ deps' \in Plans /\ ValidPlan(stages', deps')
  BY <1>2, AdvanceType DEF Admitted
<1>4. ASSUME NEW x \in results
      PROVE  Satisfies(history'[x.revision - 1], x.stage) /\ DOMAIN x.gate \subseteq stages'
  <2>1. x.revision \in 2 .. revision
    BY DEF TypeOK
  <2>2. history'[x.revision - 1] = history[x.revision - 1]
    BY <1>1, <1>3, <2>1
  <2>3. QED BY <1>3, <2>2 DEF Fits
<1>5. ASSUME NEW s \in Stages, s \in RevisedStages(e), Satisfies(e, s), NEW x,
             x = [revision |-> revision + 1, stage |-> s, gate |-> Gate(RevisedDeps(e), s),
                  commit |-> head]
      PROVE  Satisfies(history'[x.revision - 1], x.stage) /\ DOMAIN x.gate \subseteq stages'
  <2>1. x.revision - 1 = revision /\ x.stage = s /\ DOMAIN x.gate = Below(deps', s)
    BY <1>1, <1>3, <1>5 DEF Gate
  <2>2. s \in stages'
    BY <1>2, <1>5 DEF Advance
  <2>3. Below(deps', s) \subseteq stages'
    BY <1>3, <2>2, BelowIsPlanned
  <2>4. QED BY <1>3, <1>5, <2>1, <2>3
<1>6. \A x \in results' : /\ Satisfies(history'[x.revision - 1], x.stage)
                          /\ DOMAIN x.gate \subseteq stages'
  BY <1>4, <1>5, CommandResults
<1>7. QED BY <1>3, <1>6 DEF Fits, Satisfies

\* Results are of evidence that fits their stages, under gates of the plan
\* (validateStageEvidence, applyAmendments).
THEOREM ResultsFit == Spec => []Fits
<1>1. Init => Fits
  BY DEF Init, Fits
<1>2. Fits /\ UNCHANGED vars => Fits'
  BY DEF vars, Fits, Satisfies
<1>3. TypeOK /\ Fits /\ [Next]_vars => Fits'
  BY <1>2, StepsAreCommands, CommandFits
<1>4. QED BY <1>1, <1>3, ReviewTypes, PTL DEF Spec

\* What counts was recorded after everything below it.
LEMMA BelowIsEarlier ==
  ASSUME TypeOK, ResultsInv, NEW x \in ResultsFor(head, deps), NEW y \in ResultsFor(head, deps),
         y.stage \in Below(deps, x.stage), y.stage # x.stage
  PROVE  y.revision < x.revision
<1> DEFINE rs == ResultsFor(head, deps)
           C == {t \in Stages : \E z \in rs : /\ z.stage = t
                                             /\ (z = x \/ z.revision < x.revision)}
<1>1. deps \in Plans /\ stages \subseteq Stages
  BY DEF TypeOK, Plans
<1>2. \A z \in rs : /\ z \in results /\ z.commit = head /\ z.gate = Gate(deps, z.stage)
                   /\ z.stage \in Stages /\ z.revision \in Nat
  BY <1>1 DEF TypeOK, ResultsFor, revision
<1>3. x.stage \in C
  BY <1>2
<1>4. ASSUME NEW t \in C, NEW u \in deps[t] PROVE u \in C
  <2>1. PICK z \in rs : z.stage = t /\ (z = x \/ z.revision < x.revision)
    OBVIOUS
  <2>2. u \in Stages
    BY <1>1 DEF Plans
  <2>3. PICK v \in ResultsFor(z.commit, deps) : v.stage = u /\ v.revision < z.revision
    BY <1>1, <1>2, <2>1 DEF ResultsInv, Founded
  <2>4. v \in rs
    <3>1. z.commit = head
      BY <1>2, <2>1
    <3>2. QED BY <2>3, <3>1
  <2>5. v.revision < x.revision
    <3>1. x.revision \in Nat /\ z.revision \in Nat /\ v.revision \in Nat
      BY <1>2, <2>1, <2>4
    <3>2. QED BY <2>1, <2>3, <3>1
  <2> HIDE DEF rs
  <2>6. QED BY <2>2, <2>3, <2>4, <2>5
<1>5. Below(deps, x.stage) \subseteq C
  <2>1. x.stage \in Stages /\ C \in SUBSET Stages
    BY <1>2
  <2> HIDE DEF C
  <2>2. QED BY <1>1, <1>3, <1>4, <2>1, BelowIsLeast
<1>6. PICK z \in rs : z.stage = y.stage /\ (z = x \/ z.revision < x.revision)
  BY <1>5
<1>7. z = y
  BY <1>2, <1>6 DEF ResultsInv, Unique
<1>8. QED BY <1>6, <1>7

LEMMA SourcesCount ==
  ASSUME TypeOK, NEW S \in SUBSET (DOMAIN history)
  PROVE  IsFiniteSet({history[n].source : n \in S})
<1> DEFINE T == {history[n].source : n \in S}
           f == [n \in S |-> history[n].source]
<1>1. IsFiniteSet(S)
  <2>1. Len(history) \in Nat /\ DOMAIN history = 1 .. Len(history)
    BY DEF TypeOK
  <2>2. IsFiniteSet(1 .. Len(history))
    BY <2>1, FS_Interval
  <2>3. QED BY <2>1, <2>2, FS_Subset
<1>2. f \in Surjection(S, T)
  BY DEF Surjection
<1>3. QED BY <1>1, <1>2, FS_Surjection

LEMMA ReadyIsApproved == TypeOK /\ ResultsInv /\ Fits => ReadyMeansApproved
<1> DEFINE gates == StagesOf(stages, "human-approval")
           rs == ResultsFor(head, deps)
           waitedFor == {x \in rs : \E s \in gates : x.stage # s /\ x.stage \in Below(deps, s)}
           approvals == {n \in DOMAIN history :
                           /\ HumanApproval(n) /\ history[n].commit = head
                           /\ \A x \in waitedFor : x.revision < n + 1}
           late == Latest(rs)
<1> SUFFICES ASSUME TypeOK, ResultsInv, Fits, Ready
             PROVE  /\ stages \subseteq StageSet(rs)
                    /\ Cardinality({history[n].source : n \in approvals}) >= Approvals
  BY DEF ReadyMeansApproved
<1>1. /\ late \subseteq rs
      /\ stages \subseteq StageSet(late)
      /\ Cardinality(Approvers(Considered(late))) >= Approvals
  BY DEF Ready, Latest
<1>2. stages \subseteq StageSet(rs)
  BY <1>1 DEF StageSet
<1>3. \A x \in rs : /\ x \in results /\ x.commit = head /\ x.stage \in stages
                   /\ x.revision \in 2 .. revision
                   /\ x.commit = history[x.revision - 1].commit
                   /\ Satisfies(history[x.revision - 1], x.stage)
  BY DEF TypeOK, Fits, ResultsFor
<1>4. /\ Len(history) \in Nat /\ DOMAIN history = 1 .. Len(history)
      /\ revision = Len(history) + 1
  BY DEF TypeOK, revision
<1>5. PICK s \in stages : Kind[s] = "human-approval"
  BY DEF TypeOK, ValidPlan, StagesOf
<1>6. \A t \in stages : Kind[t] = "human-approval" => t = s
  BY <1>5, PolicyAssumption DEF TypeOK, StagesOf
<1>7. gates = {s}
  BY <1>5, <1>6 DEF StagesOf
<1>8. PICK g \in late : g.stage = s
  BY <1>1, <1>5 DEF StageSet
<1>9. \A x \in late : Kind[x.stage] = "human-approval" => x = g
  BY <1>1, <1>3, <1>6, <1>8 DEF ResultsFor, ResultsInv, Unique
<1>10. \A x \in waitedFor : x.revision < g.revision
  <2>1. g \in rs
    BY <1>1, <1>8
  <2>2. ASSUME NEW x \in waitedFor PROVE x \in rs /\ x.stage # s /\ x.stage \in Below(deps, s)
    BY <1>7
  <2>3. QED BY <1>8, <2>1, <2>2, BelowIsEarlier
<1> HIDE DEF gates, waitedFor, late
<1>11. SinceGate(late) = (g.revision - 1) .. Len(history)
  <2> DEFINE at == {x.revision : x \in {y \in late : Kind[y.stage] = "human-approval"}}
  <2>1. at = {g.revision}
    BY <1>5, <1>8, <1>9
  <2>2. g.revision \in Nat
    BY <1>1, <1>3, <1>4, <1>8
  <2>3. MaxOf({g.revision}) = g.revision
    BY <2>2 DEF MaxOf
  <2>4. QED BY <2>1, <2>3 DEF SinceGate
<1>12. ASSUME NEW n \in Considered(late), HumanApproval(n)
       PROVE  n \in approvals
  <2>1. CASE n \in {x.revision - 1 : x \in late}
    <3>1. PICK x \in late : n = x.revision - 1
      BY <2>1
    <3>2. x \in rs /\ x.revision \in 2 .. revision
      BY <1>1, <1>3
    <3>3. n \in DOMAIN history /\ n + 1 = x.revision /\ history[n].commit = head
      BY <1>3, <1>4, <3>1, <3>2
    <3>4. Kind[x.stage] = "human-approval"
      BY <1>3, <1>12, <3>1, <3>2, PolicyAssumption DEF HumanApproval, Satisfies, TypeOK
    <3>5. x = g
      BY <1>9, <3>4
    <3>6. QED BY <1>10, <1>12, <3>3, <3>5
  <2>2. CASE n \in SinceGate(late) /\ history[n].commit = head
    <3>1. g.revision \in 2 .. revision
      BY <1>1, <1>3, <1>8
    <3>2. n \in DOMAIN history /\ g.revision <= n + 1 /\ n \in Nat
      BY <1>4, <1>11, <2>2, <3>1
    <3>3. \A x \in waitedFor : x.revision \in Nat
      BY <1>3, <1>4 DEF waitedFor
    <3>4. \A x \in waitedFor : x.revision < n + 1
      BY <1>10, <3>1, <3>2, <3>3
    <3>5. QED BY <1>12, <2>2, <3>2, <3>4
  <2>3. history[n].type \notin {"git.pull-request.opened", "git.base.protected"}
    BY <1>12 DEF HumanApproval
  <2>4. QED BY <2>1, <2>2, <2>3 DEF Considered
<1>13. Approvers(Considered(late)) \subseteq {history[n].source : n \in approvals}
  BY <1>12 DEF Approvers
<1>14. IsFiniteSet({history[n].source : n \in approvals})
  BY SourcesCount
<1>15. Cardinality(Approvers(Considered(late))) <= Cardinality({history[n].source : n \in approvals})
  BY <1>13, <1>14, FS_Subset
<1>16. /\ Cardinality(Approvers(Considered(late))) \in Nat
       /\ Cardinality({history[n].source : n \in approvals}) \in Nat /\ Approvals \in Nat
  BY <1>13, <1>14, FS_Subset, FS_CardinalityType, ReviewAssumption
<1> HIDE DEF approvals
<1>17. QED BY <1>1, <1>2, <1>15, <1>16 DEF late

\* Ready to merge: enough different people have approved this very commit after
\* the last of the stages their approval has to wait for (deriveMergeReadiness).
THEOREM ReadinessIsApproved == Spec => []ReadyMeansApproved
BY ReadyIsApproved, ReviewTypes, ResultsAreFounded, ResultsFit, PTL

-----------------------------------------------------------------------------
\* Amendments.

\* Plans that agree below a stage give it the same gate.
LEMMA GateStays ==
  ASSUME NEW c \in Plans, NEW d \in Plans, NEW s \in Stages, \A t \in Below(c, s) : c[t] = d[t]
  PROVE  Gate(c, s) = Gate(d, s)
<1>1. Below(d, s) \subseteq Below(c, s)
  <2>1. /\ Below(c, s) \in SUBSET Stages /\ s \in Below(c, s)
        /\ \A t \in Below(c, s) : d[t] \subseteq Below(c, s)
    BY BelowIsClosed
  <2>2. QED BY <2>1, BelowIsLeast
<1>2. Below(c, s) \subseteq Below(d, s)
  <2>1. /\ Below(d, s) \in SUBSET Stages /\ s \in Below(d, s)
        /\ \A t \in Below(d, s) : c[t] \subseteq Below(d, s)
    BY <1>1, BelowIsClosed
  <2>2. QED BY <2>1, BelowIsLeast
<1>3. QED BY <1>1, <1>2 DEF Gate

\* A plan that asks for more has more below a stage.
LEMMA BelowGrows ==
  ASSUME NEW c \in Plans, NEW d \in Plans, NEW s \in Stages, \A t \in Stages : c[t] \subseteq d[t]
  PROVE  Below(c, s) \subseteq Below(d, s)
<1>1. /\ Below(d, s) \in SUBSET Stages /\ s \in Below(d, s)
      /\ \A t \in Below(d, s) : c[t] \subseteq Below(d, s)
  BY BelowIsClosed
<1>2. QED BY <1>1, BelowIsLeast

\* A risk that is new adds its stage below the review, and leaves results and head alone.
LEMMA RiskIsAdded ==
  ASSUME TypeOK, Fits, NEW e \in Evidence, Command(e), stages' # stages
  PROVE  /\ UNCHANGED <<head, results>>
         /\ e.category \in Stages \ stages /\ stages' = stages \cup {e.category}
         /\ {ReviewStage, CheckStage} \subseteq stages
         /\ deps' = [deps EXCEPT ![e.category] = {CheckStage}, ![ReviewStage] = @ \cup {e.category}]
<1>1. Advance(e) /\ Risky(e)
  BY CommandsAdvance DEF Advance, RevisedStages
<1>2. e.category \in Stages
  BY <1>1, ReviewAssumption DEF Evidence, Submission, Risky
<1>3. stages' = stages \cup {e.category} /\ e.category \notin stages
  BY <1>1 DEF Advance, RevisedStages
<1>4. {ReviewStage, CheckStage} \subseteq stages
  BY ReviewAssumption DEF Fits
<1>5. deps' = [deps EXCEPT ![e.category] = {CheckStage}, ![ReviewStage] = @ \cup {e.category}]
  BY <1>1 DEF Advance, RevisedDeps
<1>6. UNCHANGED head
  BY <1>1, CommandsAdvance DEF Risky, HeadChanged
<1>7. UNCHANGED results
  <2>1. \A s \in Stages : ~Satisfies(e, s)
    BY <1>1, PolicyAssumption DEF Satisfies, Risky
  <2>2. QED BY <2>1, CommandResults
<1>8. QED BY <1>2, <1>3, <1>4, <1>5, <1>6, <1>7

LEMMA RiskReopensReview ==
  ASSUME TypeOK, Fits, NEW e \in Evidence, Command(e), stages' # stages
  PROVE  Completed' = Completed \ {s \in Stages : ReviewStage \in Below(deps, s)}
<1> DEFINE cat == e.category
<1>1. /\ UNCHANGED <<head, results>> /\ cat \in Stages \ stages /\ stages' = stages \cup {cat}
      /\ {ReviewStage, CheckStage} \subseteq stages
      /\ deps' = [deps EXCEPT ![cat] = {CheckStage}, ![ReviewStage] = @ \cup {cat}]
  BY RiskIsAdded
<1>2. deps \in Plans /\ stages \in SUBSET Stages /\ ValidPlan(stages, deps)
  BY DEF TypeOK, Plans
<1>3. deps' \in Plans
  BY <1>1, <1>2 DEF Plans
<1>4. /\ \A t \in Stages : deps[t] \subseteq deps'[t]
      /\ \A t \in Stages \ {cat, ReviewStage} : deps'[t] = deps[t]
      /\ cat \in deps'[ReviewStage]
  <2>1. deps[cat] = {}
    BY <1>1, <1>2 DEF ValidPlan
  <2>2. cat # ReviewStage
    BY <1>1
  <2>3. QED BY <1>1, <1>2, <2>1, <2>2 DEF Plans
<1>5. ASSUME NEW s \in stages, ReviewStage \notin Below(deps, s)
      PROVE  Gate(deps', s) = Gate(deps, s)
  <2>1. Below(deps, s) \subseteq stages /\ s \in Stages
    BY <1>2, BelowIsPlanned
  <2>2. \A t \in Below(deps, s) : deps[t] = deps'[t]
    BY <1>1, <1>2, <1>4, <1>5, <2>1
  <2>3. QED BY <1>2, <1>3, <2>1, <2>2, GateStays
<1>6. ASSUME NEW s \in Stages, ReviewStage \in Below(deps, s)
      PROVE  cat \in DOMAIN Gate(deps', s)
  <2>1. ReviewStage \in Below(deps', s)
    BY <1>2, <1>3, <1>4, <1>6, BelowGrows
  <2>2. cat \in Below(deps', s)
    BY <1>3, <1>4, <2>1, BelowIsClosed
  <2>3. QED BY <2>2 DEF Gate
<1> HIDE DEF cat
<1>7. \A x \in results : x.stage \in stages /\ x.stage \in Stages /\ cat \notin DOMAIN x.gate
  BY <1>1, <1>2 DEF TypeOK, Fits
<1>8. ASSUME NEW x \in results
      PROVE  x.gate = Gate(deps', x.stage)
               <=> x.gate = Gate(deps, x.stage) /\ ReviewStage \notin Below(deps, x.stage)
  <2>1. x.stage \in stages /\ x.stage \in Stages /\ cat \notin DOMAIN x.gate
    BY <1>7
  <2>2. CASE ReviewStage \in Below(deps, x.stage)
    BY <1>6, <2>1, <2>2
  <2>3. CASE ReviewStage \notin Below(deps, x.stage)
    BY <1>5, <2>1, <2>3
  <2>4. QED BY <2>2, <2>3
<1>9. Completed = {s \in stages : \E x \in results :
                     x.stage = s /\ x.commit = head /\ x.gate = Gate(deps, x.stage)}
  BY DEF Completed, StageSet, ResultsFor
<1>10. Completed' = {s \in stages' : \E x \in results :
                       x.stage = s /\ x.commit = head /\ x.gate = Gate(deps', x.stage)}
  BY <1>1 DEF Completed, StageSet, ResultsFor, Gate, Below, ClosedWith
<1>11. QED BY <1>1, <1>2, <1>7, <1>8, <1>9, <1>10

\* A new risk reopens the review stage and everything that waits for it, and nothing
\* else (applyAmendments of AdaptiveReviewWorkflowProvider.revise).
THEOREM RisksReopenReviews == Spec => RiskReopens
<1>1. TypeOK /\ Fits /\ [Next]_vars =>
        [stages' # stages =>
           Completed' = Completed \ {s \in Stages : ReviewStage \in Below(deps, s)}]_vars
  <2>1. UNCHANGED vars => stages' = stages
    BY DEF vars
  <2>2. QED BY <2>1, StepsAreCommands, RiskReopensReview
<1>2. QED BY <1>1, ReviewTypes, ResultsFit, PTL DEF Spec, RiskReopens

-----------------------------------------------------------------------------
\* The clients of ReviewClients.

\* The command of client c is in the history as number n.
Carried(c, n) ==
  /\ n \in DOMAIN history /\ history[n] = What(c)
  /\ Intent[c].do = "complete" =>
       \E x \in results : x.revision = n + 1 /\ x.stage = Intent[c].stage

\* A request of client c against revision n.
Message(c, n) == [client |-> c, expected |-> n]

\* Accepted is carried out; refused is not, and could not be at its revision.
AnswersInv ==
  \A a \in answers :
    /\ a.ok => \E n \in DOMAIN history : Carried(a.client, n)
    /\ ~a.ok => /\ ~Carried(a.client, a.expected)
                /\ a.expected = revision => ~Valid(Message(a.client, a.expected))

LEMMA HistoryType ==
  TypeOK => /\ Len(history) \in Nat /\ DOMAIN history = 1 .. Len(history)
            /\ revision = Len(history) + 1 /\ revision \in 1 .. MaxRevision
BY ReviewAssumption DEF TypeOK, revision

LEMMA WhatIsEvidence ==
  ASSUME NEW c \in Clients
  PROVE  /\ What(c) \in Evidence
         /\ Intent[c].do \in {"append", "complete", "move"} /\ Intent[c].stage \in Stages
         /\ Intent[c].do = "move" <=> What(c).type = HeadChanged
BY ClientsAssumption DEF What, Evidence, Submission

\* What is carried out of a request is a command against the current revision.
LEMMA CarryIsCommand ==
  ASSUME ClientsOK, NEW m \in sent, Carry(m)
  PROVE  /\ m.client \in Clients /\ m.expected = revision /\ m = Message(m.client, revision)
         /\ Command(What(m.client))
         /\ Intent[m.client].do = "complete" =>
              CompleteStage(revision, What(m.client), Intent[m.client].stage)
<1>1. m.client \in Clients /\ m = Message(m.client, m.expected)
  BY DEF ClientsOK, Message
<1>2. m.expected = revision
  BY DEF Carry, AppendEvidence, MayAppend, CompleteStage, MayComplete, UpdateHead, MayMove,
         Admitted, IsCurrent
<1>3. Intent[m.client].stage \in Stages
  BY <1>1, WhatIsEvidence
<1>4. QED BY <1>1, <1>2, <1>3 DEF Carry, Command

LEMMA CommandHistory ==
  ASSUME TypeOK, NEW e \in Evidence, Command(e)
  PROVE  /\ DOMAIN history' = 1 .. revision /\ history'[revision] = e
         /\ \A n \in DOMAIN history : history'[n] = history[n]
         /\ revision' = revision + 1 /\ ~Known(e.event)
<1>1. /\ history' \in Seq(Evidence) /\ revision' = revision + 1
      /\ history'[revision] = e /\ \A n \in 1 .. Len(history) : history'[n] = history[n]
      /\ ~Known(e.event)
  BY CommandsAdvance, AdvanceType DEF Admitted
<1>2. Len(history') = revision
  BY CommandsAdvance, HistoryType DEF Advance, TypeOK
<1>3. QED BY <1>1, <1>2, HistoryType

\* The past stays what it is.
LEMMA CarriedForGood ==
  ASSUME TypeOK, NEW e \in Evidence, Command(e), NEW c, NEW n \in DOMAIN history
  PROVE  Carried(c, n)' <=> Carried(c, n)
<1>1. n \in DOMAIN history' /\ history'[n] = history[n] /\ n \in Nat /\ n + 1 # revision + 1
  BY CommandHistory, HistoryType
<1>2. \A s : (\E x \in results' : x.revision = n + 1 /\ x.stage = s)
             <=> \E x \in results : x.revision = n + 1 /\ x.stage = s
  BY <1>1, CommandResults
<1>3. QED BY <1>1, <1>2 DEF Carried, What, Submission

\* A client whose command is now in the history could have sent it.
LEMMA CarriedIsValid ==
  ASSUME ClientsOK, NEW m \in sent, Carry(m), NEW c \in Clients,
         NEW n, n = revision, Carried(c, n)'
  PROVE  Valid(Message(c, revision))
<1> DEFINE k == m.client
           e == What(k)
<1>1. k \in Clients /\ Command(e) /\ e \in Evidence
  BY CarryIsCommand, WhatIsEvidence
<1>2. TypeOK
  BY DEF ClientsOK
<1>3. What(c) = e
  <2>1. history'[revision] = What(c)
    BY <1>1, <1>2, CommandHistory DEF Carried, What, Submission
  <2>2. QED BY <1>1, <1>2, <2>1, CommandHistory
<1>4. Intent[c].do = "move" <=> Intent[k].do = "move"
  BY <1>1, <1>3, WhatIsEvidence
<1>5. m.expected = revision /\ Message(c, revision).client = c
      /\ Message(c, revision).expected = revision
  BY CarryIsCommand DEF Message
<1> HIDE DEF k, e
<1>6. CASE Intent[c].do = "move"
  <2>1. UpdateHead(revision, e)
    BY <1>4, <1>5, <1>6 DEF Carry, k, e
  <2>2. QED BY <1>3, <1>5, <1>6, <2>1 DEF UpdateHead, Valid
<1>7. CASE Intent[c].do = "append"
  <2>1. Intent[k].do \in {"append", "complete"}
    BY <1>1, <1>4, <1>7, WhatIsEvidence
  <2>2. MayAppend(revision, e)
    BY <1>5, <2>1 DEF Carry, AppendEvidence, CompleteStage, MayComplete, MayAppend, k, e
  <2>3. QED BY <1>3, <1>5, <1>7, <2>2 DEF Valid
<1>8. CASE Intent[c].do = "complete"
  <2>1. PICK x \in results' : x.revision = n + 1 /\ x.stage = Intent[c].stage
    BY <1>8 DEF Carried
  <2>2. x \notin results
    BY <1>2, <2>1, HistoryType DEF TypeOK
  <2>3. Intent[k].do = "complete"
    BY <1>1, <1>4, <1>8, <2>1, <2>2, WhatIsEvidence DEF Carry, AppendEvidence, k, e
  <2>4. CompleteStage(revision, e, Intent[k].stage)
    BY <2>3, CarryIsCommand DEF k, e
  <2>5. x.stage = Intent[k].stage
    BY <2>1, <2>2, <2>4 DEF CompleteStage
  <2>6. MayComplete(revision, e, Intent[c].stage)
    BY <2>1, <2>4, <2>5 DEF CompleteStage
  <2>7. QED BY <1>3, <1>5, <1>8, <2>6 DEF Valid
<1>9. QED BY <1>6, <1>7, <1>8, WhatIsEvidence

\* A repetition is of a command that was carried out.
LEMMA ReplayedIsCarried ==
  ASSUME TypeOK, NEW c \in Clients
  PROVE  Replayed(c) <=> \E n \in DOMAIN history : Carried(c, n)
<1>1. CASE Intent[c].do = "complete"
  <2>1. ASSUME NEW x \in results
        PROVE  x.revision - 1 \in DOMAIN history /\ x.revision = (x.revision - 1) + 1
    BY HistoryType DEF TypeOK
  <2>2. ASSUME Replayed(c) PROVE \E n \in DOMAIN history : Carried(c, n)
    <3>1. PICK x \in results : x.stage = Intent[c].stage /\ history[x.revision - 1] = What(c)
      BY <1>1, <2>2 DEF Replayed, RepeatsFor
    <3>2. Carried(c, x.revision - 1)
      BY <2>1, <3>1 DEF Carried
    <3>3. QED BY <2>1, <3>2
  <2>3. ASSUME NEW n \in DOMAIN history, Carried(c, n) PROVE Replayed(c)
    <3>1. PICK x \in results : x.revision = n + 1 /\ x.stage = Intent[c].stage
      BY <1>1, <2>3 DEF Carried
    <3>2. x.revision - 1 = n
      BY <3>1, HistoryType
    <3>3. QED BY <1>1, <2>3, <3>1, <3>2 DEF Carried, Replayed, RepeatsFor
  <2>4. QED BY <2>2, <2>3
<1>2. CASE Intent[c].do # "complete"
  BY <1>2 DEF Replayed, Repeats, Carried
<1>3. QED BY <1>1, <1>2

LEMMA ValidStays ==
  ASSUME UNCHANGED vars, NEW m
  PROVE  Valid(m)' <=> Valid(m)
BY DEF vars, Valid, MayAppend, MayComplete, MayMove, Admitted, OnHead, Known, IsCurrent, revision,
       RevisedStages, RevisedDeps, Risky, ResultsFor, StageSet, DependenciesMet, Satisfies, What,
       Submission, Gate, Below, ClosedWith, ValidPlan, StagesOf

\* A step of the clients leaves the workflow alone or carries out a request.
LEMMA ClientSteps ==
  ASSUME [ClientNext]_allVars
  PROVE  UNCHANGED vars \/ \E m \in sent : Carry(m)
BY DEF ClientNext, allVars, Ask, GiveUpWaiting, Heed, Serve, clientVars

LEMMA ClientsType ==
  ASSUME ClientsOK, [ClientNext]_allVars
  PROVE  ClientsOK'
<1>1. TypeOK /\ revision \in 1 .. MaxRevision
  BY HistoryType DEF ClientsOK
<1>2. TypeOK' /\ revision' \in Nat /\ revision <= revision'
  <2>1. CASE UNCHANGED vars
    BY <1>1, <2>1, UnchangedType DEF vars, revision
  <2>2. ASSUME NEW m \in sent, Carry(m) PROVE TypeOK' /\ revision' = revision + 1
    BY <1>1, <2>2, CarryIsCommand, WhatIsEvidence, CommandType, CommandHistory
  <2>3. QED BY <1>1, <2>1, <2>2, ClientSteps
<1>3. [client : Clients, expected : 1 .. revision] \subseteq [client : Clients, expected : 1 .. revision']
      /\ [client : Clients, expected : 1 .. revision, ok : BOOLEAN]
           \subseteq [client : Clients, expected : 1 .. revision', ok : BOOLEAN]
  BY <1>1, <1>2
<1> DEFINE Typed ==
      /\ pc' \in [Clients -> {"idle", "waiting", "done", "refused"}]
      /\ seen' \in [Clients -> 0 .. MaxRevision]
      /\ sent' \subseteq [client : Clients, expected : 1 .. revision]
      /\ answers' \subseteq [client : Clients, expected : 1 .. revision, ok : BOOLEAN]
<1>4. Typed
  <2>1. ASSUME NEW c \in Clients, Ask(c) PROVE Typed
    BY <1>1, <2>1 DEF ClientsOK, Ask
  <2>2. ASSUME NEW c \in Clients, GiveUpWaiting(c) \/ Heed(c) PROVE Typed
    BY <2>2 DEF ClientsOK, GiveUpWaiting, Heed
  <2>3. ASSUME NEW m \in sent, Serve(m) PROVE Typed
    <3>1. m.client \in Clients /\ m.expected \in 1 .. revision
      BY DEF ClientsOK
    <3>2. \A ok \in BOOLEAN : Answer(m, ok) =>
            answers' \subseteq [client : Clients, expected : 1 .. revision, ok : BOOLEAN]
      BY <3>1 DEF ClientsOK, Answer
    <3>3. QED BY <2>3, <3>2 DEF ClientsOK, Serve
  <2>4. CASE UNCHANGED allVars
    BY <2>4 DEF ClientsOK, allVars, clientVars
  <2>5. QED BY <2>1, <2>2, <2>3, <2>4 DEF ClientNext
<1>5. QED BY <1>2, <1>3, <1>4 DEF ClientsOK

LEMMA ClientsHistory ==
  ASSUME ClientsInv, [ClientNext]_allVars
  PROVE  RecordedOnce' /\ NoLostUpdate'
<1>1. sent \subseteq sent'
  BY DEF ClientNext, allVars, clientVars, Ask, GiveUpWaiting, Heed, Serve
<1>2. CASE UNCHANGED vars
  BY <1>1, <1>2 DEF vars, ClientsInv, RecordedOnce, NoLostUpdate, What, Submission
<1>3. ASSUME NEW m \in sent, Carry(m) PROVE RecordedOnce' /\ NoLostUpdate'
  <2> DEFINE e == What(m.client)
  <2>1. TypeOK /\ m.expected = revision /\ Command(e) /\ e \in Evidence
    BY <1>3, CarryIsCommand, WhatIsEvidence DEF ClientsInv, ClientsOK
  <2> HIDE DEF e
  <2>2. /\ DOMAIN history' = 1 .. revision /\ history'[revision] = e
        /\ \A n \in DOMAIN history : history'[n] = history[n]
        /\ \A n \in DOMAIN history : history[n].event # e.event
    BY <2>1, CommandHistory DEF Known
  <2>3. DOMAIN history = 1 .. Len(history) /\ revision = Len(history) + 1 /\ Len(history) \in Nat
    BY <2>1, HistoryType
  <2>4. \A n \in DOMAIN history' : n = revision \/ n \in DOMAIN history
    BY <2>2, <2>3
  <2>5. RecordedOnce'
    BY <2>2, <2>4 DEF ClientsInv, RecordedOnce
  <2>6. \A n \in DOMAIN history' :
          \E q \in sent' : q.expected = n /\ What(q.client) = history'[n]
    BY <1>1, <2>1, <2>2, <2>4 DEF ClientsInv, NoLostUpdate, e
  <2>7. QED BY <2>5, <2>6 DEF NoLostUpdate, What, Submission
<1>4. QED BY <1>2, <1>3, ClientSteps

LEMMA AnswersNext ==
  ASSUME ClientsInv, AnswersInv, [ClientNext]_allVars
  PROVE  AnswersInv'
<1>1. ClientsOK /\ TypeOK
  BY DEF ClientsInv, ClientsOK
<1>2. DOMAIN history = 1 .. Len(history) /\ revision = Len(history) + 1 /\ Len(history) \in Nat
  BY <1>1, HistoryType
<1> DEFINE Told(a) ==
      /\ a.ok => \E n \in DOMAIN history : Carried(a.client, n)
      /\ ~a.ok => /\ ~Carried(a.client, a.expected)
                  /\ a.expected = revision => ~Valid(Message(a.client, a.expected))
<1>3. CASE UNCHANGED vars
  <2>1. ASSUME NEW a, Told(a) PROVE Told(a)'
    <3>1. \A n : Carried(a.client, n)' <=> Carried(a.client, n)
      BY <1>3 DEF vars, Carried, What, Submission
    <3>2. Valid(Message(a.client, a.expected))' <=> Valid(Message(a.client, a.expected))
      BY <1>3, ValidStays DEF Message
    <3>3. revision' = revision /\ DOMAIN history' = DOMAIN history
      BY <1>3 DEF vars, revision
    <3>4. QED BY <2>1, <3>1, <3>2, <3>3
  <2>2. ASSUME NEW a \in answers', a \notin answers PROVE Told(a)
    <3>1. PICK m \in sent : /\ \/ Replayed(m.client) /\ Answer(m, TRUE)
                               \/ ~Replayed(m.client) /\ Carry(m)
                               \/ ~Replayed(m.client) /\ ~Valid(m) /\ Answer(m, FALSE)
      BY <2>2 DEF ClientNext, allVars, clientVars, Ask, GiveUpWaiting, Heed, Serve
    <3>2. m.client \in Clients /\ m = Message(m.client, m.expected)
      BY <1>1 DEF ClientsOK, Message
    <3>3. ~Carry(m)
      <4>1. ASSUME Carry(m) PROVE revision' = revision + 1
        BY <1>1, <3>2, <4>1, CarryIsCommand, WhatIsEvidence, CommandHistory
      <4>2. revision' = revision /\ revision # revision + 1
        BY <1>2, <1>3 DEF vars, revision
      <4>3. QED BY <4>1, <4>2
    <3>4. CASE Replayed(m.client) /\ Answer(m, TRUE)
      <4>1. a.client = m.client /\ a.ok
        BY <2>2, <3>4 DEF Answer
      <4>2. QED BY <1>1, <3>2, <3>4, <4>1, ReplayedIsCarried
    <3>5. CASE ~Replayed(m.client) /\ ~Valid(m) /\ Answer(m, FALSE)
      <4>1. a.client = m.client /\ a.expected = m.expected /\ ~a.ok
        BY <2>2, <3>5 DEF Answer
      <4>2. ~Carried(a.client, a.expected)
        BY <1>1, <3>2, <3>5, <4>1, ReplayedIsCarried DEF Carried
      <4>3. QED BY <3>2, <3>5, <4>1, <4>2
    <3>6. QED BY <3>1, <3>3, <3>4, <3>5
  <2> HIDE DEF Told
  <2>3. \A a \in answers' : Told(a)
    BY <2>2 DEF AnswersInv, Told
  <2>4. \A a \in answers' : Told(a)'
    BY <2>1, <2>3
  <2>5. QED BY <2>4 DEF AnswersInv, Told
<1>4. CASE ~UNCHANGED vars
  <2>1. PICK m \in sent : Carry(m) /\ (UNCHANGED answers \/ Answer(m, TRUE))
    <3>1. \A m \in sent : Serve(m) => UNCHANGED vars \/ (Carry(m) /\ Answer(m, TRUE))
      BY DEF Serve
    <3>2. QED BY <1>4, <3>1 DEF ClientNext, allVars, clientVars, Ask, GiveUpWaiting, Heed
  <2> DEFINE c == m.client
             e == What(c)
  <2>2. c \in Clients /\ m.expected = revision /\ Command(e) /\ e \in Evidence
    BY <1>1, <2>1, CarryIsCommand, WhatIsEvidence
  <2>3. /\ DOMAIN history' = 1 .. revision /\ history'[revision] = e /\ revision' = revision + 1
        /\ \A n \in DOMAIN history : history'[n] = history[n]
    BY <1>1, <2>2, CommandHistory
  <2>4. ASSUME NEW a \in answers PROVE Told(a)'
    <3>1. a.client \in Clients /\ a.expected \in 1 .. revision
      BY <1>1 DEF ClientsOK
    <3>2. Told(a)
      BY DEF AnswersInv
    <3>3. a.expected # revision'
      BY <1>2, <2>3, <3>1
    <3>4. ASSUME a.ok PROVE \E n \in DOMAIN history' : Carried(a.client, n)'
      <4>1. PICK n \in DOMAIN history : Carried(a.client, n)
        BY <3>2, <3>4
      <4>2. Carried(a.client, n)'
        BY <1>1, <2>2, <4>1, CarriedForGood
      <4>3. n \in DOMAIN history'
        BY <1>2, <2>3
      <4>4. QED BY <4>2, <4>3
    <3>5. ASSUME ~a.ok PROVE ~Carried(a.client, a.expected)'
      <4>1. CASE a.expected \in DOMAIN history
        BY <1>1, <2>2, <3>2, <3>5, <4>1, CarriedForGood
      <4>2. CASE a.expected = revision
        BY <1>1, <2>1, <3>1, <3>2, <3>5, <4>2, CarriedIsValid
      <4>3. QED BY <1>2, <3>1, <4>1, <4>2
    <3>6. QED BY <3>3, <3>4, <3>5
  <2>5. ASSUME NEW a \in answers', a \notin answers PROVE Told(a)'
    <3>1. a.client = c /\ a.ok
      BY <2>1, <2>5 DEF Answer
    <3>2. PICK n : n = revision
      OBVIOUS
    <3>3. n \in DOMAIN history' /\ history'[n] = e
      BY <1>2, <2>3, <3>2
    <3>4. ASSUME Intent[c].do = "complete"
          PROVE  \E x \in results' : x.revision = n + 1 /\ x.stage = Intent[c].stage
      <4>1. CompleteStage(revision, e, Intent[c].stage)
        BY <1>1, <2>1, <3>4, CarryIsCommand
      <4>2. [revision |-> revision + 1, stage |-> Intent[c].stage,
             gate |-> Gate(RevisedDeps(e), Intent[c].stage), commit |-> head] \in results'
        BY <4>1 DEF CompleteStage
      <4>3. QED BY <3>2, <4>2
    <3>5. Carried(c, n)'
      BY <3>3, <3>4 DEF Carried, What, Submission
    <3>6. QED BY <3>1, <3>3, <3>5
  <2>6. \A a \in answers' : Told(a)'
    BY <2>4, <2>5
  <2>7. QED BY <2>6 DEF AnswersInv
<1>5. QED BY <1>3, <1>4

\* However often a command is sent, its event is recorded once, and every revision was
\* decided by somebody who had read the one before it, types included
\* (#evidenceByExternalEventId, assertExpectedRevision).
THEOREM ClientsInvariant == ClientSpec => []ClientsInv
<1>1. ClientInit => ClientsInv
  <2> SUFFICES ASSUME ClientInit PROVE ClientsInv
    OBVIOUS
  <2>1. TypeOK /\ history = <<>>
    BY InitType DEF ClientInit, Init
  <2>2. 0 \in 0 .. MaxRevision
    BY ReviewAssumption
  <2>3. ClientsOK
    BY <2>1, <2>2 DEF ClientInit, ClientsOK
  <2>4. QED BY <2>1, <2>3 DEF ClientsInv, RecordedOnce, NoLostUpdate
<1>2. ClientsInv /\ [ClientNext]_allVars => ClientsInv'
  BY ClientsType, ClientsHistory DEF ClientsInv
<1>3. QED BY <1>1, <1>2, PTL DEF ClientSpec

\* Answers are true for good: a request that was accepted is in the history, its stage
\* completed by it, and one that was refused never gets there (assertEvidenceReplay).
THEOREM AnswersAreKept == ClientSpec => []AnswersHold
<1>1. ClientInit => AnswersInv
  BY DEF ClientInit, AnswersInv
<1>2. ClientsInv /\ AnswersInv /\ [ClientNext]_allVars => AnswersInv'
  BY AnswersNext
<1>3. AnswersInv => AnswersHold
  <2> SUFFICES ASSUME AnswersInv, NEW a \in answers
               PROVE  IF a.ok THEN \E n \in DOMAIN history : Carried(a.client, n)
                              ELSE ~Carried(a.client, a.expected)
    BY DEF AnswersHold, Carried
  <2>1. QED BY DEF AnswersInv
<1>4. QED BY <1>1, <1>2, <1>3, ClientsInvariant, PTL DEF ClientSpec

\* Whatever the network does, the stored results stay founded and fit their stages.
LEMMA ClientResultsFit == ClientSpec => [](TypeOK /\ ResultsInv /\ Fits)
<1>1. ClientInit => TypeOK /\ ResultsInv /\ Fits
  BY InitType DEF ClientInit, Init, ResultsInv, Unique, Founded, Fits
<1>2. ClientsInv /\ ResultsInv /\ Fits /\ [ClientNext]_allVars => ResultsInv' /\ Fits'
  <2> SUFFICES ASSUME ClientsInv, ResultsInv, Fits, [ClientNext]_allVars
               PROVE  ResultsInv' /\ Fits'
    OBVIOUS
  <2>1. ClientsOK /\ TypeOK
    BY DEF ClientsInv, ClientsOK
  <2>2. CASE UNCHANGED vars
    BY <2>2, ResultsKept DEF vars, Fits, Satisfies
  <2>3. ASSUME NEW m \in sent, Carry(m) PROVE ResultsInv' /\ Fits'
    BY <2>1, <2>3, CarryIsCommand, WhatIsEvidence, CommandFounded, CommandFits
  <2>4. QED BY <2>2, <2>3, ClientSteps
<1>3. ClientsInv => TypeOK
  BY DEF ClientsInv, ClientsOK
<1>4. QED BY <1>1, <1>2, <1>3, ClientsInvariant, PTL DEF ClientSpec

\* Retries, duplicates, stale and late requests leave the workflow what it is without
\* them: stages complete in order, and nothing is ready without its approvals.
THEOREM NetworkIsHarmless == ClientSpec => [](WorkflowInv /\ CompletedClosed /\ ReadyMeansApproved)
BY ClientResultsFit, CountsInOrder, CountsAreClosed, ReadyIsApproved, PTL DEF WorkflowInv

\* A command that arrives late, or again, reopens the review for a new risk as any other
\* does (review-workflows.ts:208-226, 359-372).
THEOREM RisksReopenForClients == ClientSpec => RiskReopens
<1>1. ClientsInv /\ Fits /\ [ClientNext]_allVars =>
        [stages' # stages =>
           Completed' = Completed \ {s \in Stages : ReviewStage \in Below(deps, s)}]_vars
  <2> SUFFICES ASSUME ClientsInv, Fits, [ClientNext]_allVars, stages' # stages
               PROVE  Completed' = Completed \ {s \in Stages : ReviewStage \in Below(deps, s)}
    OBVIOUS
  <2>1. ClientsOK /\ TypeOK
    BY DEF ClientsInv, ClientsOK
  <2>2. PICK m \in sent : Carry(m)
    BY ClientSteps DEF vars
  <2>3. QED BY <2>1, <2>2, CarryIsCommand, WhatIsEvidence, RiskReopensReview
<1>2. QED BY <1>1, ClientResultsFit, ClientsInvariant, PTL DEF ClientSpec, RiskReopens
=============================================================================
