--------------------------- MODULE MCReviewWorkflow ---------------------------
\* The default plan without its middle links (the implementation stage and the
\* automated checks), two reviewers, one risk category, two commits.
EXTENDS ReviewWorkflow, TLC

CONSTANTS Base, Pull, Review, Human, Security, Alice, Bob

MCStages == {Base, Pull, Review, Human, Security}

MCInitialDeps ==
  (Base :> {}) @@ (Pull :> {}) @@ (Review :> {Pull}) @@ (Human :> {Base, Review})

MCKind ==
  (Base :> "protected-base") @@ (Pull :> "pull-request") @@ (Review :> "agent-review")
    @@ (Human :> "human-approval") @@ (Security :> "agent-review")

Need(type, kind) == [type |-> type, from |-> {kind}]

MCNeeds ==
  (Base :> Need("git.base.protected", "git-host"))
    @@ (Pull :> Need("git.pull-request.opened", "git-host"))
    @@ (Review :> Need("review.agent.approved", "agent"))
    @@ (Human :> Need("review.human.approved", "human"))
    @@ (Security :> Need("review.agent.approved", "agent"))

Offer(type, kind, id, category) ==
  [type |-> type, source |-> [kind |-> kind, id |-> id], category |-> category]

MCRemarks ==
  {Offer("review.human.approved", "human", p, NoRisk) : p \in {Alice, Bob}}
    \cup {Offer("risk.detected", "agent", "agent", Security)}

MCOffers ==
  MCRemarks
    \cup {Offer(HeadChanged, "git-host", "git-host", NoRisk)}
    \cup {Offer("git.base.protected", "git-host", "git-host", NoRisk),
          Offer("git.pull-request.opened", "git-host", "git-host", NoRisk),
          Offer("review.agent.approved", "agent", "agent", NoRisk),
          Offer("review.agent.approved", "human", Alice, NoRisk)}

MCEvents == 1 .. MaxRevision

Symmetry == Permutations(Heads)
=============================================================================
