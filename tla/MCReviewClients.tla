--------------------------- MODULE MCReviewClients ---------------------------
\* The three baseline stages; two clients share an event, one to record it and
\* one to complete a stage with it; the third moves the head.
EXTENDS ReviewClients, TLC

CONSTANTS Base, Pull, Human, Recorder, Completer, Mover, h1, h2

MCStages == {Base, Pull, Human}

MCInitialDeps == (Base :> {}) @@ (Pull :> {}) @@ (Human :> {Base, Pull})

MCKind == (Base :> "protected-base") @@ (Pull :> "pull-request") @@ (Human :> "human-approval")

Need(type, kind) == [type |-> type, from |-> {kind}]

MCNeeds ==
  (Base :> Need("git.base.protected", "git-host"))
    @@ (Pull :> Need("git.pull-request.opened", "git-host"))
    @@ (Human :> Need("review.human.approved", "human"))

Offer(type) ==
  [type |-> type, source |-> [kind |-> "git-host", id |-> "git-host"], category |-> NoRisk]

MCOffers ==
  {Offer("git.pull-request.opened"), Offer(HeadChanged)}

Wish(do, event, type, stage, commit) ==
  [do |-> do, event |-> event, offer |-> Offer(type), stage |-> stage, commit |-> commit]

MCIntent ==
  (Recorder :> Wish("append", 1, "git.pull-request.opened", Pull, h1))
    @@ (Completer :> Wish("complete", 1, "git.pull-request.opened", Pull, h1))
    @@ (Mover :> Wish("move", 2, HeadChanged, Pull, h2))
=============================================================================
