\* A late risk, a second approval, a head that moves and returns.
CONSTANTS
  Base = Base
  Pull = Pull
  Review = Review
  Human = Human
  Security = Security
  Alice = Alice
  Bob = Bob
  Stages <- MCStages
  InitialDeps <- MCInitialDeps
  Kind <- MCKind
  Needs <- MCNeeds
  RiskStages = {Security}
  CheckStage = Pull
  ReviewStage = Review
  Offers <- MCOffers
  Remarks <- MCRemarks
  Heads = {h1, h2}
  Events <- MCEvents
  Approvals = 2
  MaxRevision = 8
  MaxMoves = 2
  MaxRemarks = 3
SPECIFICATION Spec
SYMMETRY Symmetry
CHECK_DEADLOCK FALSE
INVARIANTS
  WorkflowInv
  CompletedClosed
  ReadyMeansApproved
PROPERTIES
  RiskReopens
