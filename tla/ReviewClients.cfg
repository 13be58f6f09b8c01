\* Three clients, retries, duplicates, lost answers.
CONSTANTS
  Base = Base
  Pull = Pull
  Human = Human
  Recorder = Recorder
  Completer = Completer
  Mover = Mover
  h1 = h1
  h2 = h2
  Stages <- MCStages
  InitialDeps <- MCInitialDeps
  Kind <- MCKind
  Needs <- MCNeeds
  RiskStages = {}
  CheckStage = Pull
  ReviewStage = Pull
  Offers <- MCOffers
  Remarks = {}
  Heads = {h1, h2}
  Events = {1, 2}
  Approvals = 1
  MaxRevision = 3
  MaxMoves = 1
  MaxRemarks = 1
  Clients = {Recorder, Completer, Mover}
  Intent <- MCIntent
SPECIFICATION ClientSpec
CHECK_DEADLOCK FALSE
INVARIANTS
  ClientsInv
  AnswersHold
