SPECIFICATION MCSpec
CONSTANTS
  Channel <- MCChannel
  Scale = 10
  NoPlace = NoPlace
  NoGate = NoGate
  Huge = 50
  Request <- MCRequest
  Proposal <- MCProposal
  Observation <- MCObservation
  Execution <- MCExecution
  Model <- MCModel
  Forgery = {"none", "moved", "dropped", "denied", "of_another_query", "of_another_scope", "leveled", "insisted"}
  Unnoticed = {"leveled", "insisted"}
  Foreign <- MCForeign
  MaxCycles = 3
  Goal = 9
  MaxRuns = 2
  NoResult = NoResult
  Record = {}
  Schema = {}
  Key = {}
  Time = {}
  NoTime = NoTime
  Whole = 10
  Claim <- MCClaim
  Factor = {"sighting", "context", "activity"}
  FactorEvidence <- MCFactorEvidence
  MaxAge = 3
  Inquiry <- MCInquiry
  View <- MCView
  MaxViews = 4
  Anchor = {"room", "shelf", "box"}
  Frame = {"map", "odom"}
  Thing = {"cup"}
  Root = Root
  MaxRevision = 3
INVARIANTS
  BeliefIsWhatWasCommitted
  ActsAreOnRecord
  ActsOnSettledTargets
  LayersFit
PROPERTIES
  UsesLedger
  EveryRunEnds
  OnlyEvidenceCounts
CHECK_DEADLOCK FALSE
