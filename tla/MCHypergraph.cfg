SPECIFICATION Spec
CONSTANTS
  Unknown = "unknown"
  NoHistory = NoHistory
  NoPlace = "nowhere"
  Holder = {h}
  Detection <- MCDetection
  Prior <- MCPrior
  Scale = 4
  Fraction = {0, 1}
  Threshold = {0, 1}
  Unit = 2
  Evidence <- MCEvidence
  Counter <- MCCounter
  Target <- MCTarget
  Rounding = {"exact", "below", "above"}
  MaxMade = 3
  MaxRebuilt = 3

INVARIANTS
  HistoriesTypeOK
  OnlyTheEmptiedIsRefused
  OddsAreBayes
  RetractedStays
PROPERTIES
  ImplementsTree
CHECK_DEADLOCK FALSE
