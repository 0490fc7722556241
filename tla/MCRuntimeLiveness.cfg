SPECIFICATION FairSpec
CONSTANTS
  NoTime = NoTime
  Version = {"v1"}
  NoManifest = NoManifest
  NoCommit = NoCommit
  NoTry = NoTry
  NoEntry = NoEntry
  NoMessage = NoMessage
  NoDump = NoDump
  MaxRestart = 1
  ClockMayStepBack = FALSE
  Name <- MCName
  Rank <- MCRank
  Registration <- MCSubscribers
  Message <- MCDelivered
  Manifest = {}
  Records <- MCStableRecords
  Record <- MCStableRecord
  Schema <- MCSchema
  Key <- MCKey
  Time = {1}

PROPERTIES
  DispatchEnds
  RedeliveryCompletes
CHECK_DEADLOCK FALSE
