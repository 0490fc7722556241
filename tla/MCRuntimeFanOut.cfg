SPECIFICATION Spec
CONSTANTS
  NoTime = NoTime
  Version = {"v1"}
  NoManifest = NoManifest
  NoCommit = NoCommit
  NoTry = NoTry
  NoEntry = NoEntry
  NoMessage = NoMessage
  NoDump = NoDump
  MaxRestart = 1
  ClockMayStepBack = FALSE
  Name <- MCName
  Rank <- MCRank
  Registration <- MCSubscribers
  Message <- MCEvents
  Manifest = {}
  Records <- MCRecords
  Record <- MCRecord
  Schema <- MCSchema
  Key <- MCKey
  Time <- MCTime

INVARIANTS
  TypeOK
  FailureCommitsNothing
  FanOutInOrder
PROPERTIES
  LogIsLedger
CHECK_DEADLOCK FALSE
