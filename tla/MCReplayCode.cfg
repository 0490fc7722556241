SPECIFICATION ReplaySpec
CONSTANTS
  NoTime = NoTime
  NoManifest = NoManifest
  NoCommit = NoCommit
  NoTry = NoTry
  NoEntry = NoEntry
  NoMessage = NoMessage
  NoDump = NoDump
  NoWatermark = NoWatermark
  NoBuild = NoBuild
  NoReplay = NoReplay
  MaxRestart = 1
  MaxManifests = 1
  ClockMayStepBack = FALSE
  MessageSchema = "message"
  SchemaVersion = {"1.0.0"}
  Name <- MCName
  Rank <- MCRank
  Registration <- MCOnce
  Message <- MCMessage
  Manifest <- MCLogical
  Logical <- MCLogical
  Version <- MCVersion
  Records <- MCRecords
  Feed <- MCOne
  Record <- MCRecord
  Schema <- MCSchema
  Key <- MCKey
  Time <- MCTime

INVARIANTS
  ReplaysTheCode
CHECK_DEADLOCK FALSE
