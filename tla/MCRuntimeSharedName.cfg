SPECIFICATION Spec
CONSTANTS
  NoTime = NoTime
  Version = {"v1"}
  NoManifest = NoManifest
  NoCommit = NoCommit
  NoTry = NoTry
  NoEntry = NoEntry
  NoMessage = NoMessage
  NoDump = NoDump
  MaxRestart = 1
  ClockMayStepBack = TRUE
  Name <- MCName
  Rank <- MCRank
  Registration <- MCSharedName
  Message <- MCPair
  Manifest <- MCManifest
  Records <- MCRecords
  Record <- MCRecord
  Schema <- MCSchema
  Key <- MCKey
  Time <- MCTime

INVARIANTS
  CacheHoldsCommits
  JournalMatchesCache
  AnswersAgree
PROPERTIES
  CacheIsStable
CHECK_DEADLOCK FALSE
