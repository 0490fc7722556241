SPECIFICATION MCSpec
CONSTANTS
  Identity <- MCIdentity
  Alignment <- MCAlignment
  Transform <- MCTransform
  MaxLinks = 6
  Instant = {0, 1, 2}
  Forever = 9
  NotFound = NotFound
  NoHousehold = NoHousehold
  Manifest <- MCManifest
  Reason = {"stale", "corrupt"}
  MaxReasons = 2
  Config <- MCConfig
  Coin <- MCCoin
  DayLength = 3
  Unit = 2
  NoDay = NoDay
  NoActor = NoActor
  Call <- MCCall
  Draw = {0, 1}
  Part = 2
  NoLocation = NoLocation
  Person = {"resident", "other", "guest"}
  Object = {1, 2}
  Place = {"shelf", "table", "box", "desk"}
  MaxDelay = 3
  Budget = 2
  Scenario <- MCScenario
  Track = {"none", "controlled_noise", "oracle"}
  Evidence <- MCEvidence
  Location = {"shelf", "sink"}
  Actor = {"ann", "bob"}
  Prior <- MCPrior
  Weight <- MCWeight
  Sure = 2
  MaxUpdates = 4
INVARIANTS
  AnswersFollowTheLinks
  PlansAreCoherent
  OnlySightTells
  ScoresAreFair
  CasesPoseTheirQuestion
PROPERTIES
  RecordsKeepTheirMeaning
  LearningIsSound
CHECK_DEADLOCK FALSE
