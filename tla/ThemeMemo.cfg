SPECIFICATION MemoSpec
CONSTANTS
  SmHands = {"drums"}
  SmLooped = {"drums", "vocals"}
  SmLevels = {1, 2}
  SmBeats <- MCBeats
  SmWalkMax = 1
  SmPositions <- MCPositions
  SmLength = 3
  SmQuarters = 2
  SpParts = {"drums", "vocals"}
  SpJobs <- MCJobs
  SpSettle = 1
  SpBlink = 1
  SpCooldown = 2
  SpPatience = 1
  SpMaxEvents = 4
  WsTracks = {"a", "b"}
  WsObjects = {"o1", "o2"}
  WsBindsMax = 1
  WsStable = 1
  WsGiveUp = 3
  WsSettle = 1
  WsMaxEvents = 4
  TwThemes = {"white", "mocha"}
  TwDark = {"mocha"}
  TwTables = {"t1", "t2"}
  TwStyleOf <- MCStyleOf
  TwSites = 2
  TwMaxEvents = 3
  TwRaces = TRUE
  RsImages <- MCImages
  RsClasses <- MCClasses
  RsSlots <- MCSlots
  RsFns <- MCFns
  RsData <- MCData
  RsCalls <- MCCalls
  RsOwner <- MCOwner
  RsOccurrences = 2
  RsHits = 3
  RsSample = 4
INVARIANTS AnswersAreThePalettes
CHECK_DEADLOCK FALSE
