SPECIFICATION MediaSpec
CONSTANTS
  ScTracks = {t1}
  ScIds = {i1}
  ScMaxEvents = 2
  GcSlots = {"1", "2"}
  GcConfig <- MCConfig
  GcPaths = {1, 2}
  GcMaxPresses = 2
  GcMaxSwaps = 2
  PsTracks = {"a", "b"}
  PsPages = {0, 1}
  PsMaxEvents = 2
  SoIds <- MCIds
  SoClasses = {"pool", "other"}
  SoBinds = 1
  SoMaxLoads = 3
  SoMaxOpens = 2
  SdRate = 96000
  SdTempos = {0, 1000}
  SdQuiet = 1
  SdPolls = 1
  SdMaxWindows = 3
  SdMaxOpens = 1
  SdMaxLoads = 1
INVARIANTS NoTornEntry PairIsOfTheTrack SourceIsFollowed PairIsJudged
PROPERTIES EntryIsKept GcTableIsTheSticks WaitsEnd
CHECK_DEADLOCK FALSE
