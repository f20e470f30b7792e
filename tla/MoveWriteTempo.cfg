SPECIFICATION WriteSpec
CONSTANTS
  BgTracks = {"a", "b"}
  BgPlain = {"p"}
  BgSlots = 1
  BgRates = {1}
  BgMaxEvents = 3
  GeAddresses = {1, 2}
  GeBeats = 5
  GeMost = 9
  GeDoublings = 1
  GeStepsMax = 1
  GeMaxLoads = 3
  GeMaxTaps = 4
  MvLists <- MCLists
  MvContents = {"x", "y"}
  MvFails = 2
  MvMaxAsks = 2
  MvMaxRefusals = 1
  BrViews <- MCViews
  BrSettle = 2
  BrWindow = 4
  BrMaxEvents = 3
  BrMaxTaps = 3
  DiHosts = {"h1", "h2"}
  DiDocs <- MCDocs
  DiMaxMoves = 2
  HcRoom = 3
  HcEntity = 2
  HcUpload = 1
INVARIANTS TempoIsItsOwn
CHECK_DEADLOCK FALSE
