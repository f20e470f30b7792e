SPECIFICATION DeckSpec
CONSTANTS
  TiSprites = {"s1", "s2"}
  TiStrips = {"w1", "w2"}
  TiOpaque = {"w2"}
  TiThemes = {"white", "sand"}
  TiGrounded = {"white"}
  TiSites = TRUE
  TiLiveBudget = 1
  TiCopyBudget = 2
  TiTable = 3
  TiMaxEvents = 3
  SrSavers = {"menu"}
  SrMaxChanges = 4
  SrMaxCuts = 2
  HjPlaces = {"fill", "draw", "paint"}
  HjMods <- MCMods
  HjRoom = 6
  UdMaxInstalls = 2
  UdMaxFaults = 3
INVARIANTS CoatsAreCounted CutsLoseOneChange RefusedMeansStock
PROPERTIES InstallIsSafe
CHECK_DEADLOCK FALSE
