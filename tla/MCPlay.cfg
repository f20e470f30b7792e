SPECIFICATION PlaySpec
CONSTANTS
  XsBanks = {1}
  XsDivs = {2, 4}
  XsBar = 4
  XsMax = 2
  XsStill = 1
  XsLength = 1
  XsAdvances = {0, 1, 2}
  XsEnd = 8
  XsMaxHands = 3
  XbSticks <- MCSticks
  XbBanks = 2
  XbDivs = {"d1"}
  XbMaxSwaps = 2
  XbMaxHands = 4
  KbAccepts = {5}
  KbMaxEvents = 6
  GtPads = {0, 1}
  GtMaxHands = 4
  GtMaxTouch = 4
  CpPads = {1, 2}
  CpSpots = {1, 2}
  CpMaxHands = 5
  PlPads = {1, 2}
  PlMaxEvents = 5
  PlFast = FALSE
INVARIANTS HitsKeepTheirTime GateIsTheDjs PressesStayWhole
PROPERTIES PadsFollowTheHand BandIsShared ClaimsReachThePanel
CHECK_DEADLOCK FALSE
