SPECIFICATION GeSpec
CONSTANTS
  GeAddresses = {1, 2}
  GeBeats = 5
  GeMost = 20
  GeDoublings = 2
  GeStepsMax = 1
  GeMaxLoads = 2
  GeMaxTaps = 4
INVARIANTS NoReaderIndexesPast
CHECK_DEADLOCK FALSE
