SPECIFICATION Spec
CONSTANTS
  a = a
  b = b
  Tracks = {a, b}
  NoTrack = NoTrack
  Torn = Torn
  OnMedia = {a}
  Spoiled = {a}
  MaxLoads = 2
  Events = {"toggle", "edge", "fault", "busy", "refusal"}
  MaxEvents = 1
  RateSurprise = TRUE
INVARIANTS StaleSetIsDoomed IInv
