SPECIFICATION LiveSpec
CONSTANTS
  a = a
  b = b
  Tracks = {a, b}
  NoTrack = NoTrack
  Torn = Torn
  OnMedia = {a}
  Spoiled = {}
  MaxLoads = 2
  Events = {"fault"}
  MaxEvents = 1
  RateSurprise = FALSE
PROPERTIES CachedTrackIsServed DeliveredTrackIsServed
