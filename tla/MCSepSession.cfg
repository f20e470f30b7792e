SPECIFICATION LiveSpec
CONSTANTS
  a = a
  b = b
  NoTrack = NoTrack
  Tracks = {a, b}
  Chunks = 2
  Capacity = 1
  MaxPolls = 1
  MaxConns = 2
  MaxJobs = 2
  MaxLoads = 2
  Events = {"deck", "sidecar", "server", "probe"}
  MaxEvents = 1
INVARIANT BodyIsOneTrack
INVARIANT EntriesAreOwnUnlessAbandoned
PROPERTY JobEndsOrConnects
CHECK_DEADLOCK FALSE
CONSTRAINT FirstIsA
