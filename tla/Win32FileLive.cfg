CONSTANTS
  Handlers = {"read"}
  Chans = {c1, c2}
  Readers = {r1}
  Writers = {}
  Others = {}
  Closers = {k1, k2}
  Socket = TRUE
  Outcomes = {"bytes", "empty", "broken", "error"}
  None = None
SPECIFICATION FairSpec
PROPERTIES CloseReleases DeadlineWakes WaitsEnd
