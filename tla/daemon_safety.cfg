CONSTANTS
  RemotePeers = {p1}
  Local = local
  Devices = {d1}
  EventCap = 2
  InjectCap = 1
  NetCap = 1
  ClipCap = 1
  CaptureCap = 1
  MaxBatch = 1
  MaxEntries = 1
  NetEvents <- MCFocusEvents
  Surroundings = {"toggle", "capture", "shutdown"}
SPECIFICATION Spec
INVARIANTS FocusFollowsCommand InactiveReleases StoppedReleases WInv
CHECK_DEADLOCK FALSE
