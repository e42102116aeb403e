CONSTANTS
  RemotePeers = {p1}
  Local = local
  Devices = {d1}
  EventCap = 1
  InjectCap = 1
  NetCap = 1
  ClipCap = 1
  CaptureCap = 1
  MaxBatch = 2
  MaxEntries = 1
  NetEvents <- MCRoutes
  Surroundings = {"clipboard", "command", "peers", "save", "shutdown"}
SPECIFICATION ShutdownSpec
INVARIANT TypeOK
PROPERTIES SendsOrWedges WedgedForGood
CHECK_DEADLOCK FALSE
