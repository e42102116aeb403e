CONSTANTS
  RemotePeers = {p1}
  Local = local
  Devices = {d1}
  EventCap = 1
  InjectCap = 1
  NetCap = 1
  ClipCap = 1
  CaptureCap = 1
  MaxBatch = 1
  MaxEntries = 1
  NetEvents <- MCServedEvents
  Surroundings = {"toggle", "capture"}
SPECIFICATION CaptureSpec
PROPERTIES ServesOrWedges SendsOrWedges
CHECK_DEADLOCK FALSE
