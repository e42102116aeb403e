CONSTANTS
  c1 = c1
  c2 = c2
  Clients = {c1}
  Commands = {"CBOR", "CANCEL", "PING", "other"}
  MaxSize = 2
  MaxChannels = 1
  MaxRequests = 2
  IdMod = 3
  InCap = 1
  OutCap = 1
  RequestCap = 1
  ResponseCap = 1
SPECIFICATION BusySpec
PROPERTIES WedgedForGood ServesOrWedged StopsOrWedged
CHECK_DEADLOCK FALSE
