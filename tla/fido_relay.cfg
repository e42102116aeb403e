CONSTANTS
  c1 = c1
  c2 = c2
  Clients = {c1, c2}
  Commands = {"CBOR", "CANCEL"}
  MaxSize = 3
  MaxChannels = 2
  MaxRequests = 2
  IdMod = 3
  InCap = 1
  OutCap = 1
  RequestCap = 1
  ResponseCap = 1
SPECIFICATION Spec
INVARIANTS TypeOK TableIsExact AssemblyPure
PROPERTIES ServiceSpec
SYMMETRY Symmetry
CHECK_DEADLOCK FALSE
