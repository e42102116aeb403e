CONSTANTS
  Node = {n1, n2}
  n1 = n1
  n2 = n2
  n3 = n3
  Knows <- MCAll
  MaxDials = 1
  PmCap = 2
  IncomingCap = 1
  Credit = 2
  None = None
  Happens = {}
SPECIFICATION FairSpec
PROPERTIES MeshForms
CHECK_DEADLOCK FALSE
