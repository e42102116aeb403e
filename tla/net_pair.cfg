CONSTANTS
  Node = {n1, n2}
  n1 = n1
  n2 = n2
  n3 = n3
  Knows <- MCAll
  MaxDials = 2
  PmCap = 1
  IncomingCap = 1
  Credit = 1
  None = None
  Happens = {"leave", "disconnect", "loss"}
SPECIFICATION Spec
SYMMETRY Symmetry
INVARIANTS TypeOK NoLeak PairAgrees StatusAgrees NoSplit
CHECK_DEADLOCK FALSE
