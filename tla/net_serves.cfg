CONSTANTS
  Node = {n1, n2}
  n1 = n1
  n2 = n2
  n3 = n3
  Knows <- MCAll
  MaxDials = 1
  PmCap = 1
  IncomingCap = 1
  Credit = 1
  None = None
  Happens = {"leave", "disconnect", "send", "loss"}
SPECIFICATION FairSpec
PROPERTIES StuckForGood ServesOrStuck
CHECK_DEADLOCK FALSE
