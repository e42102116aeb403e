CONSTANTS
  a = a
  b = b
  big = big
  m1 = m1
  m2 = m2
  Texts = {a, b, big}
  Copied = {a, b}
  TooLarge = {big}
  NoText = NoText
  Arrivals <- MCKinds
  Monitors = {m1, m2}
  OutCap = 1
  InCap = 1
SPECIFICATION FairSpec
INVARIANTS TypeOK
PROPERTIES WedgedForGood ServesOrWedged Announced
CHECK_DEADLOCK FALSE
