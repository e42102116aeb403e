CONSTANTS
  a = a
  b = b
  big = big
  m1 = m1
  m2 = m2
  Texts = {a, b}
  Copied = {a}
  TooLarge = {}
  NoText = NoText
  Arrivals <- MCTexts
  Monitors = {m1}
  OutCap = 1
  InCap = 1
SPECIFICATION Spec
INVARIANTS NoEcho
CHECK_DEADLOCK FALSE
