CONSTANTS
  Lens <- MCRealLens
  InitData = 57
  ContData = 59
  TypeBit = 128
  LenMod = 65536
  DefaultSize <- MCSize
  Systems <- MCSystems
  LinkLists <- MCLinks
  DeadZones = {0, 1}
  BridgeCap = 1
  MaxRaw = 1
  Scripts = {s1}
  MaxEdits = 2
  MaxTime = 2
  MaxEvents = 1
  Starters = {d1, d2}
  MaxIdentity = 2
  FrameCap = 1
  WireCap = 2
  RingCap = 1
  MaxPackets = 3
  Fades = {0, 1, 3}
  MaxFades = 2
  Period = 2
  ImageCap = 4
  MaxChanges = 2
  Calls = {c1, c2}
  MaxProcesses = 2
SPECIFICATION PartsSpec
INVARIANTS RoundTrip InStep SwallowsForRemote RepairedUnlessMidKey PlaysForward FadesApart KeepsSaves
PROPERTIES ReturnsNear StopsUnlessPumping FreshOrMissed StopsUnlessFull AnsweredOrWedged ReconnectsOrGone
CHECK_DEADLOCK FALSE
