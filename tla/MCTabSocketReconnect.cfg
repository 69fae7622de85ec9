SPECIFICATION FairSpec
CONSTANTS
  w1 = w1
  w2 = w2
  w3 = w3
  None = None
  OtherWs = OtherWs
  Sockets <- TwoSockets
  MaxOpens = 1
  MaxDrops = 1
  StreamIds <- SixIds
  MaxLines = 1
  MaxSwitches = 2
  SlowConnect = FALSE
PROPERTIES
  BrokenConnectionIsReplaced
  GivenUpSocketsClose
CHECK_DEADLOCK FALSE
