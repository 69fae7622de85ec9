SPECIFICATION Spec
CONSTANTS
  w1 = w1
  w2 = w2
  w3 = w3
  None = None
  OtherWs = OtherWs
  Sockets <- ThreeSockets
  MaxOpens = 2
  MaxDrops = 1
  StreamIds <- SixIds
  MaxLines = 1
  MaxSwitches = 1
  SlowConnect = TRUE
SYMMETRY SocketSymmetry
INVARIANTS
  OneLiveSocket
  
CHECK_DEADLOCK FALSE
