SPECIFICATION Spec
CONSTANTS
  s1 = s1
  s2 = s2
  h1 = h1
  h2 = h2
  None = None
  Handler = Handler
  Callback = Callback
  Streams <- OneStream
  Handles <- TwoHandles
  MaxFile = 1
INVARIANT
  FollowedStreamHasTail
CHECK_DEADLOCK FALSE
