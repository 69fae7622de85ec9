SPECIFICATION FairSpec
CONSTANTS
  s1 = s1
  s2 = s2
  h1 = h1
  h2 = h2
  None = None
  Handler = Handler
  Callback = Callback
  Streams <- OneStream
  Handles <- TwoHandles
  MaxFile = 2
INVARIANTS
  OneTailPerStream
  GenerationNamesTail
  TailFollowsCurrentFile
PROPERTIES
  DisconnectReleasesTails
  EveryCloseEnds
CHECK_DEADLOCK FALSE
