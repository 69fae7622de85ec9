SPECIFICATION Spec
CONSTANTS
  t1 = t1
  t2 = t2
  p1 = p1
  p2 = p2
  f1 = f1
  f2 = f2
  None = None
  Tabs <- TwoTabs
  Projects <- TwoProjects
  Files <- TwoFiles
  Latest = f1
  Size = 2
  Chunk = 1
  MaxText = 2
  MaxCalls = 2
  MaxSearches = 2
  MaxClicks = 5
SYMMETRY PageSymmetry
INVARIANTS
  TabsDoNotMix
  PageIsActiveTab
  OneTabPerProject
  OnePrevAtATime
PROPERTIES
  SearchNeverGoesBack
CHECK_DEADLOCK FALSE
