SPECIFICATION FairSpec
CONSTANTS
  t1 = t1
  t2 = t2
  k1 = k1
  None = None
  Tabs <- TwoTabs
  Keywords <- OneKeyword
  Chunk = 2
  KeywordLines = 3
  MaxText = 4
  Height = 2
  FirstSize = 4
  MaxLines = 6
  MaxClicks = 3
  Patient = FALSE
INVARIANTS
  ViewShowsTheText
  LinesStayInOrder
PROPERTIES
  OnlyTheUserStopsFollowing
  NewLinesAreSeen
CHECK_DEADLOCK FALSE
