SPECIFICATION Spec
CONSTANTS
  s1 = s1
  s2 = s2
  a = a
  b = b
  t1 = t1
  t2 = t2
  t3 = t3
  None = None
  Servers <- TwoServers
  Projects <- TwoProjects
  Tabs <- ThreeTabs
  ProjectsOf <- BothProjectsAndOne
  Legacy <- BothStarred
  MaxCalls = 2
  MaxClicks = 5
SYMMETRY TabSymmetry
INVARIANTS
  StarsAreOfTheServer
  ServerIsTheSelected
  ProjectsAreOfTheServer
PROPERTIES
  AnswersLeaveTheUserAlone
  StarsChangeOneByOne
CHECK_DEADLOCK FALSE
