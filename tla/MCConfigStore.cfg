SPECIFICATION Spec
CONSTANTS
  c1 = c1
  c2 = c2
  i1 = i1
  i2 = i2
  i3 = i3
  None = None
  Mask = Mask
  Blank = Blank
  Unreadable = Unreadable
  Pages <- TwoPages
  Ids <- ThreeIds
  MaxTyped = 2
  MaxSaves = 2
SYMMETRY StoreSymmetry
INVARIANTS
  PasswordsStayWithTheirServer
PROPERTIES
  RegisterSpec
CHECK_DEADLOCK FALSE
