SPECIFICATION Spec
CONSTANTS
  RequestedContexts <- MCRequestedContexts
  MaxLines = 9
INVARIANTS
  TypeOK
  ShowsExactlyTheContext
  RemembersTheContextOnly
PROPERTY
  NeverGoesBack
