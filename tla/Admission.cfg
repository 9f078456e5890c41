SPECIFICATION Spec
CONSTANTS
  NULL = NULL
  MaxDepth = 4
  MaxCost = 12
  MaxPageSize = 3
  ArrayLen = 25
  Selections <- MCSelections
  Operations <- MCOperations
  Arrivals <- MCArrivals
  Roles = {user, admin, odd}
  BadRoles = {odd}
  NoRole = NoRole
  user = user
  admin = admin
  odd = odd
INVARIANTS
  NeverPrivileged
  LimitsCoverWhatRuns
  CostBoundsResponse
  DepthSettledUpFront
CHECK_DEADLOCK FALSE
