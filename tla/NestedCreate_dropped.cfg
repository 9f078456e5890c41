SPECIFICATION Spec
CONSTANTS
  Tables <- MCTables
  FKs <- MCFKs
  Owner <- MCOwner
  Ref <- MCRef
  NotNull <- MCNotNull
  Seed <- MCSeed
  Others <- MCOthers
  Inputs <- MCInputs
  NULL = NULL
  u1 = u1
  u3 = u3
  p2 = p2
  first = first
  second = second
  MaxDepth = 3
  MaxWrites = 1
  MaxNodes = 3
  MaxLen = 3
INVARIANT NothingDropped
