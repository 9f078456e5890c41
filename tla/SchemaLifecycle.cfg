SPECIFICATION Spec
CONSTANTS
  d1 = d1  d2 = d2
  Hole = Hole
  Torn = Torn
  Blocks = 2
  Format = 2
  Dumpers = {d1, d2}
  Catalog <- Catalogs
  Edits <- DDLs
  Starts <- Begin
  MaxDDL = 1
INVARIANTS
  LoadIsWhole
  CheckTellsDrift
  NothingDangles
  NestedSpecsCoverSchemas
  TagsReachEverySurface
  RelationsBothWays
PROPERTIES
  SwapIsRestart
SYMMETRY Interchangeable
CHECK_DEADLOCK FALSE
