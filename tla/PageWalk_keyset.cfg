SPECIFICATION FairSpec
CONSTANTS
    Slots = {1, 2, 3}
    Values = {1, 2}
    NULL = NULL
    Absent = Absent
    None = None
    Key <- MCKey
    ValueCol = "v"
    MaxPageSize = 3
    Defs <- KeyedDefs
    Orders <- MCOrders
    Sizes = {1, 2}
    Requests <- MCRequests
    MaxWrites = 2
CHECK_DEADLOCK FALSE
INVARIANTS
    PageIsSlice
    WalkExact
PROPERTIES
    WalkEnds
