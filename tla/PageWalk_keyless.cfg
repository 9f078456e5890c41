SPECIFICATION Spec
CONSTANTS
    Slots = {1, 2, 3, 4}
    Values = {1, 2}
    NULL = NULL
    Absent = Absent
    None = None
    Key <- MCKey
    ValueCol = "v"
    MaxPageSize = 3
    Defs <- KeylessDefs
    Orders <- NoOrders
    Sizes = {1, 2}
    Requests <- NoRequests
    MaxWrites = 0
CHECK_DEADLOCK FALSE
INVARIANTS
    WalkExact
