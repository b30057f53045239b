SPECIFICATION Spec
CONSTANTS
    Users = {u1, u2, u3}
    Reader = u1
    Workers = {w1}
    Meetings <- WithReader
    OpenLists = {"footprint", "visitors"}
    PerPage = 1
    MaxRows = 3
    MaxFailures = 1
CHECK_DEADLOCK FALSE
SYMMETRY Symmetric
INVARIANTS
    UnreadCoversPage
PROPERTIES
    PagingSkipsNothing
