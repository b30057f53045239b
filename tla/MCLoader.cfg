SPECIFICATION Spec
CONSTANTS
    MaxPosts = 3
    Users = {u1}
    Anonymous = anonymous
    PerPage = 2
    MaxThreadDepth = 2
    MaxWrites = 1
    MaxFailures = 1
CHECK_DEADLOCK FALSE
INVARIANTS
    BatchAgrees
    RepliesBracketed
    RefusedForDeletion
PROPERTIES
    ListsAnswered
    SinglesAnswered
