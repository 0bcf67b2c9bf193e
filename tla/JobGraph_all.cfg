SPECIFICATION FairSpec
CONSTANTS
    x = x
    y = y
    z = z
    b = b
    c = c
    None = None
    Jobs = {x, y, z, b, c}
    Batches = {b, c}
    Plans <- AllPlans
INVARIANTS
    AdmittedOnDoneDeps
    QueueIsTrue
    GraphIsTrue
    MembersAreHeld
PROPERTIES
    ImplementsPrecedence
    BlockedMovesOn
    MembersFollowBatch
CHECK_DEADLOCK FALSE
