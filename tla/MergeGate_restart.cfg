SPECIFICATION FairSpec
CONSTANTS
    a = a
    b = b
    build = build
    test = test
    None = None
    Jobs = {a}
    Evals = {build, test}
    Stage <- MCStage
    Gated = {a}
    Publishes = {a}
    ScratchOnly = {}
    Faults = {"git", "skew"}
    MaxCycle = 4
    MaxCrashes = 1
    MaxMoves = 1
INVARIANTS
    TypeOK
    GateFixBudget
    DoneMeansLanded
PROPERTIES
    HoldFreezesHead
    LandingsEnd
CHECK_DEADLOCK FALSE
