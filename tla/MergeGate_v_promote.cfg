SPECIFICATION Spec
CONSTANTS
    a = a
    b = b
    build = build
    test = test
    None = None
    Jobs = {a, b}
    Evals = {build, test}
    Stage <- MCStage
    Gated = {a, b}
    Publishes = {}
    ScratchOnly = {}
    Faults = {"syncInGate"}
    MaxCycle = 2
    MaxCrashes = 0
    MaxMoves = 2
INVARIANTS
    DoneMeansLanded
CHECK_DEADLOCK FALSE
