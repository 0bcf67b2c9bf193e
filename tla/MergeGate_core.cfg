SPECIFICATION Spec
CONSTANTS
    a = a
    b = b
    build = build
    test = test
    None = None
    Jobs = {a, b}
    Evals = {build, test}
    Stage <- MCStage
    Gated = {a, b}
    Publishes = {}
    ScratchOnly = {}
    Faults = {}
    MaxCycle = 2
    MaxCrashes = 1
    MaxMoves = 0
SYMMETRY Symmetry
INVARIANTS
    QueueIsWrapUp
    PipelineIsDriven
    GateSeesHead
PROPERTIES
    LandedIsVerified
    ImplementsTrunk
CHECK_DEADLOCK FALSE
