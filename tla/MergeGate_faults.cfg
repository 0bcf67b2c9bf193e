SPECIFICATION Spec
CONSTANTS
    a = a
    b = b
    build = build
    test = test
    None = None
    Jobs = {a, b}
    Evals = {build, test}
    Stage <- MCStage
    Gated = {a}
    Publishes = {}
    ScratchOnly = {}
    Faults = {"promote", "stageLaunch", "queueTimeout"}
    MaxCycle = 2
    MaxCrashes = 0
    MaxMoves = 1
INVARIANTS
    WrapUpIsDriven
CHECK_DEADLOCK FALSE
