SPECIFICATION Spec
CONSTANTS
    None = None
    EvType <- Types
    Kinds <- SafetyKinds
    MaxTasks = 5
INVARIANTS
    OneAtATime
    LandsWhatWasEvaluated
    BudgetsHold
    InboxIsTrue
    SlotsAreLatest
CHECK_DEADLOCK FALSE
