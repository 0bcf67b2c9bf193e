SPECIFICATION FairSpec
CONSTANTS
    None = None
    EvType <- Types
    Kinds <- LiveKinds
    MaxTasks = 4
PROPERTIES
    MovesOn
CHECK_DEADLOCK FALSE
