SPECIFICATION FairSpec
CONSTANTS
    None = None
    Plans <- MCPlans
    MinutesPerHour = 2
    HoursPerDay = 2
    DaysPerMonth = 2
    MonthsPerYear = 2
    DaysPerWeek = 3
    Lookback = 2
    JobTypes <- MCTypes
    Epoch = 3
    InputsEpoch = 3
    SchedulesMax = 2
    RefreshTicks = 2
INVARIANTS
    WorkIsKept
    SchedulesFireOnce
PROPERTIES
    SchedulesKeepUp
CHECK_DEADLOCK FALSE
