SPECIFICATION CSpec
CONSTANTS
    Value <- MCValue
    Valid <- MCValid
    Fallback <- MCFallback
    Legacy <- MCLegacy
    Zero = 0
    FaultBudget = 1
    CrashBudget = 1
    CutBudget = 1
    Scenes <- MCScenes
    InitMayFail = TRUE
    NumModes = 2
    BankSize = 2
    Profiles <- MCProfiles
    Default <- MCDefault
    NumLeds = 1
    LineCap = 12
    Shapes <- MCShapes
    Requests <- MCRequests
    SaveTicks = 2
    None = None
INVARIANTS
    CacheIsDurable
    OneFrameOneRequest
    MarkerIsFresh
    CleanIsAtRest
    FlushRecovers
PROPERTIES
    OkIsDurable
    TempoIsSaved
