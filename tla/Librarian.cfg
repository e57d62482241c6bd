SPECIFICATION FairSpec
CONSTANTS
    NumModes = 2
    BankSize = 2
    Profiles <- MCProfiles
    Default <- MCDefault
    ZeroProfile <- MCZeroProfile
    Stale = Stale
    Absent = Absent
    NumSectors = 2
    CrashBudget = 2
    FaultBudget = 1
INVARIANTS
    PowerCycleRoundTrip
PROPERTIES
    ImplementsProfileStore
    EventuallyRuns
\* A device whose partition cannot be erased has no librarian step left.
CHECK_DEADLOCK FALSE
