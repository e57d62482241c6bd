SPECIFICATION FairSpec
CONSTANTS
    DfuScans = 5
    HoldTicks = 4
    GateTicks = 2
    TrackCodes <- MCTrackCodes
    VolCodes <- MCVolCodes
INVARIANTS
    ComboIsSilent
    LatchIsDown
PROPERTIES
    OffIsMeant
    GateGuardsTheLoop
    ImplementsLadderEvents
    NothingLingers
