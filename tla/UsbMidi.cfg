SPECIFICATION FairSpec
CONSTANTS
    Events = {e1, e2}
    Slots = 2
    Buffers = 4
INVARIANTS
    SinkIsKept
PROPERTIES
    ImplementsMidiPort
    QuietDrains
