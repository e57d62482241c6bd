SPECIFICATION FairSpec
CONSTANTS
    RtSlots = 4
    NbSlots = 8
    MainLengths = {1, 3}
    ThruLengths = {2, 3}
    HostClocks = {start}
    PanicSize = 2
    Tick = tick
    Idle = idle
PROPERTIES
    ImplementsMidiWire
    QuietDrains
