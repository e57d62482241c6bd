SPECIFICATION FairSpec
CONSTANTS
    HidButtons = {b1, b2}
    Bindings <- MCBindings
    MaxKeys = 1
    RingSlots = 2
INVARIANTS
    HostSeesHeld
PROPERTIES
    BufferIsStable
    QuietSettles
