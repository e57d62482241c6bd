SPECIFICATION TxSpec
CONSTANTS
    RingSize = 7
    Budget = 3
    Voices = {n1, n2}
    MaxPending = 6
PROPERTIES
    ImplementsChordQueue
