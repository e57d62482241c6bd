SPECIFICATION Spec
CONSTANTS
    RingSize = 32
    Budget = 8
    NoButton = "none"
    Debounce = 3
    Slots = {0}
    Keyboard = {}
    Layers = {0, 1}
    HostMay = {}
    Pad <- LayersPad
    Ladders <- LayersLadders
    Combo <- LayersCombo
    Kind <- LayersKind
    Chord <- LayersChord
INVARIANTS
    InTime
    EverySoundHasAnEnd
    HeldChordSounds
