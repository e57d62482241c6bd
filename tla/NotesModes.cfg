SPECIFICATION Spec
CONSTANTS
    RingSize = 32
    Budget = 8
    NoButton = "none"
    Debounce = 3
    Slots = {0, 1, 2, 3}
    Keyboard = {2, 3}
    Layers = {0}
    HostMay = {"select", "flip"}
    Pad <- ModesPad
    Ladders <- ModesLadders
    Combo <- ModesCombo
    Kind <- ModesKind
    Chord <- ModesChord
INVARIANTS
    EverySoundHasAnEnd
    NoPhantomKeys
    ChordOfTheProfile
