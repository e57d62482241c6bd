SPECIFICATION Spec
CONSTANTS
    DfuScans = 5
    Layers = 2
    Slots = {"mix", "tempo"}
    Role <- MCRole
    Positions <- MCPositions
    Noise <- MCNoise
    VolCodes <- MCVolCodes
INVARIANTS
    CatchIsForTheLayerEntered
