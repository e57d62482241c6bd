SPECIFICATION TSpec
CONSTANTS
    Wrap = 12
    Gap = 4
    Period = 2
    Configs <- MCConfigs
    Micros = 4
    BpmMin = 1
    BpmMax = 4
    Defaults <- MCDefaults
    HandTempos <- MCHandTempos
INVARIANTS
    TwoClocksOnlyByStampRace
PROPERTIES
    GeneratorComesBack
    FallbackKeepsTheBeat
    HandKeepsTheTempo
