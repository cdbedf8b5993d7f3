SPECIFICATION CarefulSpec
CONSTANTS
    s1 = s1
    s2 = s2
    Symbol <- OneSymbol
    TimeFrame <- M1
    Duration <- OneTick
    MaxTime = 1
    Readers = TRUE
    MaxCount = 2
    MaxFaults = 0
INVARIANTS MetaCoversBars
