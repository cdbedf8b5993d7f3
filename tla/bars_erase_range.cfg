SPECIFICATION CarefulSpec
CONSTANTS
    s1 = s1
    s2 = s2
    Symbol <- OneSymbol
    TimeFrame <- M1AndD1
    Duration <- Ticks
    MaxTime = 1
    Readers = FALSE
    MaxCount = 5
    MaxFaults = 0
INVARIANTS EraseDataReturns
