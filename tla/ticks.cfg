SPECIFICATION TickSpec
CONSTANTS
    MsPerSec = 2
    SecPerHour = 2
    MaxHour = 3
    FixedSpread = 1
    Pattern <- MCPattern
    Live <- MCLive
    MaxAppends = 2
    MaxFaults = 1
CHECK_DEADLOCK FALSE
INVARIANTS CarriedTickIsAdjacent QuotesHoldThePrice
PROPERTIES HourIsPathIndependent SpanIsExact AppendKeepsEveryTick
