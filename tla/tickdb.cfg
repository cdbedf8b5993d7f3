SPECIFICATION TickDBSpec
CONSTANTS
    Instruments = 2
    MsPerHour = 4
    KeyHours = 12
    Batches <- MCBatches
    Configs <- MCConfigs
    Ranges <- MCRanges
    Earlier <- MCEarlier
    MaxWrites = 3
    MaxTxnFaults = 1
INVARIANTS FetchGivesWhatWasStored HoursAreKept
PROPERTIES CacheFollowsTable EndFollowsTicks
