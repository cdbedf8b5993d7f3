SPECIFICATION CodecsSpec
CONSTANTS
    W32 = 5
    W64 = 7
    CHUNK8 = 3
    CHUNK4 = 2
    RUN_BITS = 1
    MS_PER_SEC = 4
    MARKETS = 2
    EXCHANGES = 2
    SYMBOLS = 4
    TIMES = 16
    Signed <- MCSigned
    Unsigned <- MCUnsigned
    Bases <- MCBases
    BarSeqs <- MCBarSeqs
    AnyBars <- MCAnyBars
    StaleBars <- MCStale
    Intervals <- MCIntervals
    Times <- MCTimes
    TickInputs <- MCTickInputs
    TickConfigs <- MCTickConfigs
    BarInputs <- MCBarInputs
    BarConfigs <- MCBarConfigs
    INTERVAL = 8
    MAX_DIGITS = 2
    MAX_READ = 5
    MAX_BLOCKS = 2
    W = 2
    MAX_BITS = 7
    Operands <- MCOperands
    VBITS = 2
    BLOCK = 4
    UNIT = 4
    BITS = 5
    PackPlans <- MCPlans
    PLACES = 3
    MAX_PRECISION = 2
    Values <- MCValues
    Flag <- MCFlags
    Id = {1, 2, 3}
    MetadataRecords <- MCMetadata
    SEC_LIMIT = 10
    MS_LIMIT = 100
    FuturesFiles <- MCFuturesFiles
    SpotFiles <- MCSpotFiles
    BybitFiles <- MCBybitFiles
    Pairs = 2
    MS_PER_HALF_HOUR = 2
    RateBatches <- MCRateBatches
    MAX_WRITES = 3
    MAX_FAULTS = 1
CHECK_DEADLOCK FALSE
INVARIANTS CodecsAreLossless  TransformsAreExact RecordsAreRead FilesAreRead SerializersAreExact
PROPERTIES CallsActOnSets FundingFollowsCalls
