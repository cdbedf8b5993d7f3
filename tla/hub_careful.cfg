SPECIFICATION CarefulSpec
CONSTANTS
    Flag <- TheFlags
    Id <- Ids
    N = 2
    Instrument <- OneInstrument
    Duration = 2
    MaxSegment = 2
    Patch <- Patches
    Erasure <- EraseFirst
    Batch <- Batches
    Readers = TRUE
    MaxFaults = 1
INVARIANTS TypeOK Described Reachable SegmentFetchIsComplete
