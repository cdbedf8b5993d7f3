SPECIFICATION FairSpec
CONSTANTS
    g1 = g1
    g2 = g2
    g3 = g3
    NoGuard = NoGuard
    Guard <- TwoGuards
    N = 3
    Modes <- BothModes
    MaxFaults = 1
INVARIANTS TypeOK NoOrphanedWriter CommitIsPrefix CompletedIsAtomic
PROPERTIES OnlyCommitPublishes ContractSpec BeginTerminates
