SPECIFICATION FairSQLiteSpec
CONSTANTS
    t1 = t1
    t2 = t2
    Threads = {t1, t2}
    Connections = {t1, t2}
    Conn <- OwnConn
    Programs <- Calls
    MaxCalls = 2
    MaxHandles = 3
    MaxDisconnects = 1
    MaxSqlFaults = 2
INVARIANTS IdleHoldsNothing
PROPERTIES CallsAreAtomic EveryCallEnds
CHECK_DEADLOCK FALSE
