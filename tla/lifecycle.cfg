SPECIFICATION FairSpec
CONSTANTS
    N = 3
    MaxFaults = 3
INVARIANTS TypeOK
PROPERTIES StartMeansReady StartCanBeRetried StopMeansClosed CallsReturn
