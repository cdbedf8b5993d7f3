SPECIFICATION Spec
CONSTANTS
    N = 2
    MaxFaults = 0
PROPERTIES StopStops
