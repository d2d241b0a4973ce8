CONSTANTS
    Procs = {1, 2}
    Nobody = 0
    MaxFailures = 0
CHECK_DEADLOCK FALSE
SPECIFICATION TrafficSpec
INVARIANTS StartsWithWholeFile
