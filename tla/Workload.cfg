CONSTANTS
    Workloads = {"RingAllReduce", "AllToAll", "AllToAllV", "TreeAllReduce"}
    NumGroups = 2
    Size = 3
    TotalRounds = 3
    Empty <- OneEmpty
    MaxFlows = 12
CHECK_DEADLOCK FALSE
SPECIFICATION MCSpec
INVARIANTS SendsWhatItHas LoggedOnceWhenDone TreeCountedOnce
PROPERTIES RoundsApart AllRoundsEnd
