CONSTANTS
    Workloads = {"TreeAllReduce"}
    NumGroups = 1
    Size = 3
    TotalRounds = 1
    Empty = {}
    MaxFlows = 5
CHECK_DEADLOCK FALSE
SPECIFICATION Spec
INVARIANTS TreeFlowCount
