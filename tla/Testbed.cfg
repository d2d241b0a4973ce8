CONSTANTS
    t1 = t1
    t2 = t2
    Plan <- MCPlan
    Bandwidth <- MCBandwidth
    NumControllers = 3
    MaxFaults = 2
CHECK_DEADLOCK FALSE
SPECIFICATION FairSpec
INVARIANTS TypeOK TrafficAlone CompletedHonest StatusSettled
PROPERTIES SuccessHonest ReuseChecked ResumeCompletes
