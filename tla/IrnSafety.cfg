CONSTANTS
    Settings = {"Lossy", "Adaptive", "Paused", "PausedAdaptive", "Lists"}
    NumPkts = 4
    Win = 0
    Bdp = 2
    Chunk = 4
    AckInterval = 1
    AR = FALSE
    Pfc = FALSE
    LinkLoss = TRUE
    MaxCopies = 1
    Top = 5
CHECK_DEADLOCK FALSE
SPECIFICATION MCSpec
INVARIANTS TypeOK BeliefsHonest AssertionsHold BdpLimit ListsCorrect
PROPERTIES ImplementsReliableTransfer
