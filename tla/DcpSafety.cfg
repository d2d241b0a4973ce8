CONSTANTS
    NumPkts = 3
    Win = 2
    Chunk = 4
    AckInterval = 1
    AR = TRUE
    AckOpt = FALSE
    LinkLoss = FALSE
    MaxCopies = 1
CHECK_DEADLOCK FALSE
SPECIFICATION MCSpec
INVARIANTS BeliefsHonest NothingForgotten
PROPERTIES CompletedStaysSilent ImplementsReliableTransfer
