CONSTANTS
    Settings = {"GoBackN", "BackToZero", "OneChunk", "Adaptive", "Notified"}
    NumPkts = 3
    Win = 3
    Chunk = 4
    AckInterval = 1
    BackTo0 = FALSE
    AR = FALSE
    Ideal = FALSE
    SwitchDrops = TRUE
    LinkLoss = TRUE
    MaxCopies = 2
CHECK_DEADLOCK FALSE
SPECIFICATION MCSpec
INVARIANTS NoFalseAck IdealForgetsNothing
PROPERTIES ImplementsReliableTransfer CompletedStaysSilent AdaptiveTimeoutsClassified
