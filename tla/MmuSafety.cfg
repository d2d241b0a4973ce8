CONSTANTS
    Settings = {"Configured", "Lossless", "Trimmed", "LinkDown"}
    NumPorts = 3
    Routes <- Incast
    Sizes = {148, 1048}
    HeaderBytes = 48
    BufferBytes <- Pool2
    HeadroomLimit = 3144
    HeadroomDefault = 2096
    IngressAlpha = 16
    EgressAlpha = 100
    Pfc = TRUE
    Trimming = FALSE
    LinksFail = FALSE
    Garbage = FALSE
    MaxQueued = 2
    MaxFrames = 1
CHECK_DEADLOCK FALSE
SPECIFICATION MCSpec
INVARIANTS TypeOK CountersExactWhileUp OverflowInHeadroom DeepHeadroomPaused
