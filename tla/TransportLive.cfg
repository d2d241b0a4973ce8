CHECK_DEADLOCK FALSE
SPECIFICATION FairSpec
PROPERTIES EventuallyComplete
