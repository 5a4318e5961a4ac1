CHECK_DEADLOCK FALSE
SPECIFICATION FairSpec
CONSTANTS
    MaxUnits = 1
    BUFSIZ = 2
    Capacity = 1
    PollTimeout = FALSE
PROPERTY SignalStartsClient
