\* A wakeup that is lost leaves the main thread and server_thread waiting.
CHECK_DEADLOCK FALSE
SPECIFICATION FairSpec
CONSTANTS
    MaxUnits = 2
    BUFSIZ = 2
    Capacity = 1
    PollTimeout = TRUE
INVARIANTS TypeOK DoneMeansRelayed
PROPERTIES UpPipe DownPipe RelayEnds
