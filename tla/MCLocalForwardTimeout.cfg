CHECK_DEADLOCK FALSE
SPECIFICATION Spec
CONSTANTS
    MaxUnits = 1
    BUFSIZ = 2
    Capacity = 1
    PollTimeout = TRUE
INVARIANT NilMeansTimeout
