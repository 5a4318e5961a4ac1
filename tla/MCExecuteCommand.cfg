SPECIFICATION FairSpec
CONSTANTS
    Stdout = stdout
    Stderr = stderr
    Stream <- MCStream
    Status = {0, 1}
    Unknown = nil
    NoStatus = NoStatus
    BUFSIZ = 2
    Window = 3
    MaxUnits = 3
    Pty = TRUE
INVARIANTS TypeOK StatusAfterOutput ExitStatusFaithful ChannelClosed
PROPERTIES CommandFinishes RunsCommand
