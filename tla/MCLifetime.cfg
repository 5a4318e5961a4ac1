SPECIFICATION FairSpec
CONSTANTS
    Session = {s1}
    Channel = {c1}
    Scp = {p1}
    NoSession = NoSession
    OldAge = 2
INVARIANTS SessionOutlivesDependents DanglingOnlyAfterDisconnect
PROPERTIES ChannelFreedBySession UnreachableSessionFreed
