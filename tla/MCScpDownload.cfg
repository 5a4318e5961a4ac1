SPECIFICATION FairSpec
CONSTANTS
    Scripts <- MCScripts
    MaxChunk = 2
    IntMax = 4
    NoFile = NoFile
INVARIANTS TypeOK FailedForAReason NeverPartial
PROPERTIES DownloadEnds CopiesFile
