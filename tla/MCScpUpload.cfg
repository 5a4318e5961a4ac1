SPECIFICATION FairSpec
CONSTANTS
    MaxLen = 5
    BUFSIZ = 2
    Faults = {"position", "shrink", "grow", "disk"}
    NoFile = NoFile
INVARIANTS StoresAnnouncedBytes FailedForAReason
PROPERTIES UploadEnds CopiesFile
