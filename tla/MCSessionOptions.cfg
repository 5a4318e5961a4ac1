SPECIFICATION Spec
CONSTANTS
    StringOptions = {"user"}
    ListOptions = {"hostkeys"}
    IntOptions = {"port"}
    LongOptions = {"timeout"}
    FlagOptions = {"stricthostkeycheck"}
    Texts = {text, nul}
    NulTexts = {nul}
    Integer <- Samples
    Member = {1, 2, 3, 4, 8}
    IntMax = 3
    LongMax = 7
    FileText = configured
    FileSets <- Files
    MaxCalls = 2
    Unset = Unset
INVARIANTS TypeOK SetMeansStored
PROPERTY RefusedChangesNothing
