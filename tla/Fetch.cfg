CONSTANTS
    Procs = {p, q}
    NoFile = NoFile
    MaxRetries = 1
    Wanted <- MCWanted
    Answers <- MCAnswers
SPECIFICATION Spec
INVARIANTS
    ForcedFetchDelivers
    NoTempLeft
PROPERTIES
    OnlyVerifiedContent
    CancelPreventsPublication
    AtomicCache
    FetchEnds
CHECK_DEADLOCK FALSE
