CONSTANTS
    Procs = {p, q}
    x = x  y = y
    Eggs = {x, y}
    NoEgg = NoEgg
    Torn = Torn
    NoLog = NoLog
    Error = Error
    InitialLogs <- Logs
    MaxLines = 3
SPECIFICATION LogSpec
INVARIANTS
    UpToDate
PROPERTIES
    RaisesOnlyOnBrokenLog
    RevisionsStable
