CONSTANTS
    a1 = a1  a2 = a2  b1 = b1
    a = a  b = b
    mod = mod  script = script  data = data  own = own
    Absent = Absent  Torn = Torn
    Eggs <- MCEggs
    Names <- MCNames
    Paths <- MCPaths
    EggName <- MCEggName
    Payload <- MCPayload
    Generated <- MCGenerated
    WithInfo <- MCWithInfo
SPECIFICATION Spec
INVARIANTS
    RecordsAgree
    RecordedFilesPresent
    NoFileLeftBehind
CHECK_DEADLOCK TRUE
