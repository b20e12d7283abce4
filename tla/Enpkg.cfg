CONSTANTS
    l1 = l1  l2 = l2  a1 = a1
    lib = lib  app = app
    libFile = libFile  appFile = appFile
    Absent = Absent  Torn = Torn
    Eggs <- MCEggs
    Names <- MCNames
    Paths <- MCPaths
    EggName <- MCEggName
    Payload <- MCPayload
    Generated <- MCGenerated
    WithInfo <- MCEggs
    Version <- MCVersion
    Plans <- MCPlans
    DepNames <- MCDepNames
    Below <- OneBelow
    Outages = TRUE
SPECIFICATION EnpkgSpec
INVARIANTS
    RepositoryFaithful
    FetchedBeforeRemoved
    PlanDelivered
PROPERTIES
    DependentsFirst
