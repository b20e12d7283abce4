SPECIFICATION MachineSpec
CONSTANTS
    Remote <- MCRemote
    Below <- MCBelow
    Cached <- MCCached
    Closure <- MCClosure
    Lines <- MCLines
    Running = 1
    Autoupdate = TRUE
    BootEgg <- enst2
    Commands <- MCCommands
    Calls <- MCCalls
INVARIANTS
    CrashChangesNothing
    NothingLost
    DoneAsAsked
    BootstrapVerified
