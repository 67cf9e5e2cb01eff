\* One worker, three signals, two deaths and a failure of each kind.
SPECIFICATION FairSpec
CONSTANTS
    Workers = 1
    MaxProcesses = 4
    KillDelay = 3
    MaxSignals = 3
    MaxForkFails = 1
    MaxDeaths = 2
    MaxBadConfs = 1
INVARIANTS
    ChildrenKnown
    ExitingTold
    ExitsLast
PROPERTIES
    ReloadReplaces
    WorkersReturn
    MasterEnds
CHECK_DEADLOCK FALSE
