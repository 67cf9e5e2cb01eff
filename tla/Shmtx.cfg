\* Three workers, one call each, one kill and one failing sem_wait().
SPECIFICATION FairSpec
CONSTANTS
    Procs = {p1, p2, p3}
    Master = master
    Free = free
    MaxOps = 1
    MaxKills = 1
    MaxFaults = 1
INVARIANTS
    MutualExclusion
    TokenAccounting
    NoLostWakeup
PROPERTIES
    ImplementsMutex
    Drained
CHECK_DEADLOCK FALSE
