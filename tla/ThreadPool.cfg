\* Two threads, three tasks, room for one in the queue, four posts, one fault.
SPECIFICATION FairSpec
CONSTANTS
    Threads = {t1, t2}
    Tasks = {k1, k2, k3}
    Exit = exit
    MaxQueue = 1
    MaxPosts = 4
    MaxFaults = 1
INVARIANTS
    WorkConserving
    OnePlace
    DoneNotified
    DestroyedUnused
PROPERTIES
    PostedCompletes
    StopEnds
CHECK_DEADLOCK FALSE
