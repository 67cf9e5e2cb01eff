\* One worker, SIGUSR2 that fails, SIGHUP.
SPECIFICATION Spec
CONSTANTS
    Workers = 1
    MaxProcesses = 4
    KillDelay = 3
    MaxSignals = 2
    MaxForkFails = 1
    MaxDeaths = 0
    MaxBadConfs = 0
PROPERTY
    HupReplaces
CHECK_DEADLOCK FALSE
