\* Two workers, a shared socket, a reuseport socket of w1, with and without the mutex.
SPECIFICATION FairSpec
CONSTANTS
    w1 = w1
    w2 = w2
    r1 = r1
    Procs = {w1, w2}
    Free = free
    None = none
    Shared = {s1}
    Reuse <- OneReuse
    Owner <- OneOwner
    Confs <- MutexOrPlain
    ConnN = 16
    FreeN = 1
    MaxClients = 2
    MaxEmfile = 2
    MaxFaults = 1
    MaxKills = 1
INVARIANT
    AcceptPhase
PROPERTIES
    ImplementsMutex
    ClientsServed
CHECK_DEADLOCK FALSE
