\* One slot beside the listening socket's, so that the pool is full after one
\* connection, and a socket number for the next.
SPECIFICATION Spec
CONSTANTS
    Conns = {c1, lc}
    Listener = lc
    Fds = {f1, f2, f3}
    NoFd = nofd
    NoReg = noreg
    MaxGets = 3
    MaxQueued = 1
SYMMETRY Symmetry
INVARIANTS
    StaleFiltered
    FreeExact
    RefsCurrent
CHECK_DEADLOCK FALSE
