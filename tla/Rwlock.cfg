\* Three processes and a word of three bits, WLOCK = 7; two calls each.
SPECIFICATION FairSpec
CONSTANTS
    Procs = {p1, p2, p3}
    Width = 3
    MaxOps = 2
    MaxKills = 1
INVARIANTS
    Exclusion
    WordCounts
PROPERTY
    EveryoneServed
CHECK_DEADLOCK FALSE
