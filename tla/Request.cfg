\* A page with two subrequests, one failure, one redirect or delay.
SPECIFICATION Spec
CONSTANTS
    main = main
    Subs = {s1, s2}
    None = None
    Proxied = {main, s1}
    Cacheable = {s1}
    MaxChunks = 1
    MaxDetours = 1
    MaxFaults = 1
INVARIANTS
    CountExact
    Unused
    InOrder
PROPERTIES
    Freed
CHECK_DEADLOCK FALSE
