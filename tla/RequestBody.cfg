\* A page with two subrequests and a body to be discarded; nothing fails.
SPECIFICATION SpecBody
CONSTANTS
    main = main
    Subs = {s1, s2}
    None = None
    Proxied = {main, s1, s2}
    Cacheable = {s1}
    MaxChunks = 1
    MaxDetours = 0
    MaxFaults = 0
INVARIANTS
    CountNotZero
CHECK_DEADLOCK FALSE
