\* Two workers, two requests at a time, a server with max_conns 1, a backup server.
SPECIFICATION Spec
CONSTANTS
    p1 = p1
    p2 = p2
    p3 = p3
    Peers = {p1, p2, p3}
    Groups <- MCGroups
    Down = {}
    Weight <- MCWeight
    MaxFails <- MCMaxFails
    MaxConns <- MCMaxConns
    NextUpstream = {"error", "timeout", "http_404"}
    NextTries = 0
    MaxCached = 1
    Workers = {w1, w2}
    Reqs = {r1, r2}
    Kinds <- MCKinds
    None = none
    MaxStarts = 2
    MaxDeaths = 1
SYMMETRY Symmetry
INVARIANTS
    ConnsExact
    CleanReuse
    SentOnce
    RetryBound
    WeightsBalanced
CHECK_DEADLOCK FALSE
