\* Three requests, two at a time, two keys and room for one node; a death or a fault.
SPECIFICATION Spec
CONSTANTS
    k1 = k1
    k2 = k2
    Keys = {k1, k2}
    Nodes = {n1}
    MinUses <- Uses
    OnDisk = {k1}
    Reqs = {r1, r2}
    Manager = manager
    None = none
    MaxStarts = 3
    MaxFaults = 1
SYMMETRY Symmetry
VIEW View
INVARIANTS
    CountExact
    UpdatingOwned
CHECK_DEADLOCK FALSE
