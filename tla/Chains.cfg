SPECIFICATION Spec
CONSTANTS
    MaxFaults = 2
    MaxCalls = 3
INVARIANTS
    ChTypeOK
    StartsClean
    StopsClean
    ServesWhole
