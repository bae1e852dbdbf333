SPECIFICATION WSpec
CONSTANTS
    MaxProcs = 2
    Script = {c1}
    MaxFaults = 0
PROPERTIES UsersAreKept
