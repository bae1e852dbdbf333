SPECIFICATION FairSpec
CONSTANTS
    Timeout = 3
    Word = 16
    Burst = {1, 2}
    MaxBytes = 6
    MaxRestarts = 2
INVARIANTS CTypeOK NeverOvercounted
PROPERTIES SilentLeaves
