SPECIFICATION Spec
CONSTANTS
    Timeout = 2
    Word = 16
    Burst = {1, 2}
    MaxBytes = 5
    MaxRestarts = 0
PROPERTIES ActiveStays
