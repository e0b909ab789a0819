CONSTANTS
    CMD = 4
    SECTOR = 5
    TIMEOUT = 1000
    Starts <- mc_SlowLine
    Data = {1, 160}
    LAST_K = 1
    MAX_COUNT = 2
    MAX_FAULTS = 1
SPECIFICATION Spec
PROPERTIES TimeoutMeansSilence
