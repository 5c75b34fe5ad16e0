SPECIFICATION Spec
CONSTANTS
    Creates = {}
    Readies = {ready}
    Merges = {}
    MaxVersion = 2
    MaxLeader = 1
    MaxClaim = 2
    MaxBoot = 1
PROPERTIES UnknownIsNoRetry
CHECK_DEADLOCK FALSE
