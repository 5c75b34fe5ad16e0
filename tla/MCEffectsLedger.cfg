SPECIFICATION Spec
CONSTANTS
    Creates = {}
    Readies = {ready}
    Merges = {merge}
    MaxVersion = 3
    MaxLeader = 2
    MaxClaim = 2
    MaxBoot = 1
INVARIANTS AtMostOneHandoff GateIsCurrent StoppedIsQuiet ReadyAppliedOnce
CHECK_DEADLOCK FALSE
