SPECIFICATION Spec
CONSTANTS
    MaxLeader = 4
    MaxFaults = 3
    MaxPending = 1
    MaxAttempts = 2
    Limit = 1
    Protections <- MCProtections
INVARIANTS VerdictIsOwn RepairIsAuthentic FirstCrashResumes
CHECK_DEADLOCK FALSE
