SPECIFICATION Spec
CONSTANTS
    command = command
    commit = commit
    Tickets = {command, commit}
    Kind <- KindDef
    MaxFence = 3
    MaxLeader = 2
    Faults = {"stop", "crash", "deadline", "provider", "unclear", "error"}
INVARIANTS OneWriter SettledIsSilent VisibleIsPrepared
CHECK_DEADLOCK FALSE
