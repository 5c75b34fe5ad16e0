CONSTANTS
    MaxLeader = 4
    MaxFaults = 3
    Corrections = 2
SPECIFICATION Spec
CHECK_DEADLOCK FALSE
INVARIANTS PriorHeldTicket CompletedIsNotRerun FirstCrashResumes
PROPERTIES NormativeSpec
