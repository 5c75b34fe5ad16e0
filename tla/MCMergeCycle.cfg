\* One ticket, three daemons, two candidates.
SPECIFICATION Spec
CONSTANTS
    MaxLeader = 3
    MaxGen = 2
    MaxBase = 3
    MaxClaims = 3
    Limit = 1
INVARIANTS MergeIsSentOnce DoneIsReviewed FirstCrashResumes
CHECK_DEADLOCK FALSE
