\* One project whose limits change and two tickets; three protected tips, two
\* of them for a worktree; three daemons.
SPECIFICATION Spec
CONSTANTS
    Projects = {"p1"}
    Tickets = {t1, t2}
    Sources = {x, y}
    Configs = {"wide", "narrow"}
    MaxReg = 3
    MaxDaemons = 2
    MaxRunner = 3
    MaxTip = 3
    MaxStarts = 3
    MaxVersion = 5
    MaxReclaims = 1
    MaxBase = 2
    MaxClaims = 4
    MaxEdits = 1
    MaxFaults = 1
    MaxCheckpointReclaims = 2
    MaxCorrections = 3
    MaxAttempts = 2
    MaxRuns = 2
    MaxLeaders = 4
INVARIANTS SlotsMatchTickets CheckoutIsAccounted CheckpointIsReviewed CandidateIsCurrent SourceIsReviewed DrainIsProved RetryIsAuthenticated RestartIsServed
SYMMETRY Alike
CHECK_DEADLOCK FALSE
