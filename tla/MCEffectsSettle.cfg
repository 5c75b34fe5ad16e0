SPECIFICATION FairSpec
CONSTANTS
    Creates = {draft}
    Readies = {}
    Merges = {}
    MaxVersion = 4
    MaxLeader = 2
    MaxClaim = 2
    MaxBoot = 2
PROPERTIES QuarantineOutlivesChildren AppliedIsConfirmed
CHECK_DEADLOCK FALSE
