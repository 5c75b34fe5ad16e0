\* The disturbed instance; the other one's constants are in the module.
SPECIFICATION SpecEither
CONSTANTS
    Bindings = {b1}
    NoBinding = none
    Costs = {0, 2}
    MaxCost = 3
    MaxVersion = 3
    MaxLeader = 2
    MaxBoot = 2
    Faults = {"stop", "crash", "undrained", "busy"}
INVARIANTS OneWriter SpentWithinBudget
PROPERTIES RevokedHasNoResult EntrySettles
CHECK_DEADLOCK FALSE
