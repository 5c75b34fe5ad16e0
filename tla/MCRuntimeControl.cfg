\* One ticket, two daemons; three tickets and two loops.
SPECIFICATION SpecEither
CONSTANTS
    MaxVersion = 6
    MaxLeader = 2
    GateTimeouts = TRUE
    Loops = {l1, l2}
    N = 3
    MaxMoves = 1
INVARIANTS RowsAgree
PROPERTIES RequestEnds ArmedIsServed ReadyIsPicked
CHECK_DEADLOCK FALSE
