\* Three starts of a daemon that qualifies, two that author, one that does both;
\* two daemons, a lock path that is replaced twice, three epochs.
SPECIFICATION SpecEither
CONSTANTS
    Sessions = {s1, s2}
    Keys = {k1, k2}
    TurnLimit = 1
    Capacity = 1
    Scopes <- MCScopes
    MaxBoot = 2
    Daemons = {d1, d2}
    NoDaemon = NoDaemon
    MaxInode = 3
    MaxEpoch = 3
INVARIANTS AuthorityOutlivesWork ChildIsAccounted OneValidLease
SYMMETRY Alike
CHECK_DEADLOCK FALSE
