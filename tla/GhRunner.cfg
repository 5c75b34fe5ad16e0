SPECIFICATION Spec
CONSTANTS
    MaxRuns = 1
PROPERTIES GroupChangeIsNeverProof
CHECK_DEADLOCK FALSE
