CONSTANTS
    U16Max = 31
    MinMtus = {0, 1, 2, 5}
    MaxMtus = {1, 7, 14, 15, 16, 31}
    PathMtus = {2, 5, 9, 14, 15, 20}
    MaxAttempts = 6
SPECIFICATION FairSpec
INVARIANTS TypeOK NoOverflow WorkingBelowFailing NeverOverestimates ExactWhenAnswered LogarithmicProbes
PROPERTIES SearchReturns
CHECK_DEADLOCK FALSE
