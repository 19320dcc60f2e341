CONSTANTS
    Keys = {0}
    LeftTables <- MCOneRow
    RightTables <- MCManyRows
    ScanPreds <- MCKeepAll
    Preds <- MCEquality
    IndexBits = 8
SPECIFICATION Spec
INVARIANT HashJoinCorrect
CHECK_DEADLOCK FALSE
