CONSTANTS
    Keys = {0, 1}
    LeftTables <- MCTables
    RightTables <- MCTables
    ScanPreds <- MCScanPreds
    Preds <- MCPreds
    IndexBits = 8
    Limits <- MCLimits
    Havings <- MCHavings
    UpdateInfos <- MCUpdateInfos
SPECIFICATION Spec
INVARIANT TypeOK NestedLoopJoinCorrect HashJoinCorrect LimitCorrect DistinctCorrect AggregationCorrect IndexConsistent TableWritesCorrect
CHECK_DEADLOCK FALSE
