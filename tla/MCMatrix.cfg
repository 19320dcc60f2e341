CONSTANTS
    Handles <- MCHandles
    Vals <- MCVals
    MaxDim = 2
SPECIFICATION Spec
INVARIANT OperationsAsDocumented
