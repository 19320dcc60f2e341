CONSTANTS
    Threads = {t1, t2}
    Keys = {1, 2, 3}
    Values = {1}
    HashOf <- MCHashOf
    BUCKET_ARRAY_SIZE = 1
    MAX_GLOBAL_DEPTH = 3
    MaxPageId = 4
SYMMETRY MCThreads
SPECIFICATION Spec
INVARIANT TypeOK
INVARIANT DirectoryIntegrity
INVARIANT LookupsComplete
PROPERTY ImplementsHashTableSpec
