CONSTANTS
    Threads = {t1, t2}
    Keys = {1, 2, 3}
    Values = {1}
    HashOf <- MCHashOf
    BUCKET_ARRAY_SIZE = 1
    MAX_GLOBAL_DEPTH = 3
    MaxPageId = 3
    PoolSize = 2
SYMMETRY MCThreads
VIEW MCView
SPECIFICATION Spec
INVARIANT NoNullDereference
