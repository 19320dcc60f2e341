\* Two callers, two keys with the same hash, one-slot buckets: a split
\* cannot separate the keys, and a Remove can free the bucket between an
\* Insert's unlock and its IsFull read.
CONSTANTS
    Threads = {t1, t2}
    Keys = {1, 2}
    Values = {1}
    HashOf <- MCCollidingHashOf
    BUCKET_ARRAY_SIZE = 1
    MAX_GLOBAL_DEPTH = 2
    MaxPageId = 3
SPECIFICATION Spec
PROPERTY InsertAsDocumented
