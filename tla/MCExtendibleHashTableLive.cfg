CONSTANTS
    Threads = {t1, t2}
    Keys = {1, 2}
    Values = {1}
    HashOf <- MCHashOf
    BUCKET_ARRAY_SIZE = 1
    MAX_GLOBAL_DEPTH = 2
    MaxPageId = 3
SPECIFICATION FairSpec
PROPERTY CallsReturn
