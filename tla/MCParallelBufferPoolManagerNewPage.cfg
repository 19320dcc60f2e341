CONSTANTS
    NumInstances = 2
    PoolSize = 1
    MaxPageId = 4
    Data = {0}
    ZeroData = 0
    Clients = {c1}
SPECIFICATION Spec
PROPERTY NewPageAsDocumented
