CONSTANTS
    NumInstances = 3
    PoolSize = 1
    MaxPageId = 6
    Data = {0, 1}
    ZeroData = 0
    Clients = {c1}
SYMMETRY MCClients
SPECIFICATION Spec
INVARIANT TypeOK NewPageInBounds ShardsKeepWrites
