CONSTANTS
    PoolSize = 2
    MaxPageId = 3
    Data = {0, 1}
    ZeroData = 0
    Clients = {c1, c2}
SYMMETRY MCClients
SPECIFICATION Spec
INVARIANT TypeOK
INVARIANT FramesAccounted
INVARIANT PinsMatchHolders
INVARIANT NoLostWrite
