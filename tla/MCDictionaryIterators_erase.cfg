CONSTANTS
    W = 6
    Keys <- MCKeys
    Vals = {v1}
    NoValue = NoValue
    Uninit = Uninit
    MinBuckets = 4
    InitReserve = {0, 2}
    ReserveArgs = {5}
    DefaultValue = v1
    NotFound = NotFound
    Iters = {i1}
    NoIter = NoIter

SPECIFICATION IterSpec
VIEW MCIterView

INVARIANTS
    InSyncIteratorDereferenceable
