CONSTANTS
    W = 16
    Keys <- MCKeys
    Vals = {v1, v2}
    NoValue = NoValue
    Uninit = Uninit
    MinBuckets = 8
    InlineBuckets = 4
    InitBuckets = {0, 8}
    ReserveArgs = {6}
    DefaultValue = v1
    NotFound = NotFound

SPECIFICATION Spec
VIEW MCView

INVARIANTS
    TypeOK
    LargeRepLargerThanInline
    CountersConsistent

PROPERTIES
    KVMapRefinement
