\* Dictionary: keys {1, 2, 3, 5, 9} (MCKeys), two values, 16-bit counters,
\* MinBuckets 4, initialReserve 0 or 2, reserve(5).  Controller: four
\* threads, each with a SharedPtr and a WeakPtr to one object, in either
\* ESPMode.
CONSTANTS
    W = 16
    Vals = {v1, v2}
    NoValue = NoValue
    Uninit = Uninit
    DefaultValue = v1
    NotFound = NotFound
    MinBuckets = 4
    InitReserve = {0, 2}
    ReserveArgs = {5}
    Threads = {t1, t2, t3, t4}
    Modes = {"ThreadSafe", "NotThreadSafe"}

SPECIFICATION Spec
VIEW MCView

INVARIANTS
    TypeOK
    CountersConsistent
    ProbeChainIntact
    ProbeAlwaysStops
    CountsMatchReferencers
    NoUseAfterDestroy
    ControllerOutlivesReferences

PROPERTIES
    KVMapRefinement
    UnreferencedIsFreed
