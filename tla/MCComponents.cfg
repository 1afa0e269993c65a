\* RefPtr: three variables, two objects.  IdGenerator: 3-bit ids, from a
\* fresh generator and from one two ids short of max().  DoubleLinkedList:
\* three nodes, two values.  LinkedList: four elements, two
\* heads.  Shared pointers: one SharedRef, two SharedPtrs
\* and two WeakPtrs over two objects.  ReadWriteLock: two readers, two
\* writers.  KVO: one client, two observers, one key, notifyKinds New and
\* New | Initialize, three pairs.  Data: bytes 1 and 2, up to four
\* bytes, arguments of up to two.  Math: every 16-bit word, and tables
\* of up to 64 buckets.
CONSTANTS
    Ptrs = {p1, p2, p3}
    Objects = {o1, o2}
    Null = Null
    W = 3
    InitIds = {0, 5}
    BatchSizes = {0, 1, 2}
    Nodes = {n1, n2, n3}
    Values = {a, b}
    SRs = {r1}
    SPs = {s1, s2}
    WPs = {w1, w2}
    Dead = Dead
    Shareable = {o1}
    MathVals = {v1}
    NoValue = NoValue
    Uninit = Uninit
    Readers = {r1, r2}
    Writers = {w1, w2}
    NoThread = NoThread
    LNodes = {m1, m2, m3, m4}
    LHeads = {h1, h2}
    KVOObservers = {b1, b2}
    KVOKeys = {k1}
    Kinds = {1, 5}
    MaxPairs = 3
    NoEntry = NoEntry
    DataBytes = {1, 2}
    DataMaxLength = 4
    DataMaxArg = 2
    Self = Self
    Undef = Undef
    NoData = NoData
SPECIFICATION Spec
INVARIANTS
    TypeOK
    CountMatchesHolders
    NoDanglingNoLeak
    BatchResultMeansAllValid
    WellLinked
    LinksConsistent
    CountsMatchPointers
    SharedNoDanglingNoLeak
    AsSharedFindsThis
    MathMatchesReferences
    ProbeReachesEveryBucket
    SurrogatePairDecoded
    BitmapHoldsWhatWasAdded
    CharsetsReadTheirOwnBitmap
    PlaneTableMatchesFile
    DataHoldsContents
    RoundUpCapacityMatchesReference
    ReadersWritersExclusive
    CountersMatchThreads
    CallStateDefaultWhenIdle
PROPERTIES
    WaitingWriterServed
    ListRefinement
    LinkedRefinement
