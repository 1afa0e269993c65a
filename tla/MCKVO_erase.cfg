\* One client thread and two observers of one key: addObserver(o1),
\* addObserver(o2), removeObserver(o1).
CONSTANTS
    Threads = {t1}
    Observers = {o1, o2}
    Keys = {k1}
    Kinds = {1, 5}
    MaxPairs = 3
    NoEntry = NoEntry
SPECIFICATION Spec
INVARIANT ObserverSetCoherent
