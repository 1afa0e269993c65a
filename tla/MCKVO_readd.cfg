\* One client thread: addObserver(o, k) for an observer already alone on
\* the key (re-adding to change its notifyKind or context).
CONSTANTS
    Threads = {t1}
    Observers = {o1, o2}
    Keys = {k1, k2}
    Kinds = {1, 5}
    MaxPairs = 3
    NoEntry = NoEntry
SPECIFICATION Spec
INVARIANT RegistryMatchesSubscriptions
